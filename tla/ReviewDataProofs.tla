-------------------------- MODULE ReviewDataProofs --------------------------
(***************************************************************************)
(* A review of any patch, any conversation and anything reviewers return:  *)
(* the ranges that findings are held against, what the rules let through,  *)
(* that nothing is lost, the plan, and the comments that are posted.       *)
(***************************************************************************)
EXTENDS MCReviewData, FiniteSetTheorems, SequenceTheorems, WellFoundedInduction, TLAPS

\* A set of naturals that is not empty has a least element; the inductions below use it.
LEMMA LeastOf ==
    ASSUME NEW T \in SUBSET Nat, T # {}
    PROVE  \E n \in T : \A m \in T : n <= m
  <1> DEFINE R == {pair \in Nat \X Nat : pair[1] < pair[2]}
  <1>1. IsWellFoundedOn(R, Nat)
    BY NatLessThanWellFounded DEF OpToRel
  <1>2. PICK n \in T : \A m \in T : ~ (<<m, n>> \in R)
    <2> HIDE DEF R
    <2> QED BY <1>1, WFMin
  <1>3. ASSUME NEW m \in T PROVE n <= m
    <2>1. <<m, n>> \in Nat \X Nat /\ ~ (<<m, n>> \in R)
      BY <1>2
    <2> QED BY <2>1
  <1> QED BY <1>3

-----------------------------------------------------------------------------
(***************************************************************************)
(* The lines a patch shows, as TargetLines has them, of any patch.         *)
(***************************************************************************)
Body(p, h) == {j \in h + 1..Len(p) : \A k \in h + 1..j : p[k].kind # "hunk"}

Before(p, h, j) == {k \in Body(p, h) : k < j /\ InTarget(p[k].kind)}

Line(p, h, j) == p[h].target_start + Cardinality(Before(p, h, j))

Shown(p, kinds) ==
    UNION {{Line(p, i, j) : j \in {k \in Body(p, i) : p[k].kind \in kinds}} :
              i \in {h \in DOMAIN p : p[h].kind = "hunk"}}

Visible == {"added", "context"}

\* No header follows this one.
IsLastHeader(p, h) ==
    h \in DOMAIN p /\ p[h].kind = "hunk" /\ \A k \in h + 1..Len(p) : p[k].kind # "hunk"

\* Shown is the reference that RangesExact compares with.
LEMMA ShownIs == \A kinds : TargetLines(kinds) = Shown(patch, kinds)
  BY DEF TargetLines, Shown, LineAt, Line, Before, BodyOf, Body

\* A line is shown by a hunk and a line of its body.
LEMMA ShownBy ==
    ASSUME NEW p, NEW kinds, NEW n
    PROVE  n \in Shown(p, kinds) <=>
               \E i \in DOMAIN p : /\ p[i].kind = "hunk"
                                   /\ \E j \in Body(p, i) : p[j].kind \in kinds /\ n = Line(p, i, j)
  BY DEF Shown

\* One line more: it belongs to the last hunk, unless it is a header.
LEMMA BodyGrows ==
    ASSUME NEW S, NEW p \in Seq(S), NEW line \in S, NEW h \in DOMAIN p
    PROVE  LET q == Append(p, line)
               last == Len(p) + 1
           IN  /\ Body(p, h) \subseteq Body(q, h)
               /\ Body(q, h) \subseteq Body(p, h) \cup {last}
               /\ last \in Body(q, h) <=>
                      line.kind # "hunk" /\ \A k \in h + 1..Len(p) : p[k].kind # "hunk"
               /\ \A j \in Body(p, h) : j \in Nat /\ j <= Len(p) /\ h < j
  <1> DEFINE q == Append(p, line)
             last == Len(p) + 1
  <1>1. Len(p) \in Nat /\ Len(q) = last /\ h \in 1..Len(p)
    OBVIOUS
  <1>2. /\ \A k \in 1..Len(p) : q[k] = p[k]
        /\ q[last] = line
    OBVIOUS
  <1> HIDE DEF q
  <1>3. \A j \in h + 1..Len(p) : \A k \in h + 1..j : k \in 1..Len(p)
    BY <1>1
  <1>4. \A j \in h + 1..Len(p) : j \in Body(q, h) <=> j \in Body(p, h)
    BY <1>1, <1>2, <1>3 DEF Body
  <1>5. \A k \in h + 1..last : k = last \/ k \in h + 1..Len(p)
    BY <1>1
  <1>6. last \in h + 1..last /\ \A k \in h + 1..Len(p) : k \in h + 1..last /\ k \in 1..Len(p)
    BY <1>1
  <1>7. last \in Body(q, h) <=> \A k \in h + 1..last : q[k].kind # "hunk"
    BY <1>1, <1>6 DEF Body
  <1>8. last \in Body(q, h) <=> line.kind # "hunk" /\ \A k \in h + 1..Len(p) : p[k].kind # "hunk"
    BY <1>2, <1>5, <1>6, <1>7
  <1>9. \A j \in Body(p, h) : j \in h + 1..Len(p)
    BY DEF Body
  <1>10. \A j \in Body(q, h) : j \in h + 1..last
    BY <1>1 DEF Body
  <1>11. \A j \in Body(p, h) : j \in Nat /\ j <= Len(p) /\ h < j
    BY <1>1, <1>9
  <1>12. Body(p, h) \subseteq Body(q, h) /\ Body(q, h) \subseteq Body(p, h) \cup {last}
    BY <1>4, <1>5, <1>9, <1>10
  <1> QED BY <1>8, <1>11, <1>12 DEF q

\* The lines before a place do not change, and are finitely many.
LEMMA BeforeGrows ==
    ASSUME NEW S, NEW p \in Seq(S), NEW line \in S, NEW h \in DOMAIN p
    PROVE  LET q == Append(p, line)
               last == Len(p) + 1
           IN  /\ \A j \in 1..last : Before(q, h, j) = Before(p, h, j)
               /\ IsFiniteSet(Before(p, h, last)) /\ last \notin Before(p, h, last)
               /\ Before(q, h, last + 1) = IF last \in Body(q, h) /\ InTarget(line.kind)
                                           THEN Before(p, h, last) \cup {last}
                                           ELSE Before(p, h, last)
  <1> DEFINE q == Append(p, line)
             last == Len(p) + 1
  <1>1. Len(p) \in Nat
    OBVIOUS
  <1>2. /\ \A k \in 1..Len(p) : q[k] = p[k]
        /\ q[last] = line
    OBVIOUS
  <1>3. /\ Body(p, h) \subseteq Body(q, h)
        /\ Body(q, h) \subseteq Body(p, h) \cup {last}
        /\ \A j \in Body(p, h) : j \in Nat /\ j <= Len(p) /\ h < j
    BY BodyGrows
  <1> HIDE DEF q
  <1>4. \A k \in Body(p, h) : k \in 1..Len(p) /\ q[k] = p[k]
    BY <1>1, <1>2, <1>3
  <1>5. ASSUME NEW j \in 1..last
        PROVE  Before(q, h, j) = Before(p, h, j)
    <2>1. ~(last < j)
      BY <1>1
    <2> QED BY <1>3, <1>4, <2>1 DEF Before
  <1>6. IsFiniteSet(Before(p, h, last))
    <2>1. IsFiniteSet(1..Len(p))
      BY <1>1, FS_Interval
    <2>2. Before(p, h, last) \subseteq 1..Len(p)
      BY <1>4 DEF Before
    <2> QED BY <2>1, <2>2, FS_Subset
  <1>7. last \notin Before(p, h, last)
    BY <1>1 DEF Before
  <1>8. \A k \in Body(p, h) : k < last /\ k < last + 1
    BY <1>1, <1>3
  <1>9. last < last + 1
    BY <1>1
  <1>10. Before(q, h, last + 1) = IF last \in Body(q, h) /\ InTarget(line.kind)
                                  THEN Before(p, h, last) \cup {last}
                                  ELSE Before(p, h, last)
    BY <1>2, <1>3, <1>4, <1>8, <1>9 DEF Before
  <1> QED BY <1>5, <1>6, <1>7, <1>10 DEF q

\* A line more changes no number of a line before it.
LEMMA LineGrows ==
    ASSUME NEW S, NEW p \in Seq(S), NEW line \in S, NEW h \in DOMAIN p, p[h].target_start \in Nat
    PROVE  LET q == Append(p, line)
               last == Len(p) + 1
           IN  /\ q[h] = p[h]
               /\ \A j \in 1..last : Line(q, h, j) = Line(p, h, j)
               /\ Line(p, h, last) \in Nat
               /\ Line(q, h, last + 1) = IF last \in Body(q, h) /\ InTarget(line.kind)
                                         THEN Line(p, h, last) + 1 ELSE Line(p, h, last)
  <1> DEFINE q == Append(p, line)
             last == Len(p) + 1
  <1>1. q[h] = p[h]
    OBVIOUS
  <1>2. /\ \A j \in 1..last : Before(q, h, j) = Before(p, h, j)
        /\ IsFiniteSet(Before(p, h, last)) /\ last \notin Before(p, h, last)
        /\ Before(q, h, last + 1) = IF last \in Body(q, h) /\ InTarget(line.kind)
                                    THEN Before(p, h, last) \cup {last}
                                    ELSE Before(p, h, last)
    BY BeforeGrows
  <1> HIDE DEF q, last
  <1>3. Cardinality(Before(p, h, last)) \in Nat
    BY <1>2, FS_CardinalityType
  <1>4. Cardinality(Before(p, h, last) \cup {last}) = Cardinality(Before(p, h, last)) + 1
    BY <1>2, FS_AddElement
  <1>5. \A j \in 1..last : Line(q, h, j) = Line(p, h, j)
    BY <1>1, <1>2 DEF Line
  <1>6. Line(p, h, last) \in Nat
    BY <1>3 DEF Line
  <1>7. Line(q, h, last + 1) = IF last \in Body(q, h) /\ InTarget(line.kind)
                               THEN Line(p, h, last) + 1 ELSE Line(p, h, last)
    <2>1. CASE last \in Body(q, h) /\ InTarget(line.kind)
      <3>1. Cardinality(Before(q, h, last + 1)) = Cardinality(Before(p, h, last)) + 1
        BY <1>2, <1>4, <2>1
      <3> QED BY <1>1, <1>3, <2>1, <3>1 DEF Line
    <2>2. CASE ~(last \in Body(q, h) /\ InTarget(line.kind))
      BY <1>1, <1>2, <2>2 DEF Line
    <2> QED BY <2>1, <2>2
  <1> QED BY <1>1, <1>5, <1>6, <1>7 DEF q, last

-----------------------------------------------------------------------------
(***************************************************************************)
(* Joining ranges, one after the other.  The function over sets of indices *)
(* that the fold is defined by exists: a larger index is always taken      *)
(* first, so that it can be extended by one index.                         *)
(***************************************************************************)
JoinNext(f, first, rest, s) ==
    IF s = {} THEN first ELSE Joined(f[s \ {Max(s)}], rest[Max(s)])

Joins(f, first, rest, n) == f = [s \in SUBSET (1..n) |-> JoinNext(f, first, rest, s)]

NotJoined(first, rest) == {n \in Nat : ~ \E f : Joins(f, first, rest, n)}

\* An upper bound that is in the set is its maximum.
LEMMA MaxIs ==
    ASSUME NEW s \in SUBSET Int, NEW n \in s, \A m \in s : m <= n
    PROVE  Max(s) = n
  <1>1. \A x \in s : (\A y \in s : x >= y) => x = n
    BY SMT
  <1>2. \E x \in s : \A y \in s : x >= y
    BY SMT
  <1> QED BY <1>1, <1>2 DEF Max

\* The fold over ranges has a value after any number of them.
LEMMA JoinsExist == \A first, rest : \A n \in Nat : \E f : Joins(f, first, rest, n)
  <1> SUFFICES ASSUME NEW first, NEW rest, NotJoined(first, rest) # {} PROVE FALSE
    BY DEF NotJoined
  <1>1. NotJoined(first, rest) \in SUBSET Nat
    BY DEF NotJoined
  <1>2. PICK n \in NotJoined(first, rest) : \A m \in NotJoined(first, rest) : n <= m
    BY <1>1, LeastOf
  <1>3. n \in Nat /\ ~ \E f : Joins(f, first, rest, n)
    BY <1>2 DEF NotJoined
  <1>4. n # 0
    <2> DEFINE g == [s \in SUBSET (1..0) |-> first]
    <2>1. \A s \in SUBSET (1..0) : s = {}
      OBVIOUS
    <2>2. g = [s \in SUBSET (1..0) |-> JoinNext(g, first, rest, s)]
      BY <2>1, Zenon DEF JoinNext
    <2>3. Joins(g, first, rest, 0)
      BY <2>2 DEF Joins
    <2> QED BY <1>3, <2>3
  <1>5. n - 1 \in Nat /\ ~(n <= n - 1)
    BY <1>3, <1>4
  <1>6. PICK f : Joins(f, first, rest, n - 1)
    BY <1>2, <1>5 DEF NotJoined
  <1> DEFINE g == [s \in SUBSET (1..n) |-> IF n \in s THEN Joined(f[s \ {n}], rest[n]) ELSE f[s]]
  <1>7. ASSUME NEW s \in SUBSET (1..n)
        PROVE  g[s] = JoinNext(g, first, rest, s)
    <2>1. CASE n \in s
      <3>1. Max(s) = n
        BY <1>3, <2>1, MaxIs
      <3>2. s \ {n} \in SUBSET (1..n) /\ n \notin s \ {n}
        OBVIOUS
      <3>3. g[s \ {n}] = f[s \ {n}]
        BY <3>2
      <3> QED BY <2>1, <3>1, <3>3 DEF JoinNext
    <2>2. CASE n \notin s
      <3>1. s \in SUBSET (1..n - 1)
        BY <1>3, <2>2
      <3>2. g[s] = JoinNext(f, first, rest, s)
        BY <1>6, <2>2, <3>1 DEF Joins
      <3>3. \A x : s \ {x} \in SUBSET (1..n) /\ n \notin s \ {x}
        BY <2>2
      <3>4. \A x : g[s \ {x}] = f[s \ {x}]
        BY <3>3
      <3> HIDE DEF g
      <3> QED BY <3>2, <3>4 DEF JoinNext
    <2> QED BY <2>1, <2>2
  <1>8. g = [s \in SUBSET (1..n) |-> JoinNext(g, first, rest, s)]
    BY <1>7, Zenon
  <1>9. Joins(g, first, rest, n)
    BY <1>8 DEF Joins
  <1> QED BY <1>3, <1>9

\* What the ranges are joined to, after each of them.
LEMMA CoalesceSteps ==
    ASSUME NEW S, NEW spans \in Seq(S), spans # <<>>
    PROVE  \E done : /\ done[1] = <<spans[1]>>
                     /\ \A k \in 2..Len(spans) : done[k] = Joined(done[k - 1], spans[k])
                     /\ Coalesce(spans) = done[Len(spans)]
  <1> DEFINE first == <<Head(spans)>>
             rest == Tail(spans)
             iter == CHOOSE f : Joins(f, first, rest, Len(spans) - 1)
             done == [k \in 1..Len(spans) |-> iter[1..k - 1]]
  <1>1. Len(spans) \in Nat /\ Len(spans) # 0 /\ Len(spans) - 1 \in Nat
    OBVIOUS
  <1>2. DOMAIN rest = 1..Len(spans) - 1
    BY <1>1
  <1>3. \A k \in 1..Len(spans) - 1 : rest[k] = spans[k + 1]
    BY <1>1
  <1>4. first = <<spans[1]>>
    BY <1>1
  <1>5. Coalesce(spans) = iter[1..Len(spans) - 1]
    BY <1>2, Zenon DEF Coalesce, FoldLeft, MapThenFoldSet, Joins, JoinNext
  <1> HIDE DEF first, rest
  <1>6. Joins(iter, first, rest, Len(spans) - 1)
    BY <1>1, JoinsExist, Zenon
  <1> HIDE DEF iter
  <1>7. \A s \in SUBSET (1..Len(spans) - 1) : iter[s] = JoinNext(iter, first, rest, s)
    BY <1>6 DEF Joins
  <1>8. done[1] = <<spans[1]>>
    <2>1. done[1] = iter[1..0]
      BY <1>1
    <2>2. 1..0 = {} /\ {} \in SUBSET (1..Len(spans) - 1)
      OBVIOUS
    <2> QED BY <1>4, <1>7, <2>1, <2>2 DEF JoinNext
  <1>9. ASSUME NEW k \in 2..Len(spans)
        PROVE  done[k] = Joined(done[k - 1], spans[k])
    <2>1. k - 1 \in 1..Len(spans) - 1 /\ k \in 1..Len(spans) /\ k - 1 \in 1..Len(spans)
      BY <1>1
    <2>2. 1..k - 1 \in SUBSET (1..Len(spans) - 1) /\ 1..k - 1 # {}
      BY <1>1, <2>1
    <2>3. Max(1..k - 1) = k - 1
      <3>1. 1..k - 1 \in SUBSET Int /\ k - 1 \in 1..k - 1 /\ \A m \in 1..k - 1 : m <= k - 1
        BY <2>1
      <3> HIDE DEF first, rest, done
      <3> QED BY <3>1, MaxIs, Zenon
    <2>4. (1..k - 1) \ {k - 1} = 1..(k - 1) - 1
      BY <2>1
    <2>5. rest[k - 1] = spans[k]
      <3>1. (k - 1) + 1 = k
        OBVIOUS
      <3> QED BY <1>3, <2>1, <3>1
    <2>6. done[k] = iter[1..k - 1] /\ done[k - 1] = iter[1..(k - 1) - 1]
      BY <2>1
    <2> HIDE DEF done
    <2> QED BY <1>7, <2>2, <2>3, <2>4, <2>5, <2>6 DEF JoinNext
  <1>10. Coalesce(spans) = done[Len(spans)]
    BY <1>1, <1>5
  <1> QED BY <1>8, <1>9, <1>10

Spans == [start : Int, end : Int]

\* A range more adds its lines.
LEMMA LinesOfAppend ==
    ASSUME NEW spans \in Seq(Spans), NEW span \in Spans
    PROVE  LinesOf(Append(spans, span)) = LinesOf(spans) \cup Lines(span)
  <1> DEFINE q == Append(spans, span)
  <1>1. /\ DOMAIN q = DOMAIN spans \cup {Len(spans) + 1}
        /\ q[Len(spans) + 1] = span
        /\ \A i \in DOMAIN spans : q[i] = spans[i]
    OBVIOUS
  <1> HIDE DEF q
  <1>2. LinesOf(q) = LinesOf(spans) \cup Lines(span)
    BY <1>1 DEF LinesOf
  <1> QED BY <1>2 DEF q

\* A list that is not empty is its front and its last range.
LEMMA LastOf ==
    ASSUME NEW spans \in Seq(Spans), spans # <<>>
    PROVE  /\ Front(spans) \in Seq(Spans) /\ Last(spans) \in Spans
           /\ spans = Append(Front(spans), Last(spans))
  BY SMTT(30) DEF Front, Last

\* Joining one range makes up no line, and loses none of a range that starts no earlier.
LEMMA JoinedLines ==
    ASSUME NEW spans \in Seq(Spans), spans # <<>>, NEW span \in Spans
    PROVE  LET q == Joined(spans, span)
           IN  /\ q \in Seq(Spans) /\ q # <<>>
               /\ LinesOf(q) \subseteq LinesOf(spans) \cup Lines(span)
               /\ Last(spans).start <= span.start =>
                      /\ LinesOf(spans) \cup Lines(span) \subseteq LinesOf(q)
                      /\ Last(q).start <= span.start
  <1> DEFINE q == Joined(spans, span)
             last == Last(spans)
             joined == Span(last.start, IF span.end > last.end THEN span.end ELSE last.end)
  <1>1. /\ Front(spans) \in Seq(Spans) /\ last \in Spans
        /\ spans = Append(Front(spans), last)
    BY LastOf
  <1>2. joined \in Spans /\ joined.start = last.start
        /\ joined.end = IF span.end > last.end THEN span.end ELSE last.end
    BY <1>1 DEF Spans, Span
  <1>3. LinesOf(spans) = LinesOf(Front(spans)) \cup Lines(last)
    BY <1>1, LinesOfAppend, Zenon
  <1>4. \A s \in Seq(Spans), x \in Spans : Last(Append(s, x)) = x /\ Append(s, x) # <<>>
    BY DEF Last
  <1>5. CASE span.start <= last.end + 1
    <2>1. q = Append(Front(spans), joined)
      BY <1>5 DEF Joined
    <2> HIDE DEF q, last, joined
    <2>2. q \in Seq(Spans) /\ LinesOf(q) = LinesOf(Front(spans)) \cup Lines(joined)
      BY <1>1, <1>2, <2>1, LinesOfAppend
    <2>3. Lines(joined) \subseteq Lines(last) \cup Lines(span)
      BY <1>1, <1>2, <1>5 DEF Lines, Spans
    <2>4. last.start <= span.start => Lines(last) \cup Lines(span) \subseteq Lines(joined)
      <3>1. /\ last.start \in Int /\ last.end \in Int /\ span.start \in Int /\ span.end \in Int
            /\ joined.end \in Int /\ last.end <= joined.end /\ span.end <= joined.end
        <4>1. last.start \in Int /\ last.end \in Int /\ span.start \in Int /\ span.end \in Int
          BY <1>1 DEF Spans
        <4>2. joined.end = IF span.end > last.end THEN span.end ELSE last.end
          BY <1>2
        <4> QED BY <4>1, <4>2
      <3>2. Lines(last) \subseteq Lines(joined)
        BY <1>2, <3>1 DEF Lines
      <3>3. last.start <= span.start => Lines(span) \subseteq Lines(joined)
        BY <1>2, <3>1 DEF Lines
      <3> QED BY <3>2, <3>3
    <2>5. q # <<>> /\ Last(q) = joined
      BY <1>1, <1>2, <1>4, <2>1
    <2> QED BY <1>2, <1>3, <2>2, <2>3, <2>4, <2>5 DEF q, last
  <1>6. CASE ~(span.start <= last.end + 1)
    <2>1. q = Append(spans, span)
      BY <1>6 DEF Joined
    <2> HIDE DEF q, last, joined
    <2>2. q \in Seq(Spans) /\ LinesOf(q) = LinesOf(spans) \cup Lines(span)
      BY <2>1, LinesOfAppend
    <2>3. q # <<>> /\ Last(q) = span
      BY <1>4, <2>1
    <2>4. span.start <= span.start
      BY DEF Spans
    <2> QED BY <2>2, <2>3, <2>4 DEF q
  <1> QED BY <1>5, <1>6

(***************************************************************************)
(* Joining makes up no line, and loses none if the ranges come in the      *)
(* order of the file (github.py:1236-1246).                                *)
(***************************************************************************)
Sorted(spans) == \A i, j \in DOMAIN spans : i < j => spans[i].start <= spans[j].start

JoinedSoFar(spans, done, k) ==
    /\ done[k] \in Seq(Spans) /\ done[k] # <<>>
    /\ \A n \in LinesOf(done[k]) : \E i \in 1..k : n \in Lines(spans[i])
    /\ Sorted(spans) =>
           /\ Last(done[k]).start <= spans[k].start
           /\ \A i \in 1..k : Lines(spans[i]) \subseteq LinesOf(done[k])

NotSoFar(spans, done) == {k \in Nat : k \in 1..Len(spans) /\ ~JoinedSoFar(spans, done, k)}

\* Joining all ranges makes up no line, and loses none of ranges in order.
LEMMA CoalesceLines ==
    ASSUME NEW spans \in Seq(Spans), spans # <<>>
    PROVE  /\ LinesOf(Coalesce(spans)) \subseteq LinesOf(spans)
           /\ Sorted(spans) => LinesOf(spans) \subseteq LinesOf(Coalesce(spans))
           /\ Coalesce(spans) \in Seq(Spans)
  <1>1. PICK done : /\ done[1] = <<spans[1]>>
                    /\ \A k \in 2..Len(spans) : done[k] = Joined(done[k - 1], spans[k])
                    /\ Coalesce(spans) = done[Len(spans)]
    BY CoalesceSteps
  <1>2. Len(spans) \in Nat /\ 1 \in 1..Len(spans) /\ Len(spans) \in 1..Len(spans)
        /\ DOMAIN spans = 1..Len(spans) /\ \A k \in 1..Len(spans) : spans[k] \in Spans
    OBVIOUS
  <1>3. JoinedSoFar(spans, done, 1)
    <2>1. done[1] \in Seq(Spans) /\ done[1] # <<>> /\ Last(done[1]) = spans[1]
      BY <1>1, <1>2 DEF Last
    <2>2. LinesOf(done[1]) = Lines(spans[1])
      <3>1. \A i : i \in DOMAIN done[1] <=> i = 1
        BY <1>1
      <3>2. done[1][1] = spans[1]
        BY <1>1
      <3> QED BY <3>1, <3>2 DEF LinesOf
    <2>3. \A i : i \in 1..1 <=> i = 1
      OBVIOUS
    <2>4. spans[1].start <= spans[1].start
      BY <1>2 DEF Spans
    <2> QED BY <2>1, <2>2, <2>3, <2>4 DEF JoinedSoFar
  <1>4. ASSUME NEW k \in 2..Len(spans), JoinedSoFar(spans, done, k - 1)
        PROVE  JoinedSoFar(spans, done, k)
    <2>1. k \in 1..Len(spans) /\ k - 1 \in 1..Len(spans) /\ k - 1 < k
      BY <1>2
    <2>2. \A i : i \in 1..k <=> i \in 1..k - 1 \/ i = k
      BY <1>2
    <2>3. /\ done[k] \in Seq(Spans) /\ done[k] # <<>>
          /\ LinesOf(done[k]) \subseteq LinesOf(done[k - 1]) \cup Lines(spans[k])
          /\ Last(done[k - 1]).start <= spans[k].start =>
                 /\ LinesOf(done[k - 1]) \cup Lines(spans[k]) \subseteq LinesOf(done[k])
                 /\ Last(done[k]).start <= spans[k].start
      BY <1>1, <1>2, <1>4, <2>1, JoinedLines DEF JoinedSoFar
    <2>4. Sorted(spans) => Last(done[k - 1]).start <= spans[k].start
      <3>1. Sorted(spans) => spans[k - 1].start <= spans[k].start
        BY <1>2, <2>1 DEF Sorted
      <3>2. Last(done[k - 1]) \in Spans /\ spans[k] \in Spans /\ spans[k - 1] \in Spans
        BY <1>2, <1>4, <2>1, LastOf DEF JoinedSoFar
      <3>3. Sorted(spans) => Last(done[k - 1]).start <= spans[k - 1].start
        BY <1>4 DEF JoinedSoFar
      <3>4. /\ Last(done[k - 1]).start \in Int /\ spans[k].start \in Int
            /\ spans[k - 1].start \in Int
        BY <3>2 DEF Spans
      <3> QED BY <3>1, <3>3, <3>4
    <2> QED BY <1>4, <2>2, <2>3, <2>4 DEF JoinedSoFar
  <1>5. NotSoFar(spans, done) = {}
    <2> SUFFICES ASSUME NotSoFar(spans, done) # {} PROVE FALSE
      OBVIOUS
    <2>1. NotSoFar(spans, done) \in SUBSET Nat
      BY DEF NotSoFar
    <2>2. PICK k \in NotSoFar(spans, done) : \A m \in NotSoFar(spans, done) : k <= m
      BY <2>1, LeastOf
    <2>3. k \in 1..Len(spans) /\ ~JoinedSoFar(spans, done, k)
      BY <2>2 DEF NotSoFar
    <2>4. k # 1
      BY <1>3, <2>3
    <2>5. k \in 2..Len(spans) /\ k - 1 \in Nat /\ k - 1 \in 1..Len(spans) /\ ~(k <= k - 1)
      BY <1>2, <2>3, <2>4
    <2>6. JoinedSoFar(spans, done, k - 1)
      BY <2>2, <2>5 DEF NotSoFar
    <2> QED BY <1>4, <2>3, <2>5, <2>6
  <1>6. JoinedSoFar(spans, done, Len(spans))
    BY <1>2, <1>5 DEF NotSoFar
  <1>7. \A n : n \in LinesOf(spans) <=> \E i \in 1..Len(spans) : n \in Lines(spans[i])
    BY <1>2 DEF LinesOf
  <1> QED BY <1>1, <1>6, <1>7 DEF JoinedSoFar

-----------------------------------------------------------------------------
(***************************************************************************)
(* One line more shows at most one line more: the next one of the last     *)
(* hunk.                                                                   *)
(***************************************************************************)
WellFormed(p) ==
    \A h \in DOMAIN p : p[h].kind = "hunk" => p[h].target_start \in Nat /\ p[h].target_count \in Nat

\* A line more shows at most the line at which the last hunk stands.
LEMMA ShownGrows ==
    ASSUME NEW S, NEW p \in Seq(S), WellFormed(p), NEW line \in S, NEW kinds, NEW n
    PROVE  n \in Shown(Append(p, line), kinds) <=>
               \/ n \in Shown(p, kinds)
               \/ \E h : /\ IsLastHeader(p, h) /\ line.kind # "hunk" /\ line.kind \in kinds
                         /\ n = Line(p, h, Len(p) + 1)
  <1> DEFINE q == Append(p, line)
             last == Len(p) + 1
  <1>1. /\ Len(p) \in Nat /\ DOMAIN p = 1..Len(p)
        /\ DOMAIN q = 1..last /\ Len(q) = last
        /\ q[last] = line /\ \A i \in 1..Len(p) : q[i] = p[i]
    OBVIOUS
  <1>2. ASSUME NEW h \in DOMAIN p, p[h].kind = "hunk"
        PROVE  /\ \A j \in Body(p, h) : /\ j \in Body(q, h) /\ q[j] = p[j]
                                        /\ Line(q, h, j) = Line(p, h, j)
               /\ \A j \in Body(q, h) : j \in Body(p, h) \/ j = last
               /\ last \in Body(q, h) <=> line.kind # "hunk" /\ IsLastHeader(p, h)
               /\ Line(q, h, last) = Line(p, h, last)
    <2>1. /\ Body(p, h) \subseteq Body(q, h)
          /\ Body(q, h) \subseteq Body(p, h) \cup {last}
          /\ last \in Body(q, h) <=>
                 line.kind # "hunk" /\ \A k \in h + 1..Len(p) : p[k].kind # "hunk"
          /\ \A j \in Body(p, h) : j \in Nat /\ j <= Len(p) /\ h < j
      BY BodyGrows
    <2>2. \A j \in 1..last : Line(q, h, j) = Line(p, h, j)
      BY <1>2, LineGrows DEF WellFormed
    <2> HIDE DEF q
    <2>3. \A j \in Body(p, h) : j \in 1..Len(p) /\ j \in 1..last
      BY <1>1, <2>1
    <2>4. last \in 1..last
      BY <1>1
    <2> QED BY <1>1, <1>2, <2>1, <2>2, <2>3, <2>4 DEF IsLastHeader
  <1>3. Body(q, last) = {}
    <2>1. last + 1..Len(q) = {}
      BY <1>1
    <2> QED BY <2>1 DEF Body
  <1> HIDE DEF q
  <1>4. ASSUME n \in Shown(q, kinds)
        PROVE  \/ n \in Shown(p, kinds)
               \/ \E h : /\ IsLastHeader(p, h) /\ line.kind # "hunk" /\ line.kind \in kinds
                         /\ n = Line(p, h, last)
    <2>1. PICK h \in DOMAIN q : /\ q[h].kind = "hunk"
                                /\ \E j \in Body(q, h) : q[j].kind \in kinds /\ n = Line(q, h, j)
      BY <1>4, ShownBy
    <2>2. h \in DOMAIN p /\ q[h] = p[h]
      <3>1. h # last
        BY <1>3, <2>1
      <3>2. h \in 1..Len(p)
        BY <1>1, <3>1
      <3> QED BY <1>1, <3>2
    <2>3. PICK j \in Body(q, h) : q[j].kind \in kinds /\ n = Line(q, h, j)
      BY <2>1
    <2>4. CASE j \in Body(p, h)
      <3>1. p[j].kind \in kinds /\ n = Line(p, h, j)
        BY <1>2, <2>1, <2>2, <2>3, <2>4
      <3> QED BY <2>1, <2>2, <2>4, <3>1, ShownBy
    <2>5. CASE j = last
      BY <1>1, <1>2, <2>1, <2>2, <2>3, <2>5
    <2> QED BY <1>2, <2>1, <2>2, <2>4, <2>5
  <1>5. ASSUME n \in Shown(p, kinds)
        PROVE  n \in Shown(q, kinds)
    <2>1. PICK h \in DOMAIN p : /\ p[h].kind = "hunk"
                                /\ \E j \in Body(p, h) : p[j].kind \in kinds /\ n = Line(p, h, j)
      BY <1>5, ShownBy
    <2>2. h \in DOMAIN q /\ q[h] = p[h]
      BY <1>1
    <2>3. \E j \in Body(q, h) : q[j].kind \in kinds /\ n = Line(q, h, j)
      BY <1>2, <2>1
    <2> QED BY <2>1, <2>2, <2>3, ShownBy
  <1>6. ASSUME NEW h, IsLastHeader(p, h), line.kind # "hunk", line.kind \in kinds,
               n = Line(p, h, last)
        PROVE  n \in Shown(q, kinds)
    <2>1. h \in DOMAIN p /\ p[h].kind = "hunk"
      BY <1>6 DEF IsLastHeader
    <2>2. h \in DOMAIN q /\ q[h] = p[h]
      BY <1>1, <2>1
    <2>3. last \in Body(q, h) /\ q[last].kind \in kinds /\ n = Line(q, h, last)
      BY <1>1, <1>2, <1>6, <2>1
    <2> QED BY <2>1, <2>2, <2>3, ShownBy
  <1> QED BY <1>4, <1>5, <1>6 DEF q

\* A line of the body leaves the last header; a header is the last one.
LEMMA LastHeader ==
    ASSUME NEW S, NEW p \in Seq(S), NEW line \in S
    PROVE  LET q == Append(p, line)
               last == Len(p) + 1
           IN  /\ line.kind # "hunk" => \A h : IsLastHeader(p, h) => IsLastHeader(q, h)
               /\ line.kind = "hunk" => /\ IsLastHeader(q, last) /\ q[last] = line
                                        /\ line.target_start \in Nat =>
                                               Line(q, last, last + 1) = line.target_start
               /\ \A g, h : IsLastHeader(p, g) /\ IsLastHeader(p, h) => g = h
  <1> DEFINE q == Append(p, line)
             last == Len(p) + 1
  <1>1. /\ Len(p) \in Nat /\ DOMAIN p = 1..Len(p)
        /\ DOMAIN q = 1..last /\ Len(q) = last
        /\ q[last] = line /\ \A i \in 1..Len(p) : q[i] = p[i]
    OBVIOUS
  <1> HIDE DEF q
  <1>2. ASSUME line.kind # "hunk", NEW h, IsLastHeader(p, h)
        PROVE  IsLastHeader(q, h)
    <2>1. h \in 1..Len(p) /\ p[h].kind = "hunk"
      BY <1>1, <1>2 DEF IsLastHeader
    <2>2. \A k \in h + 1..last : k = last \/ k \in h + 1..Len(p)
      BY <1>1
    <2>3. \A k \in h + 1..Len(p) : k \in 1..Len(p)
      BY <1>1, <2>1
    <2>4. h \in 1..last
      BY <1>1, <2>1
    <2> QED BY <1>1, <1>2, <2>1, <2>2, <2>3, <2>4 DEF IsLastHeader
  <1>3. ASSUME line.kind = "hunk"
        PROVE  /\ IsLastHeader(q, last)
               /\ line.target_start \in Nat => Line(q, last, last + 1) = line.target_start
    <2>1. last + 1..Len(q) = {} /\ last \in DOMAIN q
      BY <1>1
    <2>2. Body(q, last) = {}
      BY <2>1 DEF Body
    <2>3. Cardinality(Before(q, last, last + 1)) = 0
      BY <2>2, FS_EmptySet DEF Before
    <2> QED BY <1>1, <1>3, <2>1, <2>3 DEF IsLastHeader, Line
  <1>4. ASSUME NEW g, NEW h, IsLastHeader(p, g), IsLastHeader(p, h)
        PROVE  g = h
    <2>1. g \in 1..Len(p) /\ h \in 1..Len(p)
      BY <1>1, <1>4 DEF IsLastHeader
    <2>2. ~(g < h) /\ ~(h < g)
      <3>1. g < h => h \in g + 1..Len(p)
        BY <1>1, <2>1
      <3>2. h < g => g \in h + 1..Len(p)
        BY <1>1, <2>1
      <3> QED BY <1>4, <3>1, <3>2 DEF IsLastHeader
    <2> QED BY <2>1, <2>2
  <1> QED BY <1>1, <1>2, <1>3, <1>4 DEF q

-----------------------------------------------------------------------------
(***************************************************************************)
(* What the reader knows of the lines it has read: the ranges it keeps are *)
(* shown, and of the last hunk the lines up to where it stands are shown;  *)
(* the additions are in the ranges it keeps or in the last hunk, which     *)
(* ends where the lines that are left end.                                 *)
(***************************************************************************)
Readers ==
    [saw_hunk : BOOLEAN, source_remaining : Nat, target_line : Nat, target_remaining : Nat,
     hunk : Spans, has_addition : BOOLEAN, changed : Seq(Spans), reason : PatchReasons \cup {None}]

Ordered(p) ==
    \A i, j \in DOMAIN p :
        i < j /\ p[i].kind = "hunk" /\ p[j].kind = "hunk"
            => p[i].target_start + p[i].target_count <= p[j].target_start

StandsAt(p, r, h) ==
    /\ IsLastHeader(p, h)
    /\ r.hunk.start = p[h].target_start
    /\ r.hunk.end + 1 = p[h].target_start + p[h].target_count
    /\ r.target_line = Line(p, h, Len(p) + 1)
    /\ r.target_line + r.target_remaining = r.hunk.end + 1

KnowsHunk(p, r) ==
    /\ r.hunk.start <= r.target_line
    /\ r.hunk.start..r.target_line - 1 \subseteq Shown(p, Visible)
    /\ Shown(p, {"added"})
           \subseteq LinesOf(r.changed) \cup (IF r.has_addition THEN Lines(r.hunk) ELSE {})

KeepsOrder(r) ==
    Sorted(r.changed) /\ \A i \in DOMAIN r.changed : r.changed[i].start <= r.hunk.start

ReaderInv(p, r) ==
    /\ r \in Readers
    /\ r.reason = None =>
           /\ LinesOf(r.changed) \subseteq Shown(p, Visible)
           /\ ~r.saw_hunk => /\ r.changed = <<>> /\ ~r.has_addition
                             /\ \A h \in DOMAIN p : p[h].kind # "hunk"
           /\ r.saw_hunk => /\ \E h \in DOMAIN p : StandsAt(p, r, h)
                            /\ KnowsHunk(p, r)
                            /\ Ordered(p) => KeepsOrder(r)

PatchInv ==
    /\ patch \in Seq(PatchLines) /\ Len(patch) <= MaxPatchLines /\ reader \in Readers
    /\ phase = "reading" => ReaderInv(patch, reader)

\* The numbers of the headers of a patch are naturals.
LEMMA PatchesWellFormed == \A p \in Seq(PatchLines) : WellFormed(p)
  <1> SUFFICES ASSUME NEW p \in Seq(PatchLines), NEW h \in DOMAIN p, p[h].kind = "hunk"
               PROVE  p[h].target_start \in Nat /\ p[h].target_count \in Nat
    BY DEF WellFormed
  <1>1. p[h] \in PatchLines
    OBVIOUS
  <1>2. IsHeader(p[h])
    BY <1>1, ReviewDataAssumption DEF BodyKinds
  <1> QED BY <1>2 DEF IsHeader

\* What a line of the body does to a reader that accepts it.
LEMMA BodyRead ==
    ASSUME NEW r \in Readers, NEW kind
    PROVE  LET b == ReadBody(r, kind)
           IN  /\ b \in Readers
               /\ r.reason = None /\ b.reason = None =>
                      /\ InTarget(kind) => r.target_remaining > 0
                      /\ b.saw_hunk = r.saw_hunk /\ b.changed = r.changed /\ b.hunk = r.hunk
                      /\ b.target_line = IF InTarget(kind) THEN r.target_line + 1 ELSE r.target_line
                      /\ b.target_remaining = IF InTarget(kind) THEN r.target_remaining - 1
                                              ELSE r.target_remaining
                      /\ b.has_addition <=> r.has_addition \/ kind = "added"
  <1> DEFINE b == ReadBody(r, kind)
             accepted ==
                 [r EXCEPT
                     !.source_remaining = IF InSource(kind) THEN @ - 1 ELSE @,
                     !.target_line = IF InTarget(kind) THEN @ + 1 ELSE @,
                     !.target_remaining = IF InTarget(kind) THEN @ - 1 ELSE @,
                     !.has_addition = @ \/ kind = "added"]
  <1>1. \A reason \in PatchReasons : Refused(r, reason) \in Readers /\ Refused(r, reason).reason # None
    BY PatchRangesAssumption DEF Refused, Readers
  <1>2. \/ \E reason \in PatchReasons : b = Refused(r, reason)
        \/ /\ InSource(kind) => r.source_remaining > 0
           /\ InTarget(kind) => r.target_remaining > 0
           /\ b = accepted
    BY DEF ReadBody, PatchReasons, Readers
  <1>3. CASE \E reason \in PatchReasons : b = Refused(r, reason)
    BY <1>1, <1>3
  <1>4. CASE /\ InSource(kind) => r.source_remaining > 0
             /\ InTarget(kind) => r.target_remaining > 0
             /\ b = accepted
    <2> HIDE DEF b
    <2>1. /\ accepted.saw_hunk = r.saw_hunk /\ accepted.changed = r.changed
          /\ accepted.hunk = r.hunk /\ accepted.reason = r.reason
          /\ accepted.source_remaining = IF InSource(kind) THEN r.source_remaining - 1
                                         ELSE r.source_remaining
          /\ accepted.target_line = IF InTarget(kind) THEN r.target_line + 1 ELSE r.target_line
          /\ accepted.target_remaining = IF InTarget(kind) THEN r.target_remaining - 1
                                         ELSE r.target_remaining
          /\ accepted.has_addition = (r.has_addition \/ kind = "added")
      BY DEF Readers
    <2>2. accepted.source_remaining \in Nat /\ accepted.target_line \in Nat
          /\ accepted.target_remaining \in Nat
      BY <1>4, <2>1 DEF Readers
    <2>3. accepted \in Readers
      BY <2>2 DEF Readers
    <2> HIDE DEF accepted
    <2> QED BY <1>4, <2>1, <2>3 DEF b
  <1> QED BY <1>2, <1>3, <1>4

\* What is visible is what counts in the new file, additions included.
LEMMA VisibleKinds == \A kind : (kind \in Visible <=> InTarget(kind)) /\ (kind = "added" => InTarget(kind))
  BY DEF Visible, InTarget

\* A patch in order was in order before its last line, and a header starts after what came before.
LEMMA OrderedBefore ==
    ASSUME NEW S, NEW p \in Seq(S), NEW line \in S, Ordered(Append(p, line))
    PROVE  /\ Ordered(p)
           /\ \A h \in DOMAIN p : p[h].kind = "hunk" /\ line.kind = "hunk" =>
                  p[h].target_start + p[h].target_count <= line.target_start
  <1> DEFINE q == Append(p, line)
             last == Len(p) + 1
  <1>1. /\ Len(p) \in Nat /\ DOMAIN p = 1..Len(p) /\ DOMAIN q = 1..last
        /\ q[last] = line /\ \A i \in 1..Len(p) : q[i] = p[i]
    OBVIOUS
  <1>2. Ordered(q)
    OBVIOUS
  <1> HIDE DEF q
  <1>3. \A i \in 1..Len(p) : i \in 1..last /\ i < last
    BY <1>1
  <1>4. last \in 1..last
    BY <1>1
  <1> QED BY <1>1, <1>2, <1>3, <1>4 DEF Ordered

\* The arithmetic of one line of a hunk.
LEMMA OneLineLess ==
    \A line, rest, end \in Int :
        /\ (line + 1) + (rest - 1) = line + rest
        /\ rest > 0 /\ line + rest = end + 1 => line <= end
  OBVIOUS

\* A line of a body keeps the invariant of the reader.
LEMMA BodyStep ==
    ASSUME NEW p \in Seq(PatchLines), NEW line \in PatchLines, line.kind # "hunk",
           NEW r, r.reason = None, r.saw_hunk, ReaderInv(p, r)
    PROVE  ReaderInv(Append(p, line), ReadBody(r, line.kind))
  <1> DEFINE q == Append(p, line)
             last == Len(p) + 1
             b == ReadBody(r, line.kind)
  <1>1. r \in Readers
    BY DEF ReaderInv
  <1>2. b \in Readers
    BY <1>1, BodyRead
  <1> SUFFICES ASSUME b.reason = None
               PROVE  /\ LinesOf(b.changed) \subseteq Shown(q, Visible)
                      /\ b.saw_hunk
                      /\ \E h \in DOMAIN q : StandsAt(q, b, h)
                      /\ KnowsHunk(q, b)
                      /\ Ordered(q) => KeepsOrder(b)
    BY <1>2 DEF ReaderInv
  <1>3. /\ InTarget(line.kind) => r.target_remaining > 0
        /\ b.saw_hunk = r.saw_hunk /\ b.changed = r.changed /\ b.hunk = r.hunk
        /\ b.target_line = IF InTarget(line.kind) THEN r.target_line + 1 ELSE r.target_line
        /\ b.target_remaining = IF InTarget(line.kind) THEN r.target_remaining - 1
                                ELSE r.target_remaining
        /\ b.has_addition <=> r.has_addition \/ line.kind = "added"
    BY <1>1, BodyRead
  <1>4. PICK h \in DOMAIN p : StandsAt(p, r, h)
    BY DEF ReaderInv
  <1>5. WellFormed(p)
    BY PatchesWellFormed
  <1>6. IsLastHeader(p, h) /\ p[h].kind = "hunk" /\ p[h].target_start \in Nat /\ r.target_line = Line(p, h, last)
    BY <1>4, <1>5 DEF StandsAt, IsLastHeader, WellFormed
  <1>7. /\ q[h] = p[h] /\ Len(q) = last /\ h \in DOMAIN q
        /\ Line(q, h, last + 1) = IF last \in Body(q, h) /\ InTarget(line.kind)
                                  THEN Line(p, h, last) + 1 ELSE Line(p, h, last)
    BY <1>6, LineGrows
  <1>8. last \in Body(q, h)
    BY <1>6, BodyGrows DEF IsLastHeader
  <1>9. IsLastHeader(q, h)
    BY <1>6, LastHeader
  <1>10. \A kinds, n : n \in Shown(q, kinds) <=>
             n \in Shown(p, kinds) \/ (line.kind \in kinds /\ n = r.target_line)
    <2>1. \A g : IsLastHeader(p, g) <=> g = h
      BY <1>6, LastHeader
    <2> SUFFICES ASSUME NEW kinds, NEW n
                 PROVE  n \in Shown(q, kinds) <=>
                            n \in Shown(p, kinds) \/ (line.kind \in kinds /\ n = r.target_line)
      OBVIOUS
    <2>2. n \in Shown(q, kinds) <=>
              \/ n \in Shown(p, kinds)
              \/ \E g : /\ IsLastHeader(p, g) /\ line.kind # "hunk" /\ line.kind \in kinds
                        /\ n = Line(p, g, last)
      BY <1>5, ShownGrows
    <2> HIDE DEF q, last
    <2> QED BY <1>6, <2>1, <2>2
  <1> HIDE DEF q, b
  <1>11. /\ r.target_line \in Nat /\ r.target_remaining \in Nat
         /\ r.hunk.start \in Int /\ r.hunk.end \in Int
    BY <1>1 DEF Readers, Spans
  <1>12. /\ LinesOf(r.changed) \subseteq Shown(p, Visible) /\ KnowsHunk(p, r)
         /\ Ordered(p) => KeepsOrder(r)
    BY DEF ReaderInv
  <1>13. LinesOf(b.changed) \subseteq Shown(q, Visible)
    BY <1>3, <1>10, <1>12
  <1>14. StandsAt(q, b, h)
    <2>1. b.target_line = Line(q, h, last + 1)
      BY <1>3, <1>6, <1>7, <1>8
    <2>2. b.target_line + b.target_remaining = r.target_line + r.target_remaining
      <3>1. CASE InTarget(line.kind)
        <4>1. b.target_line = r.target_line + 1 /\ b.target_remaining = r.target_remaining - 1
          BY <1>3, <3>1
        <4>2. r.target_line \in Int /\ r.target_remaining \in Int
          BY <1>11
        <4> QED BY <4>1, <4>2, OneLineLess
      <3>2. CASE ~InTarget(line.kind)
        BY <1>3, <3>2
      <3> QED BY <3>1, <3>2
    <2> QED BY <1>3, <1>4, <1>7, <1>9, <2>1, <2>2 DEF StandsAt
  <1>15. KnowsHunk(q, b)
    <2>1. b.hunk.start <= b.target_line
      <3>1. r.hunk.start <= r.target_line /\ r.target_line <= b.target_line /\ b.target_line \in Nat
        BY <1>3, <1>11, <1>12 DEF KnowsHunk
      <3> QED BY <1>3, <1>11, <3>1
    <2>2. ASSUME NEW n \in b.hunk.start..b.target_line - 1
          PROVE  n \in Shown(q, Visible)
      <3>1. n \in r.hunk.start..r.target_line - 1 \/ (InTarget(line.kind) /\ n = r.target_line)
        BY <1>3, <1>11, <2>2
      <3> QED BY <1>10, <1>12, <3>1, VisibleKinds DEF KnowsHunk
    <2>3. ASSUME NEW n \in Shown(q, {"added"})
          PROVE  n \in LinesOf(b.changed) \cup (IF b.has_addition THEN Lines(b.hunk) ELSE {})
      <3>1. CASE n \in Shown(p, {"added"})
        BY <1>3, <1>12, <3>1 DEF KnowsHunk
      <3>2. CASE line.kind = "added" /\ n = r.target_line
        <4>1. r.target_remaining > 0 /\ r.hunk.start <= r.target_line
              /\ r.target_line + r.target_remaining = r.hunk.end + 1
          BY <1>3, <1>4, <1>12, <3>2, VisibleKinds DEF KnowsHunk, StandsAt
        <4>2. r.target_line <= r.hunk.end
          <5>1. r.target_line \in Int /\ r.target_remaining \in Int /\ r.hunk.end \in Int
            BY <1>11
          <5> QED BY <4>1, <5>1, OneLineLess
        <4>3. r.target_line \in Lines(r.hunk)
          BY <1>11, <4>1, <4>2 DEF Lines
        <4> QED BY <1>3, <3>2, <4>3
      <3> QED BY <1>10, <2>3, <3>1, <3>2
    <2> QED BY <2>1, <2>2, <2>3 DEF KnowsHunk
  <1>16. Ordered(q) => KeepsOrder(b)
    BY <1>3, <1>12, OrderedBefore DEF KeepsOrder, q
  <1> QED BY <1>3, <1>7, <1>13, <1>14, <1>15, <1>16

(***************************************************************************)
(* A reader whose hunk is complete keeps the additions it has read, and    *)
(* nothing that is not shown (github.py:1081-1160).                        *)
(***************************************************************************)
LEMMA NothingShown ==
    ASSUME NEW p, \A h \in DOMAIN p : p[h].kind # "hunk", NEW kinds
    PROVE  Shown(p, kinds) = {}
  BY ShownBy

\* Ranges in order stay in order with one that starts after them.
LEMMA SortedAppend ==
    ASSUME NEW spans \in Seq(Spans), Sorted(spans), NEW span \in Spans,
           \A i \in DOMAIN spans : spans[i].start <= span.start
    PROVE  LET q == Append(spans, span)
           IN  Sorted(q) /\ \A i \in DOMAIN q : q[i].start <= span.start
  <1> DEFINE q == Append(spans, span)
             last == Len(spans) + 1
  <1>1. /\ Len(spans) \in Nat /\ DOMAIN spans = 1..Len(spans) /\ DOMAIN q = 1..last
        /\ q[last] = span /\ \A i \in 1..Len(spans) : q[i] = spans[i]
    OBVIOUS
  <1> HIDE DEF q
  <1>2. span.start <= span.start
    BY DEF Spans
  <1>3. \A i \in 1..last : i = last \/ i \in 1..Len(spans)
    BY <1>1
  <1>4. \A i \in DOMAIN q : q[i].start <= span.start
    BY <1>1, <1>2, <1>3
  <1>5. ASSUME NEW i \in DOMAIN q, NEW j \in DOMAIN q, i < j
        PROVE  q[i].start <= q[j].start
    <2>1. i \in 1..Len(spans)
      BY <1>1, <1>5
    <2>2. CASE j = last
      BY <1>1, <1>4, <2>2
    <2>3. CASE j \in 1..Len(spans)
      BY <1>1, <1>5, <2>1, <2>3 DEF Sorted
    <2> QED BY <1>1, <1>3, <2>2, <2>3
  <1> QED BY <1>4, <1>5 DEF q, Sorted

\* With the hunk at the end, if it is complete, the kept ranges are exact.
LEMMA KeptLines ==
    ASSUME NEW p, NEW r, ReaderInv(p, r), r.reason = None, r.saw_hunk => HunkIsComplete(r)
    PROVE  LET kept == WithLastHunk(r)
           IN  /\ kept \in Seq(Spans)
               /\ LinesOf(kept) \subseteq Shown(p, Visible)
               /\ Shown(p, {"added"}) \subseteq LinesOf(kept)
               /\ Ordered(p) => Sorted(kept)
               /\ Ordered(p) /\ r.saw_hunk => \A i \in DOMAIN kept : kept[i].start <= r.hunk.start
  <1> DEFINE kept == WithLastHunk(r)
  <1>1. r \in Readers /\ LinesOf(r.changed) \subseteq Shown(p, Visible)
    BY DEF ReaderInv
  <1>2. r.changed \in Seq(Spans) /\ r.hunk \in Spans /\ r.target_line \in Nat
    BY <1>1 DEF Readers
  <1>3. CASE ~r.saw_hunk
    <2>1. /\ r.changed = <<>> /\ ~r.has_addition
          /\ \A h \in DOMAIN p : p[h].kind # "hunk"
      BY <1>3 DEF ReaderInv
    <2>2. kept = <<>>
      BY <2>1 DEF WithLastHunk
    <2>3. LinesOf(<<>>) = {} /\ Sorted(<<>>) /\ <<>> \in Seq(Spans)
      BY DEF LinesOf, Sorted
    <2> QED BY <1>3, <2>1, <2>2, <2>3, NothingShown
  <1>4. CASE r.saw_hunk
    <2>1. KnowsHunk(p, r) /\ (Ordered(p) => KeepsOrder(r))
      BY <1>4 DEF ReaderInv
    <2>2. PICK h \in DOMAIN p : StandsAt(p, r, h)
      BY <1>4 DEF ReaderInv
    <2>3. r.target_line = r.hunk.end + 1
      <3>1. r.target_remaining = 0 /\ r.target_line + r.target_remaining = r.hunk.end + 1
        BY <1>4, <2>2 DEF HunkIsComplete, StandsAt
      <3> QED BY <1>2, <3>1
    <2>4. Lines(r.hunk) \subseteq Shown(p, Visible)
      <3>1. r.hunk.end \in Int /\ r.hunk.start \in Int
        BY <1>2 DEF Spans
      <3>2. r.target_line - 1 = r.hunk.end
        BY <2>3, <3>1
      <3> QED BY <2>1, <3>2 DEF KnowsHunk, Lines
    <2>5. CASE r.has_addition
      <3>1. kept = Append(r.changed, r.hunk)
        BY <2>5 DEF WithLastHunk
      <3>2. kept \in Seq(Spans) /\ LinesOf(kept) = LinesOf(r.changed) \cup Lines(r.hunk)
        BY <1>2, <3>1, LinesOfAppend
      <3>3. Ordered(p) => Sorted(kept) /\ \A i \in DOMAIN kept : kept[i].start <= r.hunk.start
        BY <1>2, <2>1, <3>1, SortedAppend DEF KeepsOrder
      <3> QED BY <1>1, <2>1, <2>4, <2>5, <3>2, <3>3 DEF KnowsHunk
    <2>6. CASE ~r.has_addition
      <3>1. kept = r.changed
        BY <2>6 DEF WithLastHunk
      <3> QED BY <1>1, <1>2, <2>1, <2>6, <3>1 DEF KnowsHunk, KeepsOrder
    <2> QED BY <2>5, <2>6
  <1> QED BY <1>3, <1>4

\* What a header makes of the reader when nothing is refused.
LEMMA HeaderRead ==
    ASSUME NEW r \in Readers, WithLastHunk(r) \in Seq(Spans), NEW line, IsHeader(line)
    PROVE  LET b == ReadHeader(r, line)
           IN  /\ b \in Readers
               /\ r.reason = None /\ b.reason = None =>
                      /\ r.saw_hunk => HunkIsComplete(r)
                      /\ b.saw_hunk /\ b.changed = WithLastHunk(r) /\ ~b.has_addition
                      /\ b.target_line = line.target_start /\ b.target_remaining = line.target_count
                      /\ b.hunk.start = line.target_start
                      /\ b.hunk.end + 1 = line.target_start + line.target_count
  <1> DEFINE b == ReadHeader(r, line)
             accepted ==
                 [r EXCEPT
                     !.saw_hunk = TRUE,
                     !.changed = WithLastHunk(r),
                     !.source_remaining = line.source_count,
                     !.target_line = line.target_start,
                     !.target_remaining = line.target_count,
                     !.hunk = Span(line.target_start, line.target_start + line.target_count - 1),
                     !.has_addition = FALSE]
  <1>1. \A reason \in PatchReasons : Refused(r, reason) \in Readers /\ Refused(r, reason).reason # None
    BY PatchRangesAssumption DEF Refused, Readers
  <1>2. HeaderFailure(r, line) # None => HeaderFailure(r, line) \in PatchReasons
    BY DEF HeaderFailure, PatchReasons
  <1>3. HeaderFailure(r, line) = None => (r.saw_hunk => HunkIsComplete(r))
    BY PatchRangesAssumption DEF HeaderFailure, PatchReasons
  <1>4. CASE HeaderFailure(r, line) # None
    BY <1>1, <1>2, <1>4 DEF ReadHeader
  <1>5. CASE HeaderFailure(r, line) = None
    <2>1. b = accepted
      BY <1>5 DEF ReadHeader
    <2> HIDE DEF b
    <2>2. /\ line.source_count \in Nat /\ line.target_start \in Nat /\ line.target_count \in Nat
      BY DEF IsHeader
    <2>3. /\ accepted.saw_hunk /\ accepted.changed = WithLastHunk(r) /\ ~accepted.has_addition
          /\ accepted.target_line = line.target_start /\ accepted.target_remaining = line.target_count
          /\ accepted.hunk = Span(line.target_start, line.target_start + line.target_count - 1)
      BY DEF Readers
    <2>4. Span(line.target_start, line.target_start + line.target_count - 1) \in Spans
      BY <2>2 DEF Span, Spans
    <2>5. accepted \in Readers
      BY <2>2, <2>4 DEF Readers
    <2>6. (line.target_start + line.target_count - 1) + 1 = line.target_start + line.target_count
      BY <2>2
    <2> HIDE DEF accepted
    <2>7. accepted.hunk.start = line.target_start
          /\ accepted.hunk.end + 1 = line.target_start + line.target_count
      BY <2>3, <2>6 DEF Span
    <2> QED BY <1>3, <1>5, <2>1, <2>3, <2>5, <2>7 DEF b
  <1> QED BY <1>4, <1>5

\* A header keeps the invariant of the reader.
LEMMA HeaderStep ==
    ASSUME NEW p \in Seq(PatchLines), NEW line \in PatchLines, line.kind = "hunk",
           NEW r, r.reason = None, ReaderInv(p, r)
    PROVE  ReaderInv(Append(p, line), ReadHeader(r, line))
  <1> DEFINE q == Append(p, line)
             last == Len(p) + 1
             b == ReadHeader(r, line)
             kept == WithLastHunk(r)
  <1>1. r \in Readers
    BY DEF ReaderInv
  <1>2. IsHeader(line)
    BY ReviewDataAssumption DEF BodyKinds
  <1>3. kept \in Seq(Spans)
    BY <1>1 DEF WithLastHunk, Readers
  <1>4. b \in Readers
    BY <1>1, <1>2, <1>3, HeaderRead
  <1> SUFFICES ASSUME b.reason = None
               PROVE  /\ LinesOf(b.changed) \subseteq Shown(q, Visible)
                      /\ b.saw_hunk
                      /\ \E h \in DOMAIN q : StandsAt(q, b, h)
                      /\ KnowsHunk(q, b)
                      /\ Ordered(q) => KeepsOrder(b)
    BY <1>4 DEF ReaderInv
  <1>5. /\ r.saw_hunk => HunkIsComplete(r)
        /\ b.saw_hunk /\ b.changed = kept /\ ~b.has_addition
        /\ b.target_line = line.target_start /\ b.target_remaining = line.target_count
        /\ b.hunk.start = line.target_start
        /\ b.hunk.end + 1 = line.target_start + line.target_count
    BY <1>1, <1>2, <1>3, HeaderRead
  <1>6. /\ LinesOf(kept) \subseteq Shown(p, Visible)
        /\ Shown(p, {"added"}) \subseteq LinesOf(kept)
        /\ Ordered(p) => Sorted(kept)
        /\ Ordered(p) /\ r.saw_hunk => \A i \in DOMAIN kept : kept[i].start <= r.hunk.start
    BY <1>5, KeptLines
  <1>7. line.target_start \in Nat /\ line.target_count \in Nat
    BY <1>2 DEF IsHeader
  <1>8. /\ IsLastHeader(q, last) /\ q[last] = line /\ Len(q) = last
        /\ Line(q, last, last + 1) = line.target_start
    BY <1>7, LastHeader
  <1>9. \A kinds, n : n \in Shown(q, kinds) <=> n \in Shown(p, kinds)
    BY ShownGrows, PatchesWellFormed
  <1>10. StandsAt(q, b, last) /\ last \in DOMAIN q
    BY <1>5, <1>8 DEF StandsAt, IsLastHeader
  <1> HIDE DEF q, b, kept
  <1>11. LinesOf(b.changed) \subseteq Shown(q, Visible)
    BY <1>5, <1>6, <1>9
  <1>12. KnowsHunk(q, b)
    <2>1. b.hunk.start <= b.target_line /\ b.hunk.start..b.target_line - 1 = {}
      BY <1>5, <1>7
    <2> QED BY <1>5, <1>6, <1>9, <2>1 DEF KnowsHunk
  <1>13. ASSUME Ordered(q) PROVE KeepsOrder(b)
    <2>1. Ordered(p) /\ \A h \in DOMAIN p : p[h].kind = "hunk" =>
              p[h].target_start + p[h].target_count <= line.target_start
      BY <1>13, OrderedBefore DEF q
    <2>2. ASSUME NEW i \in DOMAIN kept
          PROVE  kept[i].start <= b.hunk.start
      <3>1. r.saw_hunk
        <4>1. CASE ~r.saw_hunk
          <5>1. kept = <<>>
            BY <4>1 DEF kept, WithLastHunk, ReaderInv
          <5> QED BY <2>2, <5>1
        <4> QED BY <4>1
      <3>2. PICK h \in DOMAIN p : StandsAt(p, r, h)
        BY <3>1 DEF ReaderInv
      <3>3. p[h].kind = "hunk" /\ r.hunk.start = p[h].target_start
        BY <3>2 DEF StandsAt, IsLastHeader
      <3>4. p[h].target_start \in Nat /\ p[h].target_count \in Nat
        BY <3>3, PatchesWellFormed DEF WellFormed
      <3>5. p[h].target_start <= line.target_start
        <4>1. p[h].target_start + p[h].target_count <= line.target_start
          BY <2>1, <3>3
        <4> QED BY <1>7, <3>4, <4>1
      <3>6. kept[i].start \in Int /\ kept[i].start <= p[h].target_start
        <4>1. kept[i] \in Spans
          BY <1>3, <2>2
        <4> QED BY <1>6, <2>1, <3>1, <3>3, <4>1 DEF Spans
      <3> QED BY <1>5, <1>7, <3>4, <3>5, <3>6
    <2> QED BY <1>5, <1>6, <2>1, <2>2 DEF KeepsOrder
  <1> QED BY <1>5, <1>10, <1>11, <1>12, <1>13

\* Any line keeps the invariant of the reader.
LEMMA PatchStep ==
    ASSUME NEW p \in Seq(PatchLines), NEW line \in PatchLines,
           NEW r, r.reason = None, ReaderInv(p, r)
    PROVE  ReaderInv(Append(p, line), ReadPatchLine(r, line))
  <1>1. CASE line.kind = "hunk"
    BY <1>1, HeaderStep DEF ReadPatchLine
  <1>2. CASE line.kind = "bad_hunk"
    <2>1. ReadPatchLine(r, line) = Refused(r, "unsupported_header")
      BY <1>2 DEF ReadPatchLine
    <2>2. r \in Readers
      BY DEF ReaderInv
    <2>3. Refused(r, "unsupported_header") \in Readers /\ Refused(r, "unsupported_header").reason # None
      BY <2>2, PatchRangesAssumption DEF Refused, Readers, PatchReasons
    <2> QED BY <2>1, <2>3 DEF ReaderInv
  <1>3. CASE line.kind \notin {"hunk", "bad_hunk"} /\ r.saw_hunk
    BY <1>3, BodyStep DEF ReadPatchLine
  <1>4. CASE line.kind \notin {"hunk", "bad_hunk"} /\ ~r.saw_hunk
    <2> DEFINE q == Append(p, line)
    <2>1. ReadPatchLine(r, line) = r
      BY <1>4 DEF ReadPatchLine
    <2>2. /\ r \in Readers /\ r.changed = <<>> /\ ~r.has_addition
          /\ \A h \in DOMAIN p : p[h].kind # "hunk"
      BY <1>4 DEF ReaderInv
    <2>3. \A h \in DOMAIN q : q[h].kind # "hunk"
      <3>1. \A h \in DOMAIN q : (h \in DOMAIN p /\ q[h] = p[h]) \/ q[h] = line
        OBVIOUS
      <3> QED BY <1>4, <2>2, <3>1
    <2>4. LinesOf(r.changed) = {}
      BY <2>2 DEF LinesOf
    <2> QED BY <1>4, <2>1, <2>2, <2>3, <2>4 DEF ReaderInv
  <1> QED BY <1>1, <1>2, <1>3, <1>4

-----------------------------------------------------------------------------
(***************************************************************************)
(* The reader and its patch, in every state of a review.                   *)
(***************************************************************************)
LEMMA PatchInvInit == Init => PatchInv
  <1> SUFFICES ASSUME Init PROVE PatchInv
    OBVIOUS
  <1>1. patch = <<>> /\ reader = NewReader
    BY DEF Init
  <1>2. NewReader \in Readers /\ NewReader.changed = <<>> /\ ~NewReader.saw_hunk /\ ~NewReader.has_addition
    BY DEF NewReader, Readers, Span, Spans
  <1>3. LinesOf(<<>>) = {}
    BY DEF LinesOf
  <1>4. Len(<<>>) <= MaxPatchLines
    BY InputsAssumption
  <1> QED BY <1>1, <1>2, <1>3, <1>4 DEF PatchInv, ReaderInv

\* Every step keeps PatchInv.
LEMMA PatchInvStep == PatchInv /\ [MCNext]_vars => PatchInv'
  <1> SUFFICES ASSUME PatchInv, [MCNext]_vars PROVE PatchInv'
    OBVIOUS
  <1>1. ASSUME NEW line \in PatchLines, ReadLine(line) PROVE PatchInv'
    <2>1. /\ phase = "reading" /\ reader.reason = None /\ Len(patch) < MaxPatchLines
          /\ patch' = Append(patch, line) /\ reader' = ReadPatchLine(reader, line)
      BY <1>1 DEF ReadLine
    <2>2. patch \in Seq(PatchLines) /\ ReaderInv(patch, reader)
      BY <2>1 DEF PatchInv
    <2>3. Append(patch, line) \in Seq(PatchLines) /\ Len(Append(patch, line)) = Len(patch) + 1
      BY <2>2
    <2>4. Len(Append(patch, line)) <= MaxPatchLines
      BY <2>1, <2>2, <2>3, InputsAssumption
    <2>5. ReaderInv(patch', reader')
      BY <2>1, <2>2, PatchStep
    <2>6. reader' \in Readers
      BY <2>5 DEF ReaderInv
    <2> QED BY <2>1, <2>3, <2>4, <2>5, <2>6 DEF PatchInv
  <1>2. ASSUME NEW input \in Inputs(patch), StartReview(input) PROVE PatchInv'
    <2>1. phase' = "reviewing" /\ patch' = <<>> /\ reader' = NewReader
      BY <1>2 DEF StartReview
    <2>2. NewReader \in Readers
      BY DEF NewReader, Readers, Span, Spans
    <2>3. <<>> \in Seq(PatchLines) /\ Len(<<>>) <= MaxPatchLines
      BY InputsAssumption
    <2> QED BY <2>1, <2>2, <2>3 DEF PatchInv
  <1>3. ASSUME UNCHANGED <<patch, reader>>, phase' = "reading" => phase = "reading" PROVE PatchInv'
    BY <1>3 DEF PatchInv
  <1>4. ASSUME NEW output \in Returned, ReviewerReturns(output) PROVE PatchInv'
    BY <1>3, <1>4 DEF ReviewerReturns
  <1>5. CASE Present
    BY <1>3, <1>5 DEF Present
  <1>6. ASSUME NEW login \in Logins, StartPosting(login) PROVE PatchInv'
    BY <1>3, <1>6 DEF StartPosting
  <1>7. ASSUME NEW i \in DOMAIN findings, NEW wording \in Wordings, Reword(i, wording) PROVE PatchInv'
    BY <1>3, <1>7 DEF Reword, reviewVars
  <1>8. CASE AttemptPost
    BY <1>3, <1>8 DEF AttemptPost, reviewVars
  <1>9. CASE UNCHANGED vars
    BY <1>3, <1>9 DEF vars, reviewVars
  <1> QED BY <1>1, <1>2, <1>4, <1>5, <1>6, <1>7, <1>8, <1>9 DEF MCNext, ReviewNext

\* A patch is taken only if its reader came to the end of the last hunk.
LEMMA ReadToEnd ==
    ASSUME NEW p, NEW r, ReaderInv(p, r), EndOfPatch(r).reason = None
    PROVE  /\ HunkIsComplete(r) /\ WithLastHunk(r) # <<>> /\ r.reason = None
           /\ EndOfPatch(r).changed = WithLastHunk(r)
  <1>1. r \in Readers
    BY DEF ReaderInv
  <1>2. \A reason \in PatchReasons : Refused(r, reason).reason # None
    BY <1>1, PatchRangesAssumption DEF Refused, Readers
  <1>3. /\ HunkIsComplete(r) /\ WithLastHunk(r) # <<>>
        /\ EndOfPatch(r) = [r EXCEPT !.changed = WithLastHunk(r)]
    BY <1>2 DEF EndOfPatch, PatchReasons
  <1> QED BY <1>1, <1>3 DEF Readers

\* The ranges of a file are a list of spans.
LEMMA RangesAreSpans ==
    ASSUME NEW p, NEW r, ReaderInv(p, r), NEW status, NEW patch_status
    PROVE  ChangedRanges(status, patch_status, r) \in Seq(Spans)
  <1>1. CASE EndOfPatch(r).reason = None
    <2> DEFINE kept == WithLastHunk(r)
    <2>1. /\ HunkIsComplete(r) /\ kept # <<>> /\ r.reason = None
          /\ EndOfPatch(r).changed = kept
      BY <1>1, ReadToEnd
    <2>2. kept \in Seq(Spans)
      BY <2>1, KeptLines
    <2>3. Coalesce(kept) \in Seq(Spans)
      BY <2>1, <2>2, CoalesceLines
    <2> HIDE DEF kept
    <2> QED BY <2>1, <2>3 DEF ChangedRanges
  <1>2. CASE EndOfPatch(r).reason # None
    BY <1>2 DEF ChangedRanges
  <1> QED BY <1>1, <1>2

\* What the invariant says of the reader makes its ranges exact.
LEMMA RangesOfAReader == PatchInv => RangesExact
  <1> SUFFICES ASSUME PatchInv, phase = "reading"
               PROVE  /\ LinesOf(Ranges) \subseteq Shown(patch, Visible)
                      /\ Ranges # <<>> /\ Ordered(patch) => Shown(patch, {"added"}) \subseteq LinesOf(Ranges)
    <2>1. InFileOrder <=> Ordered(patch)
      BY DEF InFileOrder, Ordered
    <2>2. TargetLines({"added", "context"}) = Shown(patch, Visible)
          /\ TargetLines({"added"}) = Shown(patch, {"added"})
      BY ShownIs DEF Visible
    <2> QED BY <2>1, <2>2 DEF RangesExact, RangesWereRead, AdditionsAnchorable
  <1> DEFINE kept == WithLastHunk(reader)
  <1>1. ReaderInv(patch, reader) /\ reader \in Readers
    BY DEF PatchInv, ReaderInv
  <1>2. CASE Ranges = <<>>
    <2>1. LinesOf(<<>>) = {}
      BY DEF LinesOf
    <2> QED BY <1>2, <2>1
  <1>3. CASE Ranges # <<>>
    <2>1. EndOfPatch(reader).reason = None /\ Ranges = Coalesce(EndOfPatch(reader).changed)
      BY <1>3 DEF Ranges, ChangedRanges
    <2>2. /\ HunkIsComplete(reader) /\ kept # <<>> /\ reader.reason = None
          /\ EndOfPatch(reader).changed = kept
      BY <1>1, <2>1, ReadToEnd
    <2>3. /\ kept \in Seq(Spans)
          /\ LinesOf(kept) \subseteq Shown(patch, Visible)
          /\ Shown(patch, {"added"}) \subseteq LinesOf(kept)
          /\ Ordered(patch) => Sorted(kept)
      BY <1>1, <2>2, KeptLines
    <2>4. /\ LinesOf(Coalesce(kept)) \subseteq LinesOf(kept)
          /\ Sorted(kept) => LinesOf(kept) \subseteq LinesOf(Coalesce(kept))
      BY <2>2, <2>3, CoalesceLines
    <2> QED BY <2>1, <2>2, <2>3, <2>4
  <1> QED BY <1>2, <1>3

(***************************************************************************)
(* The lines that a finding may be about are lines the patch shows, and    *)
(* every addition is one of them, for every patch (github.py:1081-1246).   *)
(***************************************************************************)
THEOREM RangesAlwaysExact == MCSpec => []RangesExact
  <1>1. MCInit => PatchInv
    BY PatchInvInit DEF MCInit
  <1> QED BY <1>1, PatchInvStep, RangesOfAReader, PTL DEF MCSpec

-----------------------------------------------------------------------------
(***************************************************************************)
(* What is left of a list are its elements at the positions, all of them.  *)
(* The function that FlattenSeq defines by recursion exists, by the least  *)
(* length for which it would not.                                          *)
(***************************************************************************)
IsList(s) == \E S : s \in Seq(S)

FlattenNext(f, parts, i) == IF i = 1 THEN parts[i] ELSE f[i - 1] \o parts[i]

FlattensUpto(f, parts, n) == f = [i \in 1..n |-> FlattenNext(f, parts, i)]

NotFlattened(parts) == {n \in Nat : ~ \E f : FlattensUpto(f, parts, n)}

\* The fold that joins lists has a value after any number of them.
LEMMA FlattenExists == \A parts : \A n \in Nat : \E f : FlattensUpto(f, parts, n)
  <1> SUFFICES ASSUME NEW parts, NotFlattened(parts) # {} PROVE FALSE
    BY DEF NotFlattened
  <1>1. NotFlattened(parts) \in SUBSET Nat
    BY DEF NotFlattened
  <1>2. PICK n \in NotFlattened(parts) : \A m \in NotFlattened(parts) : n <= m
    BY <1>1, LeastOf
  <1>3. n \in Nat /\ ~ \E f : FlattensUpto(f, parts, n)
    BY <1>2 DEF NotFlattened
  <1>4. n # 0
    <2>1. 1..0 = {}
      OBVIOUS
    <2>2. FlattensUpto([i \in 1..0 |-> <<>>], parts, 0)
      BY <2>1 DEF FlattensUpto
    <2> QED BY <1>3, <2>2
  <1>5. n - 1 \in Nat /\ ~(n <= n - 1)
    BY <1>3, <1>4
  <1>6. PICK f : FlattensUpto(f, parts, n - 1)
    BY <1>2, <1>5 DEF NotFlattened
  <1> DEFINE g == [i \in 1..n |-> FlattenNext(f, parts, i)]
  <1>7. \A i \in 1..n - 1 : f[i] = FlattenNext(f, parts, i)
    BY <1>6 DEF FlattensUpto
  <1>8. \A i \in 1..n - 1 : i \in 1..n /\ g[i] = f[i]
    BY <1>3, <1>7
  <1>9. \A i \in 1..n : i # 1 => i - 1 \in 1..n - 1
    BY <1>3
  <1>10. \A i \in 1..n : FlattenNext(g, parts, i) = FlattenNext(f, parts, i)
    <2> HIDE DEF g
    <2> QED BY <1>8, <1>9 DEF FlattenNext
  <1>11. g = [i \in 1..n |-> FlattenNext(g, parts, i)]
    BY <1>10, Zenon
  <1>12. FlattensUpto(g, parts, n)
    BY <1>11 DEF FlattensUpto
  <1> QED BY <1>3, <1>12

\* The elements of a list at these positions.
At(seq, positions) == {seq[i] : i \in DOMAIN seq \cap positions}

\* What is taken from a list is a list of the elements at the positions, all of them, once, and no other.
LEMMA ElementsOf ==
    ASSUME NEW S, NEW seq \in Seq(S), NEW positions
    PROVE  /\ ElementsAt(seq, positions) \in Seq(At(seq, positions))
           /\ Range(ElementsAt(seq, positions)) = At(seq, positions)
           /\ Len(ElementsAt(seq, positions)) = Cardinality(DOMAIN seq \cap positions)
  <1> DEFINE parts == [i \in DOMAIN seq |-> IF i \in positions THEN <<seq[i]>> ELSE <<>>]
             n == Len(seq)
             T == At(seq, positions)
             f == CHOOSE h : FlattensUpto(h, parts, n)
  <1>1. n \in Nat /\ DOMAIN seq = 1..n /\ Len(parts) = n
    OBVIOUS
  <1>2. CASE n = 0
    <2>1. parts = <<>>
      BY <1>1, <1>2
    <2>2. ElementsAt(seq, positions) = <<>>
      BY <1>1, <1>2, <2>1 DEF ElementsAt, FlattenSeq
    <2>3. T = {}
      BY <1>1, <1>2 DEF At
    <2>4. DOMAIN seq \cap positions = {}
      BY <1>1, <1>2
    <2>5. <<>> \in Seq({}) /\ Range(<<>>) = {} /\ Len(<<>>) = 0
      BY DEF Range
    <2>6. Cardinality({}) = 0
      BY FS_EmptySet
    <2> HIDE DEF T
    <2>7. /\ ElementsAt(seq, positions) \in Seq(T) /\ Range(ElementsAt(seq, positions)) = T
          /\ Len(ElementsAt(seq, positions)) = Cardinality(DOMAIN seq \cap positions)
      BY <2>2, <2>3, <2>4, <2>5, <2>6
    <2> QED BY <2>7 DEF T
  <1>3. CASE n # 0
    <2>1. FlattensUpto(f, parts, n)
      BY <1>1, FlattenExists, Zenon
    <2>2. ElementsAt(seq, positions) = f[n]
      BY <1>1, <1>3 DEF ElementsAt, FlattenSeq, FlattensUpto, FlattenNext
    <2> HIDE DEF f
    <2>3. \A i \in 1..n : f[i] = FlattenNext(f, parts, i)
      BY <2>1 DEF FlattensUpto
    <2> DEFINE Upto(i) == {seq[j] : j \in 1..i \cap positions}
               Taken(i) == 1..i \cap positions
               Good(i) == /\ f[i] \in Seq(Upto(i)) /\ Range(f[i]) = Upto(i)
                          /\ Len(f[i]) = Cardinality(Taken(i))
               bad == {i \in 1..n : ~Good(i)}
    <2>4. bad = {}
      <3> SUFFICES ASSUME bad # {} PROVE FALSE
        OBVIOUS
      <3>1. bad \in SUBSET Nat
        OBVIOUS
      <3>2. PICK i \in bad : \A j \in bad : i <= j
        BY <3>1, LeastOf
      <3>3. i \in 1..n /\ ~Good(i)
        BY <3>2
      <3>4. /\ parts[i] = IF i \in positions THEN <<seq[i]>> ELSE <<>>
            /\ f[i] = IF i = 1 THEN parts[i] ELSE f[i - 1] \o parts[i]
        BY <1>1, <2>3, <3>3 DEF FlattenNext
      <3>5. CASE i = 1
        <4>1. Upto(1) = IF 1 \in positions THEN {seq[1]} ELSE {}
          OBVIOUS
        <4>2. Taken(1) = IF 1 \in positions THEN {1} ELSE {}
          OBVIOUS
        <4>5. f[1] = IF 1 \in positions THEN <<seq[1]>> ELSE <<>>
          BY <3>4, <3>5
        <4>3. CASE 1 \in positions
          <5>1. f[1] = <<seq[1]>> /\ Upto(1) = {seq[1]} /\ Taken(1) = {1}
            BY <4>1, <4>2, <4>3, <4>5
          <5>2. /\ <<seq[1]>> \in Seq({seq[1]}) /\ Range(<<seq[1]>>) = {seq[1]}
                /\ Len(<<seq[1]>>) = 1
            BY DEF Range
          <5>3. Cardinality({1}) = 1
            BY FS_Singleton
          <5> HIDE DEF Upto, Taken
          <5> QED BY <3>3, <3>5, <5>1, <5>2, <5>3
        <4>4. CASE 1 \notin positions
          <5>1. f[1] = <<>> /\ Upto(1) = {} /\ Taken(1) = {}
            BY <4>1, <4>2, <4>4, <4>5
          <5>2. <<>> \in Seq({}) /\ Range(<<>>) = {} /\ Len(<<>>) = 0
            BY DEF Range
          <5> HIDE DEF Upto, Taken
          <5> QED BY <3>3, <3>5, <5>1, <5>2, FS_EmptySet
        <4> QED BY <4>3, <4>4
      <3>6. CASE i # 1
        <4>1. i \in Nat /\ i - 1 \in 1..n /\ ~(i <= i - 1)
          BY <3>3, <3>6
        <4>2. Good(i - 1)
          <5>1. i - 1 \notin bad
            <6> HIDE DEF bad
            <6> QED BY <3>2, <4>1
          <5> QED BY <4>1, <5>1
        <4>3. Upto(i) = Upto(i - 1) \cup (IF i \in positions THEN {seq[i]} ELSE {})
          <5>1. 1..i = (1..i - 1) \cup {i}
            BY <3>3
          <5> QED BY <5>1
        <4>7. Taken(i) = Taken(i - 1) \cup (IF i \in positions THEN {i} ELSE {})
          <5>1. 1..i = (1..i - 1) \cup {i}
            BY <3>3
          <5> QED BY <5>1
        <4>8. IsFiniteSet(Taken(i - 1)) /\ i \notin Taken(i - 1)
          <5>1. IsFiniteSet(1..i - 1) /\ i \notin 1..i - 1
            BY <3>3, FS_Interval
          <5> QED BY <5>1, FS_Subset
        <4> DEFINE before == f[i - 1]
                   U == Upto(i - 1)
                   V == Taken(i - 1)
        <4>4. before \in Seq(U) /\ Range(before) = U /\ Len(before) = Cardinality(V)
          BY <4>2
        <4> HIDE DEF before, U, V
        <4>5. CASE i \in positions
          <5>1. f[i] = Append(before, seq[i])
            <6>1. f[i] = before \o <<seq[i]>>
              BY <3>4, <3>6, <4>5 DEF before
            <6> QED BY <4>4, <6>1
          <5>2. Range(Append(before, seq[i])) = U \cup {seq[i]}
            <6>1. /\ DOMAIN Append(before, seq[i]) = DOMAIN before \cup {Len(before) + 1}
                  /\ Append(before, seq[i])[Len(before) + 1] = seq[i]
                  /\ \A j \in DOMAIN before : Append(before, seq[i])[j] = before[j]
              BY <4>4, AppendProperties
            <6> QED BY <4>4, <6>1 DEF Range
          <5>3. Append(before, seq[i]) \in Seq(U \cup {seq[i]})
            BY <4>4
          <5>4. Upto(i) = U \cup {seq[i]} /\ Taken(i) = V \cup {i}
            BY <4>3, <4>5, <4>7 DEF U, V
          <5>5. Len(Append(before, seq[i])) = Cardinality(V \cup {i})
            <6>1. Cardinality(V \cup {i}) = Cardinality(V) + 1
              BY <4>8, FS_AddElement DEF V
            <6>2. Len(Append(before, seq[i])) = Len(before) + 1
              BY <4>4, AppendProperties
            <6> QED BY <4>4, <6>1, <6>2
          <5> HIDE DEF Upto, Taken
          <5> QED BY <3>3, <5>1, <5>2, <5>3, <5>4, <5>5
        <4>6. CASE i \notin positions
          <5>1. f[i] = before
            <6>1. f[i] = before \o <<>>
              BY <3>4, <3>6, <4>6 DEF before
            <6> QED BY <4>4, <6>1
          <5>2. Upto(i) = U /\ Taken(i) = V
            BY <4>3, <4>6, <4>7 DEF U, V
          <5> HIDE DEF Upto, Taken
          <5> QED BY <3>3, <4>4, <5>1, <5>2
        <4> QED BY <4>5, <4>6
      <3> QED BY <3>5, <3>6
    <2>5. n \in 1..n
      BY <1>1, <1>3
    <2>6. Good(n)
      BY <2>4, <2>5
    <2>7. Upto(n) = T /\ Taken(n) = DOMAIN seq \cap positions
      BY <1>1 DEF At
    <2> QED BY <2>2, <2>6, <2>7
  <1> QED BY <1>2, <1>3

(***************************************************************************)
(* The findings of the review are a list, whatever the reviewers return.   *)
(***************************************************************************)
LEMMA MappedIsList == ASSUME NEW f, NEW s, IsList(s), f = [i \in DOMAIN s |-> f[i]] PROVE IsList(f)
  <1>1. PICK S : s \in Seq(S)
    BY DEF IsList
  <1>2. Len(s) \in Nat /\ DOMAIN s = 1..Len(s)
    BY <1>1
  <1>3. f \in Seq({f[i] : i \in 1..Len(s)})
    BY <1>2
  <1> QED BY <1>3 DEF IsList

\* What is taken from a list is a list.
LEMMA ElementsAreList == ASSUME NEW s, NEW positions, IsList(s) PROVE IsList(ElementsAt(s, positions))
  <1>1. PICK S : s \in Seq(S)
    BY DEF IsList
  <1>2. ElementsAt(s, positions) \in Seq(At(s, positions))
    BY <1>1, ElementsOf
  <1> QED BY <1>2 DEF IsList

\* Two lists joined are a list.
LEMMA JoinedIsList == ASSUME NEW s, NEW t, IsList(s), IsList(t) PROVE IsList(s \o t)
  <1>1. PICK S, T : s \in Seq(S) /\ t \in Seq(T)
    BY DEF IsList
  <1>2. s \in Seq(S \cup T) /\ t \in Seq(S \cup T)
    BY <1>1
  <1>3. s \o t \in Seq(S \cup T)
    BY <1>2
  <1> QED BY <1>3 DEF IsList

-----------------------------------------------------------------------------
(***************************************************************************)
(* The pull request that is reviewed.                                      *)
(***************************************************************************)
FileFields == {"path", "status", "patch_status", "patch_bytes", "changed_ranges"}

IsRequest(request) ==
    /\ IsList(request.files) /\ IsList(request.comments)
    /\ \A i \in DOMAIN request.files : /\ DOMAIN request.files[i] = FileFields
                                       /\ IsList(request.files[i].changed_ranges)
    /\ \A c \in DOMAIN request.comments : request.comments[c].body # None

InReview == phase \in {"reviewing", "presented"}

RequestInv == (pr # None \/ InReview) => IsRequest(pr)

\* The pull request that is reviewed is well formed.
LEMMA RequestRead ==
    ASSUME PatchInv, NEW input \in Inputs(patch), StartReview(input)
    PROVE  IsRequest(pr')
  <1> DEFINE first == [input.files[1] EXCEPT !.changed_ranges =
                          ChangedRanges(input.files[1].status, input.files[1].patch_status, reader)]
             files == [i \in DOMAIN input.files |-> IF i > 1 THEN input.files[i] ELSE first]
  <1>1. phase = "reading" /\ pr' = [input EXCEPT !.files = files]
    BY DEF StartReview
  <1>2. IsInput(input)
    <2>1. patch \in Seq(PatchLines) /\ Len(patch) \in 0..MaxPatchLines
      BY <1>1, InputsAssumption DEF PatchInv
    <2>2. patch \in BoundedSeq(PatchLines, MaxPatchLines)
      <3>1. patch \in [1..Len(patch) -> PatchLines]
        BY <2>1
      <3> QED BY <2>1, <3>1 DEF BoundedSeq, SeqOf
    <2> QED BY <2>2, InputsAssumption
  <1>3. pr'.files = files /\ pr'.comments = input.comments
    <2> HIDE DEF files
    <2> QED BY <1>1, <1>2 DEF IsInput
  <1>4. IsList(input.files) /\ IsList(input.comments)
    BY <1>2 DEF IsInput, IsList
  <1>5. \A i \in DOMAIN input.files : /\ DOMAIN input.files[i] = FileFields
                                      /\ IsList(input.files[i].changed_ranges)
    BY <1>2 DEF IsInput, IsList, Range, FileFields
  <1>6. \A c \in DOMAIN input.comments : input.comments[c].body # None
    BY <1>2 DEF IsInput, Range
  <1>7. IsList(ChangedRanges(input.files[1].status, input.files[1].patch_status, reader))
    BY <1>1, RangesAreSpans DEF PatchInv, IsList
  <1>8. \A i \in DOMAIN files : DOMAIN files[i] = FileFields /\ IsList(files[i].changed_ranges)
    <2> SUFFICES ASSUME NEW i \in DOMAIN input.files
                 PROVE  DOMAIN files[i] = FileFields /\ IsList(files[i].changed_ranges)
      OBVIOUS
    <2>1. CASE i > 1
      BY <1>5, <2>1
    <2>2. CASE ~(i > 1)
      <3>1. i = 1
        BY <1>4, <2>2 DEF IsList
      <3>2. files[1] = first
        BY <2>2, <3>1
      <3>3. DOMAIN first = FileFields
            /\ first.changed_ranges =
                   ChangedRanges(input.files[1].status, input.files[1].patch_status, reader)
        BY <1>5, <3>1 DEF FileFields
      <3> HIDE DEF files, first
      <3> QED BY <1>7, <3>1, <3>2, <3>3
    <2> QED BY <2>1, <2>2
  <1>9. IsList(files)
    <2>1. files = [i \in DOMAIN input.files |-> files[i]]
      OBVIOUS
    <2> HIDE DEF files
    <2> QED BY <1>4, <2>1, MappedIsList
  <1> HIDE DEF files
  <1> QED BY <1>3, <1>4, <1>6, <1>8, <1>9 DEF IsRequest

\* Every step keeps it so.
LEMMA RequestSteps == PatchInv /\ RequestInv /\ [MCNext]_vars => RequestInv'
  <1> SUFFICES ASSUME PatchInv, RequestInv, [MCNext]_vars PROVE RequestInv'
    OBVIOUS
  <1>1. ASSUME UNCHANGED pr, phase' \in {"reviewing", "presented"} => phase = "reviewing" \/ UNCHANGED phase
        PROVE  RequestInv'
    BY <1>1 DEF RequestInv, InReview, IsRequest, IsList
  <1>2. ASSUME NEW line \in PatchLines, ReadLine(line) PROVE RequestInv'
    BY <1>1, <1>2 DEF ReadLine
  <1>3. ASSUME NEW input \in Inputs(patch), StartReview(input) PROVE RequestInv'
    BY <1>3, RequestRead DEF RequestInv, IsRequest, IsList
  <1>4. ASSUME NEW output \in Returned, ReviewerReturns(output) PROVE RequestInv'
    BY <1>1, <1>4 DEF ReviewerReturns
  <1>5. CASE Present
    BY <1>1, <1>5 DEF Present
  <1>6. ASSUME NEW login \in Logins, StartPosting(login) PROVE RequestInv'
    BY <1>6 DEF StartPosting, RequestInv, InReview
  <1>7. ASSUME NEW i \in DOMAIN findings, NEW wording \in Wordings, Reword(i, wording) PROVE RequestInv'
    BY <1>1, <1>7 DEF Reword, reviewVars
  <1>8. CASE AttemptPost
    BY <1>1, <1>8 DEF AttemptPost, reviewVars
  <1>9. CASE UNCHANGED vars
    BY <1>1, <1>9 DEF vars, reviewVars
  <1> QED BY <1>2, <1>3, <1>4, <1>5, <1>6, <1>7, <1>8, <1>9 DEF MCNext, ReviewNext

-----------------------------------------------------------------------------
(***************************************************************************)
(* What the reviewers return, as lists.                                    *)
(***************************************************************************)
\* Findings whose lines do not run backwards.
AreFindings(list) ==
    /\ IsList(list)
    /\ \A item \in Range(list) :
           item.type = "finding" /\ (item.line_end = None \/ item.line <= item.line_end)

\* No item is fatal where the first fatal one was not found.
LEMMA NoneFatal ==
    ASSUME NEW S, NEW items \in Seq(S), ~(FirstFatal(items) > 0)
    PROVE  \A i \in DOMAIN items : FatalCode(items[i]) = None
  <1> DEFINE fatal == {i \in 1..Len(items) : FatalCode(items[i]) # None}
  <1>1. fatal = {}
    <2> SUFFICES ASSUME fatal # {} PROVE FALSE
      OBVIOUS
    <2>1. FirstFatal(items) = Min(fatal)
      BY DEF FirstFatal, SelectInSeq
    <2>2. fatal \in SUBSET Nat /\ \A n \in fatal : n > 0
      OBVIOUS
    <2> HIDE DEF fatal
    <2>3. \E n \in fatal : \A m \in fatal : n <= m
      BY <2>2, LeastOf
    <2>4. Min(fatal) \in fatal
      BY <2>3 DEF Min
    <2> QED BY <2>1, <2>2, <2>4
  <1> QED BY <1>1

\* What gets past the fatal errors and is kept as a finding was parsed as one.
LEMMA ValidFinding ==
    ASSUME NEW item, FatalCode(item) = None, item.type = "finding", ~item.graph_owned
    PROVE  item.valid
  <1>1. <<"invalid_type">> # None /\ <<"invalid_", "finding">> # None
    BY ReviewOutputAssumption DEF RepairableReviewerOutputErrorCodes, ItemTypes
  <1> QED BY <1>1 DEF FatalCode, ItemTypes

\* Findings and notes are among the collections.
LEMMA FindingsName == "findings" \in CollectionNames /\ "local_notes" \in CollectionNames
  BY DEF CollectionNames, NoCollections

\* Nothing is a list.
LEMMA EmptyIsList == IsList(<<>>)
  <1>1. <<>> \in Seq({})
    OBVIOUS
  <1> QED BY <1>1 DEF IsList

\* Outputs by kind, each kind a list.
Listed(outputs) ==
    /\ outputs = [name \in CollectionNames |-> outputs[name]]
    /\ \A name \in CollectionNames : IsList(outputs[name])

LEMMA RecordListed ==
    ASSUME NEW f, NEW q, NEW n, NEW r, NEW s,
           IsList(f), IsList(q), IsList(n), IsList(r), IsList(s)
    PROVE  Listed([findings |-> f, clarification_requests |-> q, local_notes |-> n,
                   suggested_replies |-> r, suppressed_outputs |-> s])
  BY DEF Listed, CollectionNames, NoCollections

AreCollections(outputs) == Listed(outputs) /\ AreFindings(outputs.findings)

\* What a normalizer can make a collection of.
AreItems(items) ==
    /\ items \in Seq(Range(items)) /\ ~(FirstFatal(items) > 0)
    /\ \A item \in Range(items) : IsItem(item)

\* The collections of a normalized output are lists, and no range of lines runs backwards.
LEMMA CollectListed == ASSUME NEW items, AreItems(items) PROVE AreCollections(Collect(items))
  <1> DEFINE kept == {i \in DOMAIN items : items[i].type = "finding" /\ ~items[i].graph_owned}
             owned == {i \in DOMAIN items :
                          items[i].graph_owned \/ items[i].type \in {"suppressed", "non_finding"}}
             dropped == ElementsAt(items, owned)
             noted == [i \in DOMAIN dropped |->
                          IF dropped[i].graph_owned
                          THEN Suppressed(SuppressedId(dropped[i]), "graph_owned")
                          ELSE Suppressed(dropped[i].id, "reviewer")]
  <1>1. items \in Seq(Range(items)) /\ IsList(items)
    BY DEF AreItems, IsList
  <1>2. \A type : IsList(Kept(items, type))
    BY <1>1, ElementsAreList DEF Kept
  <1>3. IsList(noted)
    <2>1. IsList(dropped)
      BY <1>1, ElementsAreList
    <2> HIDE DEF dropped
    <2> QED BY <2>1, MappedIsList
  <1>4. Collect(items) =
            [findings |-> Kept(items, "finding"),
             clarification_requests |-> Kept(items, "clarification_request"),
             local_notes |-> Kept(items, "local_note"),
             suggested_replies |-> Kept(items, "suggested_reply"), suppressed_outputs |-> noted]
    BY DEF Collect
  <1> HIDE DEF noted
  <1>5. Listed(Collect(items))
    BY <1>2, <1>3, <1>4, RecordListed
  <1>6. AreFindings(Kept(items, "finding"))
    <2>1. Kept(items, "finding") = ElementsAt(items, kept)
      BY DEF Kept
    <2>2. Range(ElementsAt(items, kept)) = At(items, kept)
      BY <1>1, ElementsOf
    <2>3. \A i \in DOMAIN items : FatalCode(items[i]) = None
      BY <1>1, NoneFatal DEF AreItems
    <2>4. ASSUME NEW i \in kept
          PROVE  /\ items[i].type = "finding"
                 /\ items[i].line_end = None \/ items[i].line <= items[i].line_end
      <3>1. i \in DOMAIN items /\ items[i] \in Range(items)
        BY DEF Range
      <3>2. items[i].valid
        BY <2>3, <3>1, ValidFinding
      <3> QED BY <3>1, <3>2 DEF AreItems, IsItem
    <2> HIDE DEF kept
    <2> QED BY <1>2, <2>1, <2>2, <2>4 DEF AreFindings, At
  <1>7. Collect(items).findings = Kept(items, "finding")
    BY <1>4
  <1> QED BY <1>5, <1>6, <1>7 DEF AreCollections

\* An output is normalized whole or not at all.
LEMMA Normalized ==
    ASSUME NEW items
    PROVE  LET result == NormalizeReviewerOutput(items)
           IN  \/ \E error : result = FailedResult(error)
               \/ /\ items # None /\ ~(FirstFatal(items) > 0)
                  /\ result = [status |-> "completed", fatal |-> None, repair |-> None,
                              collections |-> Collect(items)]
  <1>1. CASE items = None \/ FirstFatal(items) > 0
    BY <1>1, Zenon DEF NormalizeReviewerOutput
  <1>2. CASE items # None /\ ~(FirstFatal(items) > 0)
    BY <1>2, Zenon DEF NormalizeReviewerOutput
  <1> QED BY <1>1, <1>2

\* A reviewer that completed gave items, in its output or in the repair of it.
LEMMA ExecutedItems ==
    ASSUME NEW output \in Returned, ExecuteFakeReviewer(output).status = "completed"
    PROVE  /\ AreItems(UsedItems(output))
           /\ ExecuteFakeReviewer(output).collections = Collect(UsedItems(output))
  <1> DEFINE raw == output.raw_output
             repair == output.repair_output
             result == ExecuteOutput(raw)
             repaired == NormalizeRepair(repair)
             executed == ExecuteFakeReviewer(output)
             Completed(given, items) ==
                 /\ items # None /\ ~(FirstFatal(items) > 0)
                 /\ given = [status |-> "completed", fatal |-> None, repair |-> None,
                             collections |-> Collect(items)]
  <1>1. \A given, error : given = FailedResult(error) =>
            given.status = "failed" /\ given = [status |-> given.status, fatal |-> given.fatal,
                repair |-> given.repair, collections |-> given.collections]
    BY DEF FailedResult
  <1>2. \A given, items : Completed(given, items) =>
            /\ given.status = "completed" /\ given.fatal = None /\ given.collections = Collect(items)
            /\ given = [status |-> given.status, fatal |-> given.fatal,
                        repair |-> given.repair, collections |-> given.collections]
    OBVIOUS
  <1>3. \/ \E error : result = FailedResult(error)
        \/ Completed(result, raw.items)
    <2>1. CASE raw.kind = "mapping"
      <3>1. result = NormalizeReviewerOutput(raw.items)
        BY <2>1 DEF ExecuteOutput
      <3> QED BY <3>1, Normalized
    <2>2. CASE raw.kind # "mapping"
      <3>1. raw.kind \in {"missing", "not_json", "not_mapping", "failure"}
        BY <2>2, ReturnedAssumption DEF IsOutput
      <3>2. \E error : result = FailedResult(error)
        BY <3>1 DEF ExecuteOutput
      <3> QED BY <3>2
    <2> QED BY <2>1, <2>2
  <1>4. IsOutput(raw) /\ (repair # None => IsOutput(repair))
    BY ReturnedAssumption
  <1>5. \A given : IsOutput(given) /\ given.items # None /\ ~(FirstFatal(given.items) > 0)
                       => AreItems(given.items)
    BY DEF IsOutput, AreItems
  <1>6. UsedItems(output) = IF result.status = "completed" THEN raw.items ELSE repair.items
    BY DEF UsedItems
  <1>7. CASE repair = None \/ ~ShouldAttemptRepair(result)
    <2>1. executed = result
      BY <1>7 DEF ExecuteFakeReviewer
    <2> HIDE DEF executed, result, raw, repair
    <2>2. executed.status = "completed"
      BY DEF executed
    <2>3. Completed(result, raw.items)
      BY <1>1, <1>3, <2>1, <2>2
    <2>4. UsedItems(output) = raw.items /\ executed.collections = Collect(raw.items)
      BY <1>2, <1>6, <2>1, <2>2, <2>3
    <2>5. AreItems(raw.items)
      BY <1>4, <1>5, <2>3
    <2> QED BY <2>4, <2>5 DEF executed
  <1>8. CASE repair # None /\ ShouldAttemptRepair(result)
    <2>1. executed = [repaired EXCEPT !.repair =
                         IF repaired.status = "completed" THEN "succeeded" ELSE "failed"]
      BY <1>8 DEF ExecuteFakeReviewer
    <2>2. \/ \E error : repaired = FailedResult(error)
          \/ Completed(repaired, repair.items)
      <3>1. CASE repair.kind \in {"not_json", "missing", "not_mapping"}
        <4>1. \E error : repaired = FailedResult(error)
          BY <3>1 DEF NormalizeRepair
        <4> QED BY <4>1
      <3>2. CASE repair.kind \in {"failure", "mapping"}
        <4>1. \/ repaired = NormalizeReviewerOutput(repair.items)
              \/ \E error : repaired = FailedResult(error)
          BY <3>2 DEF NormalizeRepair
        <4> HIDE DEF repaired
        <4> QED BY <4>1, Normalized
      <3> QED BY <1>4, <1>8, <3>1, <3>2 DEF IsOutput
    <2>3. result.fatal # None
      BY <1>8 DEF ShouldAttemptRepair
    <2>4. executed.status = "completed"
      OBVIOUS
    <2> HIDE DEF executed, result, raw, repair, repaired, Completed
    <2>5. repaired = [status |-> repaired.status, fatal |-> repaired.fatal,
                      repair |-> repaired.repair, collections |-> repaired.collections]
      BY <1>1, <1>2, <2>2
    <2>6. executed.status = repaired.status /\ executed.collections = repaired.collections
      BY <2>1, <2>5
    <2>7. Completed(repaired, repair.items)
      BY <1>1, <2>2, <2>4, <2>6
    <2>8. result.status # "completed"
      BY <1>1, <1>2, <1>3, <2>3
    <2>9. UsedItems(output) = repair.items /\ executed.collections = Collect(repair.items)
      BY <1>2, <1>6, <2>6, <2>7, <2>8
    <2>10. repair.items # None /\ ~(FirstFatal(repair.items) > 0)
      BY <2>7 DEF Completed
    <2>11. AreItems(repair.items)
      BY <1>4, <1>5, <1>8, <2>10
    <2> QED BY <2>9, <2>11 DEF executed
  <1> QED BY <1>7, <1>8

\* Its collections are lists, and no range of lines runs backwards.
LEMMA ExecutedListed ==
    ASSUME NEW output \in Returned, ExecuteFakeReviewer(output).status = "completed"
    PROVE  AreCollections(ExecuteFakeReviewer(output).collections)
  BY ExecutedItems, CollectListed

-----------------------------------------------------------------------------
(***************************************************************************)
(* What is posted.  A comment is written only for a selection that was     *)
(* proved and released, and only if the scan, which then has seen the      *)
(* comments there are, has found none for the same findings.               *)
(***************************************************************************)
LEMMA SameElements == \A seq, positions : Post!ElementsAt(seq, positions) = ElementsAt(seq, positions)
  BY DEF Post!ElementsAt, ElementsAt, Post!FlattenSeq, FlattenSeq

\* Under ids that are unique, a finding is found by its own id.
LEMMA FoundLast ==
    ASSUME NEW S, NEW list \in Seq(S), Post!IsInjective([i \in DOMAIN list |-> list[i].id]),
           NEW n \in DOMAIN list
    PROVE  Post!FindingById(list, list[n].id) = n
  <1> DEFINE found == {i \in 1..Len(list) : list[i].id = list[n].id}
  <1>1. found = {n}
    BY DEF Post!IsInjective
  <1>2. Post!FindingById(list, list[n].id) = Post!Max(found)
    <2>1. found # {}
      BY <1>1
    <2> QED BY <2>1 DEF Post!FindingById, Post!SelectLastInSeq
  <1>3. Post!Max({n}) = n
    <2>1. n \in Int
      OBVIOUS
    <2> QED BY <2>1 DEF Post!Max
  <1> QED BY <1>1, <1>2, <1>3

\* A payload is released only if it is valid, has the approved hash, and no comment is in its way.
LEMMA ReleaseNeeds ==
    ASSUME NEW decision, NEW preflight, NEW identity, NEW freshness, NEW now, NEW payload, NEW marker,
           Post!Gates!Released(Post!Gates!FinalizeGithubPayload(
               decision, preflight, identity, freshness, now, payload, marker))
    PROVE  /\ payload.hash = decision.final_payload_hash /\ payload.valid
           /\ marker.bound /\ marker.status = "safe_to_post"
  <1>1. \A reason_code : ~Post!Gates!Released(Post!Gates!FailedClosed(reason_code))
    BY DEF Post!Gates!Released, Post!Gates!FailedClosed, Post!Gates!FinalizationStatus
  <1>2. \A reason_code :
            ~Post!Gates!Released(Post!Gates!FinalizationStatus("not_ready", reason_code))
    BY DEF Post!Gates!Released, Post!Gates!FinalizationStatus
  <1> QED BY <1>1, <1>2, Zenon DEF Post!Gates!FinalizeGithubPayload, Post!Gates!ReconcileMarkers

\* A scan finds it safe to post only if no comment of a trusted author is about the same findings.
LEMMA SafeMeansNone ==
    ASSUME NEW seen, NEW payload, Post!Reconciliation(seen, payload) = "safe_to_post",
           NEW i \in DOMAIN seen, seen[i].author = Post!ApprovedActor
    PROVE  /\ seen[i].body.marker # Post!MalformedMarker
           /\ ~(/\ seen[i].body.marker.target = payload.marker_target
                /\ seen[i].body.marker.findings = payload.marker_findings)
  BY DEF Post!Reconciliation, Post!ConflictsWith

\* What it has seen then are the comments there are.
LEMMA SafeMeansSeen ==
    ASSUME NEW case, NEW payload,
           payload.body.marker.target = payload.marker_target,
           payload.body.marker.findings = payload.marker_findings,
           payload.body = [heading |-> payload.body.heading, target |-> payload.body.target,
                           marker |-> payload.body.marker, lines |-> payload.body.lines],
           payload.body.marker = [run_id |-> payload.body.marker.run_id,
               target |-> payload.body.marker.target, payload |-> payload.body.marker.payload,
               findings |-> payload.body.marker.findings],
           Post!Reconciliation(Post!CommentsSeen(case, payload), payload) = "safe_to_post"
    PROVE  Post!CommentsSeen(case, payload) = comments
  <1> DEFINE seen == Post!CommentsSeen(case, payload)
             body == payload.body
  <1>1. ASSUME NEW other, seen[1] = Post!Comment(Post!ApprovedActor, other), 1 \in DOMAIN seen
        PROVE  /\ other.marker # Post!MalformedMarker
               /\ ~(/\ other.marker.target = payload.marker_target
                    /\ other.marker.findings = payload.marker_findings)
    <2>1. seen[1].author = Post!ApprovedActor /\ seen[1].body = other
      BY <1>1 DEF Post!Comment
    <2> HIDE DEF seen
    <2>2. Post!Reconciliation(seen, payload) = "safe_to_post"
      BY DEF seen
    <2> QED BY <1>1, <2>1, <2>2, SafeMeansNone
  <1>2. case # "marker_conflict"
    <2> SUFFICES ASSUME case = "marker_conflict" PROVE FALSE
      OBVIOUS
    <2> DEFINE other == [body EXCEPT !.marker.run_id = "run-conflict",
                                     !.marker.payload.heading = "different"]
    <2>1. seen = <<Post!Comment("reviewgraph-bot", other)>>
      BY DEF Post!CommentsSeen
    <2>2. other.marker.target = body.marker.target /\ other.marker.findings = body.marker.findings
      OBVIOUS
    <2>3. seen[1] = Post!Comment(Post!ApprovedActor, other) /\ 1 \in DOMAIN seen
      BY <2>1 DEF Post!ApprovedActor
    <2> HIDE DEF other, seen
    <2> QED BY <1>1, <2>2, <2>3
  <1>3. case # "marker_malformed"
    <2> SUFFICES ASSUME case = "marker_malformed" PROVE FALSE
      OBVIOUS
    <2> DEFINE other == [body EXCEPT !.marker = Post!MalformedMarker]
    <2>1. seen = <<Post!Comment("reviewgraph-bot", other)>>
      BY DEF Post!CommentsSeen
    <2>2. other.marker = Post!MalformedMarker
      OBVIOUS
    <2>3. seen[1] = Post!Comment(Post!ApprovedActor, other) /\ 1 \in DOMAIN seen
      BY <2>1 DEF Post!ApprovedActor
    <2> HIDE DEF other, seen
    <2> QED BY <1>1, <2>2, <2>3
  <1>4. case # "marker_duplicate_matching"
    <2> SUFFICES ASSUME case = "marker_duplicate_matching" PROVE FALSE
      OBVIOUS
    <2>1. seen = <<Post!Comment("reviewgraph-bot", body), Post!Comment("reviewgraph-bot", body)>>
      BY DEF Post!CommentsSeen
    <2>2. seen[1] = Post!Comment(Post!ApprovedActor, body) /\ 1 \in DOMAIN seen
      BY <2>1 DEF Post!ApprovedActor
    <2> HIDE DEF seen
    <2> QED BY <1>1, <2>2
  <1> QED BY <1>2, <1>3, <1>4 DEF Post!CommentsSeen

\* The comment that is written for a selection.
LEMMA FinalBody ==
    ASSUME NEW run_id, NEW target, NEW items, NEW list
    PROVE  LET payload == Post!FinalPayload(run_id, target, items, list)
               visible == Post!ApprovedVisibleBody(target, items, list)
           IN  /\ visible = [heading |-> "approved", target |-> target, marker |-> Post!NoMarker,
                             lines |-> visible.lines]
               /\ payload.body = [heading |-> "approved", target |-> target, lines |-> visible.lines,
                     marker |-> [run_id |-> run_id, target |-> target, payload |-> visible,
                                 findings |-> Post!Fingerprints(items)]]
               /\ payload.marker_target = target
               /\ payload.marker_findings = Post!Fingerprints(items)
               /\ payload.target = target /\ payload.marker_run_id = run_id
               /\ payload.marker_line = payload.body.marker
               /\ Post!CanonicalVisibleBody(payload.body) = visible
  <1> DEFINE visible == Post!ApprovedVisibleBody(target, items, list)
             payload == Post!FinalPayload(run_id, target, items, list)
             marker == Post!Marker(run_id, target, visible, Post!Fingerprints(items))
  <1>1. visible = [heading |-> "approved", target |-> target, marker |-> Post!NoMarker,
                   lines |-> visible.lines]
    BY DEF Post!ApprovedVisibleBody, Post!Body
  <1>2. marker = [run_id |-> run_id, target |-> target, payload |-> visible,
                  findings |-> Post!Fingerprints(items)]
    <2>1. [visible EXCEPT !.marker = Post!NoMarker] = visible
      <3> HIDE DEF visible
      <3> QED BY <1>1
    <2> HIDE DEF visible
    <2> QED BY <2>1 DEF Post!Marker, Post!VisibleBodyHash, Post!CanonicalVisibleBody
  <1>3. /\ payload.body = [visible EXCEPT !.marker = marker]
        /\ payload.marker_line = marker
        /\ payload.marker_target = target
        /\ payload.marker_findings = Post!Fingerprints(items)
        /\ payload.target = target /\ payload.marker_run_id = run_id
    BY DEF Post!FinalPayload
  <1> HIDE DEF visible, payload, marker
  <1>4. payload.body = [heading |-> "approved", target |-> target, lines |-> visible.lines,
                        marker |-> marker]
    BY <1>1, <1>3
  <1>5. Post!CanonicalVisibleBody(payload.body) = visible
    BY <1>1, <1>4 DEF Post!CanonicalVisibleBody
  <1> QED BY <1>1, <1>2, <1>3, <1>4, <1>5 DEF visible, payload

\* A selection that can be proved: no two findings share an id.
LEMMA ProvedIdsUnique ==
    ASSUME NEW ids, ~Post!ApprovalRaises(ids)
    PROVE  Post!IsInjective([i \in DOMAIN findings |-> findings[i].id])
  <1>1. Post!ProofFailure(ids, Post!Target, Post!Plan, findings, Post!Candidate) = None
    BY DEF Post!ApprovalRaises
  <1>2. Post!CandidateValid(Post!Candidate, Post!Target, Post!Plan, findings)
    BY <1>1, MCReviewDataAssumption, Zenon DEF Post!ProofFailure, Post!ProofReasons
  <1> QED BY <1>2 DEF Post!CandidateValid, Post!CandidateRefused

\* The findings it stands for have the fingerprints of its items.
LEMMA SelectedFits ==
    ASSUME NEW S, findings \in Seq(S), NEW ids,
           Post!IsInjective([i \in DOMAIN findings |-> findings[i].id])
    PROVE  LET items == Post!Selected(Post!Plan, ids)
               visible == Post!ApprovedVisibleBody(Post!Target, items, findings)
           IN  {visible.lines[k][1] : k \in DOMAIN visible.lines} = Post!Fingerprints(items)
  <1> DEFINE items == Post!Selected(Post!Plan, ids)
             found == Post!FindingsOf(items, findings)
             visible == Post!ApprovedVisibleBody(Post!Target, items, findings)
             chosen == {i \in DOMAIN Post!Plan : Post!Plan[i].id \in Range(ids)}
  <1>1. /\ DOMAIN Post!Plan = DOMAIN findings
        /\ \A n \in DOMAIN findings : /\ Post!Plan[n].id = findings[n].id
                                      /\ Post!Plan[n].fingerprint = findings[n].fingerprint
    BY DEF Post!Plan, Post!FindingItems, Post!PlanItem
  <1>2. \E T : Post!Plan \in Seq(T)
    <2> DEFINE T == {Post!Plan[n] : n \in DOMAIN findings}
    <2>1. Post!Plan \in Seq(T)
      <3>1. DOMAIN findings = 1..Len(findings) /\ Len(findings) \in Nat
        OBVIOUS
      <3>2. Post!Plan = [n \in 1..Len(findings) |-> Post!Plan[n]]
        BY <3>1 DEF Post!Plan, Post!FindingItems
      <3>3. \A n \in 1..Len(findings) : Post!Plan[n] \in T
        BY <3>1
      <3> HIDE DEF T
      <3> QED BY <3>1, <3>2, <3>3
    <2> QED BY <2>1
  <1>3. /\ items \in Seq(At(Post!Plan, chosen))
    <2>1. items = ElementsAt(Post!Plan, chosen)
      BY SameElements, Zenon DEF Post!Selected, Post!Range, Range
    <2> HIDE DEF items
    <2> QED BY <1>2, <2>1, ElementsOf
  <1>4. \A k \in DOMAIN items : \E n \in DOMAIN findings : items[k] = Post!Plan[n]
    <2> HIDE DEF items
    <2> QED BY <1>1, <1>3 DEF At
  <1>5. \A k \in DOMAIN items : found[k].fingerprint = items[k].fingerprint
    <2> SUFFICES ASSUME NEW k \in DOMAIN items
                 PROVE  found[k].fingerprint = items[k].fingerprint
      OBVIOUS
    <2>1. PICK n \in DOMAIN findings : items[k] = Post!Plan[n]
      BY <1>4
    <2>2. items[k].id = findings[n].id /\ items[k].fingerprint = findings[n].fingerprint
      BY <1>1, <2>1
    <2>3. Post!FindingById(findings, items[k].id) = n
      BY <2>2, FoundLast
    <2>4. found[k] = findings[Post!FindingById(findings, items[k].id)]
      BY DEF Post!FindingsOf
    <2> QED BY <2>2, <2>3, <2>4
  <1>6. DOMAIN found = DOMAIN items
    BY DEF Post!FindingsOf
  <1>7. /\ DOMAIN visible.lines = DOMAIN found
        /\ \A k \in DOMAIN found : visible.lines[k][1] = found[k].fingerprint
    BY DEF Post!ApprovedVisibleBody, Post!Body
  <1> HIDE DEF items, found, visible
  <1>8. {visible.lines[k][1] : k \in DOMAIN visible.lines} = Post!Fingerprints(items)
    BY <1>5, <1>6, <1>7 DEF Post!Fingerprints
  <1> QED BY <1>8 DEF items, visible

-----------------------------------------------------------------------------
(***************************************************************************)
(* An attempt that calls the writer.                                       *)
(***************************************************************************)
LEMMA PayloadWritten ==
    ASSUME NEW case, NEW ids, IsList(findings), ~Post!ApprovalRaises(ids),
           Post!FinalPayloadValid(Post!PayloadOf(case, ids))
    PROVE  LET payload == Post!PayloadOf(case, ids)
               body == payload.body
           IN  /\ body.target = Post!Target /\ body.heading = "approved"
               /\ body = [heading |-> body.heading, target |-> body.target,
                          marker |-> body.marker, lines |-> body.lines]
               /\ ~Post!ContainsMarkerLine(Post!CanonicalVisibleBody(body))
               /\ body.marker = Post!Marker(Post!RunId, Post!Target, Post!CanonicalVisibleBody(body),
                                            {body.lines[k][1] : k \in DOMAIN body.lines})
               /\ body.marker.target = payload.marker_target
               /\ body.marker.findings = payload.marker_findings
               /\ body.marker = [run_id |-> body.marker.run_id, target |-> body.marker.target,
                      payload |-> body.marker.payload, findings |-> body.marker.findings]
               /\ Post!WriterInputValid(Post!ApprovalOf(case, ids), payload)
                      <=> Post!ApprovalOf(case, ids).final_payload_hash = payload.final_payload_hash
  <1> DEFINE items == Post!Selected(Post!Plan, ids)
             plain == Post!FinalPayload(Post!RunId, Post!Target, items, findings)
             visible == Post!ApprovedVisibleBody(Post!Target, items, findings)
             payload == Post!PayloadOf(case, ids)
             body == payload.body
             approval == Post!ApprovalOf(case, ids)
  <1>1. /\ visible = [heading |-> "approved", target |-> Post!Target, marker |-> Post!NoMarker,
                      lines |-> visible.lines]
        /\ plain.body = [heading |-> "approved", target |-> Post!Target, lines |-> visible.lines,
              marker |-> [run_id |-> Post!RunId, target |-> Post!Target, payload |-> visible,
                          findings |-> Post!Fingerprints(items)]]
        /\ plain.marker_target = Post!Target
        /\ plain.marker_findings = Post!Fingerprints(items)
        /\ plain.target = Post!Target /\ plain.marker_run_id = Post!RunId
        /\ plain.marker_line = plain.body.marker
        /\ Post!CanonicalVisibleBody(plain.body) = visible
    BY FinalBody
  <1>2. {visible.lines[k][1] : k \in DOMAIN visible.lines} = Post!Fingerprints(items)
    BY ProvedIdsUnique, SelectedFits DEF IsList
  <1>3. payload = plain
    <2>1. CASE case = "payload_validation_failure"
      <3>1. payload = [plain EXCEPT !.marker_run_id = "other-run"]
        BY <2>1 DEF Post!PayloadOf
      <3>2. DOMAIN plain = {"target", "body", "marker_line", "marker_run_id", "marker_target",
                "marker_payload", "marker_findings", "visible_body_hash", "final_payload_hash",
                "findings_hash", "item_fingerprints"}
        BY DEF Post!FinalPayload
      <3> HIDE DEF plain
      <3>3. payload.marker_run_id = "other-run" /\ payload.marker_line = plain.marker_line
        BY <3>1, <3>2
      <3>4. plain.marker_line.run_id = "run-123"
        BY <1>1 DEF Post!RunId
      <3>5. payload.marker_line.run_id = payload.marker_run_id
        <4>1. payload.marker_line =
                 [run_id |-> payload.marker_run_id, target |-> payload.marker_target,
                  payload |-> payload.marker_payload, findings |-> payload.marker_findings]
          BY DEF Post!FinalPayloadValid, Post!MarkerValid
        <4> HIDE DEF payload
        <4> QED BY <4>1
      <3> QED BY <3>3, <3>4, <3>5
    <2>2. CASE case # "payload_validation_failure"
      BY <2>2 DEF Post!PayloadOf
    <2> QED BY <2>1, <2>2
  <1>4. ~Post!ContainsMarkerLine(Post!CanonicalVisibleBody(body))
    BY DEF Post!FinalPayloadValid, Post!MarkerValid
  <1>5. approval.target = Post!Target
    <2>1. Post!ApprovalDecision(ids).target = Post!Target
           /\ "target" \in DOMAIN Post!ApprovalDecision(ids)
      BY DEF Post!ApprovalDecision
    <2> QED BY <2>1 DEF Post!ApprovalOf
  <1> HIDE DEF items, plain, visible, payload, approval
  <1>6. Post!VisibleBodyHash(visible) = visible
    BY <1>1 DEF Post!VisibleBodyHash, Post!CanonicalVisibleBody
  <1>7. /\ body.heading = "approved" /\ body.target = Post!Target /\ body.lines = visible.lines
        /\ body.marker = [run_id |-> Post!RunId, target |-> Post!Target, payload |-> visible,
                          findings |-> Post!Fingerprints(items)]
        /\ Post!CanonicalVisibleBody(body) = visible
        /\ body = [heading |-> body.heading, target |-> body.target,
                   marker |-> body.marker, lines |-> body.lines]
    BY <1>1, <1>3
  <1>8. body.marker = Post!Marker(Post!RunId, Post!Target, Post!CanonicalVisibleBody(body),
                                  {body.lines[k][1] : k \in DOMAIN body.lines})
    BY <1>2, <1>6, <1>7 DEF Post!Marker
  <1>9. Post!WriterInputValid(approval, payload)
            <=> approval.final_payload_hash = payload.final_payload_hash
    BY <1>1, <1>3, <1>5 DEF Post!WriterInputValid
  <1> HIDE DEF body
  <1>10. /\ body.marker.target = payload.marker_target
         /\ body.marker.findings = payload.marker_findings
         /\ body.marker = [run_id |-> body.marker.run_id, target |-> body.marker.target,
                payload |-> body.marker.payload, findings |-> body.marker.findings]
    BY <1>1, <1>3, <1>7
  <1> QED BY <1>4, <1>7, <1>8, <1>9, <1>10 DEF payload, body, approval

\* What the writer has been given is as PostedAsApproved says, each comment and all together.
PostInv == IsList(comments) /\ PostedAsApproved

\* What PostedAsApproved says of one comment.
AsApproved(comment) ==
    /\ comment.author = Post!ApprovedActor
    /\ comment.body.target = Post!Target /\ comment.body.heading = "approved"
    /\ ~Post!ContainsMarkerLine(Post!CanonicalVisibleBody(comment.body))
    /\ comment.body.marker =
           Post!Marker(Post!RunId, Post!Target, Post!CanonicalVisibleBody(comment.body),
                       {comment.body.lines[k][1] : k \in DOMAIN comment.body.lines})

\* An attempt that writes nothing keeps what was promised of the comments.
LEMMA QuietKeeps ==
    ASSUME PostInv, UNCHANGED comments, writer_result' # "writer_input_invalid"
    PROVE  PostInv'
  <1>1. comments' = comments /\ (IsList(comments) => IsList(comments'))
    BY Zenon
  <1>2. Post!OneCommentPerSelection'
    BY <1>1, Zenon DEF PostInv, PostedAsApproved, Post!PostedAsApproved, Post!OneCommentPerSelection
  <1>3. \A i \in DOMAIN comments' : AsApproved(comments'[i])
    <2>1. \A i \in DOMAIN comments : AsApproved(comments[i])
      BY DEF PostInv, PostedAsApproved, Post!PostedAsApproved, AsApproved
    <2> QED BY <1>1, <2>1
  <1>4. Post!PostedAsApproved'
    BY <1>2, <1>3 DEF Post!PostedAsApproved, AsApproved
  <1> QED BY <1>1, <1>4 DEF PostInv, PostedAsApproved, IsList

\* The writer, called with a released payload, keeps it too.
LEMMA WriterKeeps ==
    ASSUME NEW case, NEW ids, IsList(findings), PostInv, ~Post!ApprovalRaises(ids),
           Post!Gates!Released(Post!Finalized(case, ids)), Post!CallWriter(case, ids)
    PROVE  PostInv'
  <1> DEFINE payload == Post!PayloadOf(case, ids)
             approval == Post!ApprovalOf(case, ids)
             body == payload.body
  <1>1. /\ payload.final_payload_hash = approval.final_payload_hash
        /\ Post!FinalPayloadValid(payload)
        /\ Post!MarkerOf(case, payload).status = "safe_to_post"
    <2> DEFINE known == [hash |-> payload.final_payload_hash, valid |-> Post!FinalPayloadValid(payload)]
               marker == Post!MarkerOf(case, payload)
    <2>1. Post!Gates!Released(Post!Gates!FinalizeGithubPayload(approval,
              Post!ApprovalPreflightPasses(approval, Post!PlanOf(case), findings),
              Post!CurrentActorProbe(case), Post!CurrentTargetProbe(case), Post!EvaluatedAt,
              known, marker))
      BY DEF Post!Finalized
    <2> HIDE DEF known, marker
    <2>2. known.hash = approval.final_payload_hash /\ known.valid /\ marker.status = "safe_to_post"
      BY <2>1, ReleaseNeeds
    <2> QED BY <2>2 DEF known, marker
  <1>2. Post!Reconciliation(Post!CommentsSeen(case, payload), payload) = "safe_to_post"
    BY <1>1 DEF Post!MarkerOf
  <1>3. /\ body.target = Post!Target /\ body.heading = "approved"
        /\ body = [heading |-> body.heading, target |-> body.target,
                   marker |-> body.marker, lines |-> body.lines]
        /\ ~Post!ContainsMarkerLine(Post!CanonicalVisibleBody(body))
        /\ body.marker = Post!Marker(Post!RunId, Post!Target, Post!CanonicalVisibleBody(body),
                                     {body.lines[k][1] : k \in DOMAIN body.lines})
        /\ body.marker.target = payload.marker_target
        /\ body.marker.findings = payload.marker_findings
        /\ body.marker = [run_id |-> body.marker.run_id, target |-> body.marker.target,
               payload |-> body.marker.payload, findings |-> body.marker.findings]
        /\ Post!WriterInputValid(approval, payload)
    BY <1>1, PayloadWritten, Zenon
  <1>4. \/ UNCHANGED comments /\ writer_result' = "failed"
        \/ /\ comments' = Append(comments, Post!Comment(Post!ApprovedActor, body))
           /\ writer_result' = "posted"
    BY <1>3 DEF Post!CallWriter, Post!EndWith, Post!WriterAccepts
  <1> HIDE DEF payload, approval, body
  <1>5. CASE UNCHANGED comments /\ writer_result' = "failed"
    BY <1>5, QuietKeeps
  <1>6. CASE /\ comments' = Append(comments, Post!Comment(Post!ApprovedActor, body))
             /\ writer_result' = "posted"
    <2> DEFINE n == Len(comments) + 1
               new == Post!Comment(Post!ApprovedActor, body)
    <2>1. PICK S : comments \in Seq(S)
      BY DEF PostInv, IsList
    <2>2. /\ Len(comments) \in Nat /\ DOMAIN comments = 1..Len(comments)
          /\ DOMAIN comments' = DOMAIN comments \cup {n}
          /\ comments'[n] = new
          /\ \A i \in DOMAIN comments : comments'[i] = comments[i] /\ i # n
          /\ comments' \in Seq(S \cup {new})
      BY <1>6, <2>1, AppendProperties
    <2>3. new.author = Post!ApprovedActor /\ new.body = body
      BY DEF Post!Comment
    <2>4. Post!CommentsSeen(case, payload) = comments
      BY <1>2, <1>3, SafeMeansSeen DEF body
    <2>5. \A i \in DOMAIN comments :
              ~(/\ comments[i].body.marker.target = body.marker.target
                /\ comments[i].body.marker.findings = body.marker.findings)
      <3> SUFFICES ASSUME NEW i \in DOMAIN comments
                   PROVE  ~(/\ comments[i].body.marker.target = body.marker.target
                            /\ comments[i].body.marker.findings = body.marker.findings)
        OBVIOUS
      <3>1. comments[i].author = Post!ApprovedActor
        BY DEF PostInv, PostedAsApproved, Post!PostedAsApproved
      <3> QED BY <1>2, <1>3, <2>4, <3>1, SafeMeansNone
    <2>6. AsApproved(new)
      BY <1>3, <2>3 DEF AsApproved
    <2>7. \A i \in DOMAIN comments : AsApproved(comments[i])
      BY DEF PostInv, PostedAsApproved, Post!PostedAsApproved, AsApproved
    <2>8. Post!OneCommentPerSelection
      BY DEF PostInv, PostedAsApproved, Post!PostedAsApproved
    <2> HIDE DEF n, new
    <2>9. \A i \in DOMAIN comments' : AsApproved(comments'[i])
      BY <2>2, <2>6, <2>7
    <2>10. Post!OneCommentPerSelection'
      <3> SUFFICES ASSUME NEW i \in DOMAIN comments', NEW j \in DOMAIN comments',
                          comments'[i].body.marker.target = comments'[j].body.marker.target,
                          comments'[i].body.marker.findings = comments'[j].body.marker.findings
                   PROVE  i = j
        BY DEF Post!OneCommentPerSelection
      <3>1. CASE i = n /\ j = n
        BY <3>1
      <3>2. CASE i = n /\ j # n
        BY <2>2, <2>3, <2>5, <3>2
      <3>3. CASE i # n /\ j = n
        BY <2>2, <2>3, <2>5, <3>3
      <3>4. CASE i # n /\ j # n
        BY <2>2, <2>8, <3>4 DEF Post!OneCommentPerSelection
      <3> QED BY <3>1, <3>2, <3>3, <3>4
    <2>11. IsList(comments')
      BY <2>2 DEF IsList
    <2>12. Post!PostedAsApproved'
      BY <1>6, <2>9, <2>10 DEF Post!PostedAsApproved, AsApproved
    <2> QED BY <2>11, <2>12 DEF PostInv, PostedAsApproved, IsList
  <1> QED BY <1>4, <1>5, <1>6

-----------------------------------------------------------------------------
\* The findings are lists, in the review and after it.
ListInv == Listed(classified) /\ IsList(findings)

PostingInv == ListInv /\ PostInv

\* A list with an element more is a list.
LEMMA AppendIsList == ASSUME NEW s, NEW e, IsList(s) PROVE IsList(Append(s, e))
  <1>1. PICK S : s \in Seq(S)
    BY DEF IsList
  <1>2. Append(s, e) \in Seq(S \cup {e})
    <2>1. s \in Seq(S \cup {e})
      BY <1>1
    <2> QED BY <2>1
  <1> QED BY <1>2 DEF IsList

\* The invariant of posting holds initially.
LEMMA PostingStarts == MCInit => PostingInv
  <1> SUFFICES ASSUME MCInit PROVE PostingInv
    OBVIOUS
  <1>1. /\ classified = NoCollections /\ findings = <<>> /\ comments = <<>> /\ writer_result = None
    BY DEF MCInit, Init
  <1>2. Listed(NoCollections)
    BY EmptyIsList, RecordListed DEF NoCollections
  <1>3. ListInv
    BY <1>1, <1>2, EmptyIsList DEF ListInv
  <1>4. PostInv
    BY <1>1, EmptyIsList, MCReviewDataAssumption
       DEF PostInv, PostedAsApproved, Post!PostedAsApproved, Post!OneCommentPerSelection
  <1> QED BY <1>3, <1>4 DEF PostingInv

\* The quality rules make lists of lists,
LEMMA ClassifiedListed ==
    ASSUME NEW context, NEW collections, Listed(collections)
    PROVE  Listed(ClassifyReviewQuality(context, collections))
  <1> DEFINE passing == Passing(context, collections.findings)
             classes == [i \in DOMAIN passing |-> ClassifiedFinding(passing[i])]
  <1>1. /\ IsList(collections.findings) /\ IsList(collections.clarification_requests)
        /\ IsList(collections.local_notes) /\ IsList(collections.suggested_replies)
        /\ IsList(collections.suppressed_outputs)
    BY DEF Listed, CollectionNames, NoCollections
  <1>2. ASSUME NEW list, IsList(list)
        PROVE  IsList(Passing(context, list)) /\ IsList(SuppressedBy(context, list))
    <2> DEFINE dropped == ElementsAt(list,
                   {i \in DOMAIN list : Suppression(context, list[i]) # None})
               reported == [i \in DOMAIN dropped |->
                               Suppressed(dropped[i].id, Suppression(context, dropped[i]))]
    <2>1. IsList(dropped) /\ IsList(Passing(context, list))
      BY <1>2, ElementsAreList DEF Passing
    <2>2. SuppressedBy(context, list) = reported
      BY DEF SuppressedBy
    <2>3. reported = [i \in DOMAIN dropped |-> reported[i]]
      OBVIOUS
    <2> HIDE DEF dropped, reported
    <2>4. IsList(reported)
      BY <2>1, <2>3, MappedIsList
    <2> QED BY <2>1, <2>2, <2>4
  <1>3. IsList(classes)
    <2>1. classes = [i \in DOMAIN passing |-> classes[i]]
      OBVIOUS
    <2>2. IsList(passing)
      BY <1>1, <1>2
    <2> HIDE DEF classes, passing
    <2> QED BY <2>1, <2>2, MappedIsList
  <1> DEFINE suppressed == SuppressedBy(context, collections.findings)
                               \o SuppressedBy(context, collections.clarification_requests)
                               \o collections.suppressed_outputs
             requests == Passing(context, collections.clarification_requests)
  <1>4. IsList(suppressed) /\ IsList(requests)
    BY <1>1, <1>2, JoinedIsList
  <1>5. ClassifyReviewQuality(context, collections) =
            [findings |-> classes, clarification_requests |-> requests,
             local_notes |-> collections.local_notes,
             suggested_replies |-> collections.suggested_replies,
             suppressed_outputs |-> suppressed]
    BY DEF ClassifyReviewQuality
  <1> HIDE DEF classes, suppressed, requests
  <1> QED BY <1>1, <1>3, <1>4, <1>5, RecordListed

\* and so does joining the outputs of two reviewers.
LEMMA ExtendedListed ==
    ASSUME NEW before, NEW found, Listed(before), Listed(found)
    PROVE  Listed(Extended(before, found))
  <1> DEFINE after == [name \in CollectionNames |-> before[name] \o found[name]]
  <1>1. Extended(before, found) = after
    BY DEF Extended
  <1>2. \A name \in CollectionNames : after[name] = before[name] \o found[name]
    OBVIOUS
  <1>3. after = [name \in CollectionNames |-> after[name]]
    OBVIOUS
  <1> HIDE DEF after
  <1>4. \A name \in CollectionNames : IsList(after[name])
    BY <1>2, JoinedIsList DEF Listed
  <1> QED BY <1>1, <1>3, <1>4 DEF Listed

\* What a reviewer that returns makes of the outputs.
LEMMA ReturnedCases ==
    ASSUME NEW output \in Returned, ReviewerReturns(output)
    PROVE  LET result == ExecuteFakeReviewer(output)
               found == ClassifyReviewQuality(Context, result.collections)
           IN  /\ Result = result
               /\ \/ result.status = "completed" /\ classified' = Extended(classified, found)
                  \/ /\ result.status # "completed"
                     /\ \/ classified' = [classified EXCEPT
                               !.local_notes = Append(@, FailureNote(Reviewers[reviewed']))]
                        \/ phase' = "raised" /\ classified' = classified
  <1>1. Result = ExecuteFakeReviewer(output)
    BY DEF Result, ReviewerReturns
  <1> QED BY <1>1 DEF ReviewerReturns

\* A reviewer that returns leaves the outputs lists.
LEMMA ReturnedListed ==
    ASSUME Listed(classified), NEW output \in Returned, ReviewerReturns(output)
    PROVE  Listed(classified')
  <1> DEFINE result == ExecuteFakeReviewer(output)
             found == ClassifyReviewQuality(Context, result.collections)
  <1>1. CASE result.status = "completed" /\ classified' = Extended(classified, found)
    <2>1. Listed(found)
      BY <1>1, ExecutedListed, ClassifiedListed DEF AreCollections
    <2> HIDE DEF found
    <2> QED BY <1>1, <2>1, ExtendedListed
  <1>2. CASE classified' = [classified EXCEPT
                 !.local_notes = Append(@, FailureNote(Reviewers[reviewed']))]
    <2> DEFINE notes == Append(classified.local_notes, FailureNote(Reviewers[reviewed']))
    <2>1. IsList(notes)
      BY AppendIsList, FindingsName DEF Listed
    <2>2. classified' = [classified EXCEPT !.local_notes = notes]
      BY <1>2
    <2> HIDE DEF notes
    <2> QED BY <2>1, <2>2, FindingsName DEF Listed
  <1>3. CASE classified' = classified
    BY <1>3 DEF Listed
  <1> QED BY <1>1, <1>2, <1>3, ReturnedCases

\* The notes on what the budget left out are a list.
LEMMA NotesListed == ASSUME IsList(pr.files), IsList(pr.comments) PROVE IsList(NoteIds(Budgeted))
  <1> DEFINE memory == BuildConversationMemory(pr.comments)
             files == Budgeted.files.noted
             entries == Budgeted.memory.noted
             paths == [k \in DOMAIN pr.files |-> pr.files[k].path]
             ids == [k \in DOMAIN memory |-> memory[k].id]
  <1>1. IsList(memory)
    <2> DEFINE sorted == OfType(pr.comments, "issue_comment") \o OfType(pr.comments, "review")
                             \o OfType(pr.comments, "review_thread")
    <2>1. \A type : IsList(OfType(pr.comments, type))
      BY ElementsAreList DEF OfType
    <2>2. IsList(sorted)
      BY <2>1, JoinedIsList
    <2>3. memory = [i \in DOMAIN sorted |-> MemoryEntry(sorted[i])]
      BY DEF BuildConversationMemory
    <2> HIDE DEF sorted, memory
    <2> QED BY <2>2, <2>3, MappedIsList
  <1> HIDE DEF memory
  <1>2. IsList(paths) /\ IsList(ids)
    BY <1>1, MappedIsList
  <1>3. \E positions : files = ElementsAt(paths, positions)
    <2>1. Budgeted.files = BudgetFiles(pr.files, pr.limits)
      BY DEF Budgeted, ApplyInputContextBudget
    <2>2. \E positions : BudgetFiles(pr.files, pr.limits).noted = ElementsAt(paths, positions)
      BY DEF BudgetFiles
    <2> HIDE DEF paths
    <2> QED BY <2>1, <2>2
  <1>4. \E positions : entries = ElementsAt(ids, positions)
    BY DEF Budgeted, ApplyInputContextBudget, BudgetMemory, memory
  <1>5. NoteIds(Budgeted) = [i \in DOMAIN files |-> <<"note-budget-patch-", files[i]>>]
                                \o [i \in DOMAIN entries |-> <<"note-budget-memory-">> \o entries[i]]
    BY DEF NoteIds
  <1> HIDE DEF files, entries, paths, ids
  <1>6. IsList(files) /\ IsList(entries)
    BY <1>2, <1>3, <1>4, ElementsAreList
  <1> DEFINE p == [i \in DOMAIN files |-> <<"note-budget-patch-", files[i]>>]
             m == [i \in DOMAIN entries |-> <<"note-budget-memory-">> \o entries[i]]
  <1>7. p = [i \in DOMAIN files |-> p[i]] /\ m = [i \in DOMAIN entries |-> m[i]]
    OBVIOUS
  <1>8. NoteIds(Budgeted) = p \o m
    BY <1>5
  <1> HIDE DEF p, m
  <1>9. IsList(p) /\ IsList(m)
    BY <1>6, <1>7, MappedIsList
  <1> QED BY <1>8, <1>9, JoinedIsList

\* The outputs that are checked together are lists, and their findings those that were anchored.
LEMMA AssembledListed ==
    ASSUME Listed(classified), IsRequest(pr)
    PROVE  LET notes == [i \in DOMAIN NoteIds(Budgeted) |-> [id |-> NoteIds(Budgeted)[i]]]
               anchored == AttachDiffAnchors(Context.files, HeadSha, classified.findings)
           IN  /\ Listed(Assembled)
               /\ Assembled.findings = anchored
               /\ Assembled.local_notes = notes \o classified.local_notes
               /\ \A name \in CollectionNames \ {"findings", "local_notes"} :
                      Assembled[name] = classified[name]
  <1> DEFINE notes == [i \in DOMAIN NoteIds(Budgeted) |-> [id |-> NoteIds(Budgeted)[i]]]
             anchored == AttachDiffAnchors(Context.files, HeadSha, classified.findings)
             together == notes \o classified.local_notes
  <1>1. IsList(anchored)
    <2>1. anchored = [i \in DOMAIN classified.findings |-> anchored[i]]
      BY DEF AttachDiffAnchors
    <2>2. IsList(classified.findings)
      BY FindingsName DEF Listed
    <2> HIDE DEF anchored
    <2> QED BY <2>1, <2>2, MappedIsList
  <1>2. IsList(together)
    <2>1. notes = [i \in DOMAIN NoteIds(Budgeted) |-> notes[i]]
      OBVIOUS
    <2> HIDE DEF notes
    <2>2. IsList(notes)
      BY <2>1, NotesListed, MappedIsList DEF IsRequest
    <2>3. IsList(classified.local_notes)
      BY FindingsName DEF Listed
    <2> QED BY <2>2, <2>3, JoinedIsList
  <1>3. Assembled = [[classified EXCEPT !.local_notes = together] EXCEPT !.findings = anchored]
    <2>1. Assembled = [classified EXCEPT !.local_notes = notes \o @,
                          !.findings = AttachDiffAnchors(Context.files, HeadSha, @)]
      BY DEF Assembled
    <2> HIDE DEF notes
    <2> QED BY <2>1, FindingsName DEF Listed
  <1> HIDE DEF anchored, together
  <1>4. /\ Assembled = [name \in CollectionNames |-> Assembled[name]]
        /\ Assembled.findings = anchored /\ Assembled.local_notes = together
        /\ \A name \in CollectionNames \ {"findings", "local_notes"} :
               Assembled[name] = classified[name]
    <2>1. classified = [name \in CollectionNames |-> classified[name]]
      BY DEF Listed
    <2>2. DOMAIN classified = CollectionNames
      BY <2>1
    <2>3. Assembled = [name \in CollectionNames |->
                          IF name = "findings" THEN anchored
                          ELSE IF name = "local_notes" THEN together ELSE classified[name]]
      BY <1>3, <2>2
    <2> QED BY <2>3, FindingsName
  <1>5. \A name \in CollectionNames : IsList(Assembled[name])
    BY <1>1, <1>2, <1>4 DEF Listed
  <1>6. Listed(Assembled)
    BY <1>4, <1>5 DEF Listed
  <1> QED BY <1>4, <1>6 DEF anchored, together

\* The steps of a review keep the invariant of posting.
LEMMA ReviewListed ==
    ASSUME RequestInv, PostingInv, ReviewNext, UNCHANGED postVars
    PROVE  PostingInv'
  <1>1. Listed(classified) /\ IsList(findings) /\ UNCHANGED <<findings, comments, writer_result>>
    BY DEF PostingInv, ListInv, postVars
  <1>2. Listed(classified')
    <2>1. CASE UNCHANGED classified
      BY <1>1, <2>1 DEF Listed
    <2>2. CASE \E output \in Returned : ReviewerReturns(output)
      BY <1>1, <2>2, ReturnedListed
    <2>3. CASE Present
      <3>1. IsRequest(pr)
        BY <2>3 DEF RequestInv, InReview, Present
      <3>2. classified' = Assembled \/ UNCHANGED classified
        BY <2>3 DEF Present
      <3>3. Listed(Assembled)
        BY <1>1, <3>1, AssembledListed, Zenon
      <3> QED BY <2>1, <3>2, <3>3
    <2> QED BY <2>1, <2>2, <2>3 DEF ReviewNext, ReadLine, StartReview
  <1>3. ListInv'
    <2>1. IsList(findings')
      BY <1>1
    <2>2. Listed(classified)' /\ IsList(findings)'
      BY <1>2, <2>1 DEF Listed, IsList
    <2> QED BY <2>2 DEF ListInv
  <1>4. PostInv'
    BY <1>1, QuietKeeps DEF PostingInv, PostInv, PostedAsApproved, Post!PostedAsApproved
  <1> QED BY <1>3, <1>4 DEF PostingInv

\* So does the start of posting,
LEMMA StartListed == ASSUME PostingInv, NEW login, StartPosting(login) PROVE PostingInv'
  <1>1. /\ classified' = NoCollections /\ UNCHANGED <<comments, writer_result>>
        /\ findings' = [i \in DOMAIN classified.findings |-> findings'[i]]
    BY DEF StartPosting
  <1>2. Listed(NoCollections)
    BY EmptyIsList, RecordListed DEF NoCollections
  <1>3. IsList(findings')
    BY <1>1, FindingsName, MappedIsList DEF PostingInv, ListInv, Listed
  <1>4. ListInv'
    BY <1>1, <1>2, <1>3 DEF ListInv, IsList, Listed
  <1>5. PostInv'
    BY <1>1, QuietKeeps DEF PostingInv, PostInv, PostedAsApproved, Post!PostedAsApproved
  <1> QED BY <1>4, <1>5 DEF PostingInv

\* a later review that words a finding otherwise,
LEMMA RewordListed == ASSUME PostingInv, NEW i, NEW wording, Reword(i, wording) PROVE PostingInv'
  <1>1. /\ findings' = [findings EXCEPT ![i].body = wording]
        /\ UNCHANGED <<classified, comments>> /\ writer_result' = None
    BY DEF Reword, reviewVars
  <1>2. findings' = [k \in DOMAIN findings |-> findings'[k]]
    BY <1>1
  <1>3. IsList(findings')
    BY <1>2, MappedIsList DEF PostingInv, ListInv
  <1>4. ListInv'
    BY <1>1, <1>3 DEF PostingInv, ListInv, Listed, IsList
  <1>5. PostInv'
    BY <1>1, QuietKeeps, MCReviewDataAssumption DEF PostingInv
  <1> QED BY <1>4, <1>5 DEF PostingInv

\* an attempt to post,
LEMMA AttemptKeeps ==
    ASSUME PostingInv, NEW case, NEW ids, Post!Attempt(case, ids), UNCHANGED reviewVars
    PROVE  PostingInv'
  <1>1. PostInv /\ IsList(findings)
    BY DEF PostingInv, ListInv
  <1>2. \A result : Post!EndWith(result) /\ result # "writer_input_invalid" =>
                        PostInv' /\ UNCHANGED findings
    BY <1>1, QuietKeeps DEF Post!EndWith
  <1>3. PostInv' /\ UNCHANGED findings
    <2>1. CASE Post!FailInteraction(case)
      BY <1>2, <2>1, MCReviewDataAssumption DEF Post!FailInteraction
    <2>2. CASE Post!FailApproval(case, ids)
      BY <1>2, <2>2 DEF Post!FailApproval
    <2>3. CASE Post!FailRelease(case, ids)
      BY <1>2, <2>3, MCReviewDataAssumption DEF Post!FailRelease
    <2>4. CASE Post!FinalizeAndEmit(case, ids)
      <3> DEFINE status == Post!Finalized(case, ids)
      <3>1. ~Post!ApprovalRaises(ids)
        BY <2>4 DEF Post!FinalizeAndEmit
      <3>2. CASE Post!EndWith(Post!ResultWithoutWriter(status))
        BY <1>2, <3>2, MCReviewDataAssumption DEF Post!ResultWithoutWriter
      <3>3. CASE Post!Gates!Released(status) /\ Post!CallWriter(case, ids)
        <4>1. PostInv'
          BY <1>1, <3>1, <3>3, WriterKeeps
        <4>2. UNCHANGED findings
          BY <3>3 DEF Post!CallWriter, Post!EndWith
        <4> QED BY <4>1, <4>2
      <3> QED BY <2>4, <3>2, <3>3 DEF Post!FinalizeAndEmit
    <2> QED BY <2>1, <2>2, <2>3, <2>4 DEF Post!Attempt
  <1>4. ListInv'
    BY <1>3 DEF PostingInv, ListInv, Listed, IsList, reviewVars
  <1> QED BY <1>3, <1>4 DEF PostingInv

\* and thereby every step.
LEMMA PostingSteps == RequestInv /\ PostingInv /\ [MCNext]_vars => PostingInv'
  <1> SUFFICES ASSUME RequestInv, PostingInv, [MCNext]_vars PROVE PostingInv'
    OBVIOUS
  <1>1. CASE ReviewNext /\ UNCHANGED postVars
    BY <1>1, ReviewListed
  <1>2. CASE \E login \in Logins : StartPosting(login)
    BY <1>2, StartListed
  <1>3. CASE \E i \in DOMAIN findings, wording \in Wordings : Reword(i, wording)
    BY <1>3, RewordListed
  <1>4. CASE AttemptPost
    BY <1>4, AttemptKeeps DEF AttemptPost
  <1>5. CASE UNCHANGED vars
    <2>1. UNCHANGED <<classified, findings, comments, writer_result>>
      BY <1>5 DEF vars, reviewVars, postVars
    <2>2. ListInv'
      BY <2>1 DEF PostingInv, ListInv, Listed, IsList
    <2>3. PostInv'
      BY <2>1, QuietKeeps DEF PostingInv, PostInv, PostedAsApproved, Post!PostedAsApproved
    <2> QED BY <2>2, <2>3 DEF PostingInv
  <1> QED BY <1>1, <1>2, <1>3, <1>4, <1>5 DEF MCNext

-----------------------------------------------------------------------------
\* The last index whose element passes a test, if there is one.
LEMMA GreatestOf ==
    ASSUME NEW n \in Nat, NEW I \in SUBSET (1..n), I # {}
    PROVE  Max(I) \in I /\ Max(I) > 0
  <1> DEFINE T == {n - i : i \in I}
  <1>1. T \in SUBSET Nat /\ T # {}
    <2>1. \A i \in I : n - i \in Nat
      OBVIOUS
    <2> QED BY <2>1
  <1>2. PICK t \in T : \A m \in T : t <= m
    <2> HIDE DEF T
    <2> QED BY <1>1, LeastOf
  <1>3. PICK i \in I : t = n - i
    BY <1>2
  <1>4. ASSUME NEW j \in I PROVE j <= i
    <2>1. n - j \in T
      OBVIOUS
    <2>2. n - i <= n - j /\ i \in 1..n /\ j \in 1..n
      BY <1>2, <1>3, <2>1
    <2> QED BY <2>2
  <1>5. Max(I) = i
    <2>1. I \in SUBSET Int
      OBVIOUS
    <2> QED BY <1>4, <2>1, MaxIs
  <1> QED BY <1>3, <1>5

(***************************************************************************)
(* What the reviewers are given comes from the pull request.               *)
(***************************************************************************)
\* A file of the view has the path and the ranges of one, and the status of one of that path.
ViewOf(file, files) ==
    /\ \E i \in DOMAIN files :
           files[i].path = file.path /\ files[i].changed_ranges = file.changed_ranges
    /\ \E n \in DOMAIN files : files[n].path = file.path /\ files[n].status = file.status

\* Every file that the budget retains is one of the pull request, with its path and status.
LEMMA RetainedFiles ==
    ASSUME NEW files, NEW limits, IsList(files),
           \A i \in DOMAIN files : DOMAIN files[i] = FileFields
    PROVE  LET retained == BudgetFiles(files, limits).retained
           IN  /\ IsList(retained)
               /\ \A k \in DOMAIN retained :
                      /\ DOMAIN retained[k] = FileFields
                      /\ \E n \in DOMAIN files : /\ files[n].path = retained[k].path
                                                 /\ files[n].status = retained[k].status
  <1> DEFINE remaining == Remaining([k \in DOMAIN files |-> Bytes(files[k])], limits.max_patch_bytes)
             beyond == {k \in DOMAIN files : k > limits.max_changed_files}
             unavailable == {k \in DOMAIN files \ beyond : IsUnavailable(files[k])}
             cut == {k \in DOMAIN files \ (beyond \cup unavailable) :
                         Bytes(files[k]) > remaining[k - 1]}
             reduced == [k \in DOMAIN files |->
                            IF k \in cut
                            THEN [files[k] EXCEPT !.patch_bytes = None,
                                                  !.patch_status = "budget_truncated"]
                            ELSE files[k]]
             retained == BudgetFiles(files, limits).retained
  <1>1. retained = ElementsAt(reduced, DOMAIN files \ beyond)
    BY DEF BudgetFiles
  <1>2. \A k \in DOMAIN files : /\ reduced[k].path = files[k].path
                                /\ reduced[k].status = files[k].status
                                /\ DOMAIN reduced[k] = FileFields
    <2> HIDE DEF cut
    <2> QED BY DEF FileFields
  <1>3. DOMAIN reduced = DOMAIN files /\ reduced = [k \in DOMAIN files |-> reduced[k]]
    OBVIOUS
  <1> HIDE DEF reduced, retained, cut, beyond
  <1>4. PICK S : reduced \in Seq(S)
    BY <1>3, MappedIsList DEF IsList
  <1>5. /\ retained \in Seq(At(reduced, DOMAIN files \ beyond))
    BY <1>1, <1>4, ElementsOf
  <1>6. \A k \in DOMAIN retained : \E n \in DOMAIN files : retained[k] = reduced[n]
    BY <1>3, <1>5 DEF At
  <1>7. IsList(retained)
    BY <1>5 DEF IsList
  <1> QED BY <1>2, <1>6, <1>7 DEF retained

\* That holds of every file the reviewers see.
LEMMA ViewIsOf ==
    ASSUME NEW files, NEW limits, NEW memory, NEW provider, IsList(files),
           \A i \in DOMAIN files : DOMAIN files[i] = FileFields
    PROVE  LET view == BudgetedView(files, provider, ApplyInputContextBudget(files, memory, limits))
           IN  IsList(view) /\ \A i \in DOMAIN view : ViewOf(view[i], files)
  <1> DEFINE budgeted == ApplyInputContextBudget(files, memory, limits)
             retained == budgeted.files.retained
             kept == ElementsAt(files, {i \in DOMAIN files :
                                            BudgetedFile(budgeted, files[i].path) > 0})
             view == BudgetedView(files, provider, budgeted)
  <1>1. retained = BudgetFiles(files, limits).retained
    BY DEF ApplyInputContextBudget
  <1>2. /\ IsList(retained)
        /\ \A k \in DOMAIN retained :
               /\ DOMAIN retained[k] = FileFields
               /\ \E n \in DOMAIN files : /\ files[n].path = retained[k].path
                                          /\ files[n].status = retained[k].status
    BY <1>1, RetainedFiles
  <1> HIDE DEF budgeted
  <1>3. PICK S : files \in Seq(S)
    BY DEF IsList
  <1>4. /\ kept \in Seq(At(files, {i \in DOMAIN files : BudgetedFile(budgeted, files[i].path) > 0}))
    BY <1>3, ElementsOf
  <1>5. IsList(kept) /\ \A i \in DOMAIN kept : \E n \in DOMAIN files :
                            files[n] = kept[i] /\ BudgetedFile(budgeted, files[n].path) > 0
    <2> HIDE DEF kept
    <2> QED BY <1>4 DEF At, IsList
  <1>6. CASE provider # "fixture"
    <2>1. view = kept
      BY <1>6 DEF BudgetedView
    <2> QED BY <1>5, <2>1 DEF ViewOf, budgeted
  <1>7. CASE provider = "fixture"
    <2> DEFINE shown(file) == [retained[BudgetedFile(budgeted, file.path)] EXCEPT
                                  !.changed_ranges = file.changed_ranges]
    <2>1. view = [i \in DOMAIN kept |-> shown(kept[i])]
      BY <1>7 DEF BudgetedView
    <2>2. ASSUME NEW n \in DOMAIN files, BudgetedFile(budgeted, files[n].path) > 0
          PROVE  ViewOf(shown(files[n]), files)
      <3> DEFINE path == files[n].path
                 found == BudgetedFile(budgeted, path)
                 I == {k \in 1..Len(retained) : retained[k].path = path}
      <3>1. Len(retained) \in Nat /\ DOMAIN retained = 1..Len(retained)
        BY <1>2 DEF IsList
      <3>2. I # {} /\ found = Max(I)
        BY <2>2 DEF BudgetedFile, SelectLastInSeq
      <3>3. found \in I
        <4>1. I \in SUBSET (1..Len(retained))
          OBVIOUS
        <4> HIDE DEF I, found
        <4> QED BY <3>1, <3>2, <4>1, GreatestOf
      <3>4. found \in DOMAIN retained /\ retained[found].path = path
        BY <3>1, <3>3
      <3> HIDE DEF found, I
      <3>5. shown(files[n]) = [retained[found] EXCEPT !.changed_ranges = files[n].changed_ranges]
        BY DEF found
      <3>6. /\ shown(files[n]).path = path /\ shown(files[n]).status = retained[found].status
            /\ shown(files[n]).changed_ranges = files[n].changed_ranges
        BY <1>2, <3>4, <3>5 DEF FileFields
      <3> HIDE DEF shown
      <3> QED BY <1>2, <3>4, <3>6 DEF ViewOf
    <2>3. IsList(view) /\ DOMAIN view = DOMAIN kept
      <3>1. view = [i \in DOMAIN kept |-> view[i]]
        BY <2>1
      <3> HIDE DEF view, kept
      <3> QED BY <1>5, <3>1, MappedIsList
    <2>4. ASSUME NEW i \in DOMAIN view PROVE ViewOf(view[i], files)
      <3> HIDE DEF view, kept, shown
      <3>1. view[i] = shown(kept[i])
        BY <2>1, <2>3
      <3> QED BY <1>5, <2>2, <2>3, <3>1
    <2> QED BY <2>3, <2>4 DEF budgeted
  <1> QED BY <1>6, <1>7

\* What reviewers may act on is vouched for by a comment, and a missing text was left out by the budget.
LEMMA MemoryIsOf ==
    ASSUME NEW said, NEW limits, IsList(said), \A c \in DOMAIN said : said[c].body # None
    PROVE  LET memory == BudgetMemory(BuildConversationMemory(said), limits)
           IN  /\ IsList(memory.retained)
               /\ \A k \in DOMAIN memory.retained :
                      LET entry == memory.retained[k]
                      IN  /\ entry.actionable => \E c \in DOMAIN said : Vouches(said[c], entry.id)
                          /\ entry.body = None => entry.id \in memory.omitted
                          /\ MemoryReferenceValid(entry)
  <1> DEFINE sorted == OfType(said, "issue_comment") \o OfType(said, "review")
                           \o OfType(said, "review_thread")
             entries == BuildConversationMemory(said)
             remaining == Remaining([k \in DOMAIN entries |-> entries[k].bytes], limits.max_memory_bytes)
             cut == {k \in DOMAIN entries : entries[k].bytes > remaining[k - 1]}
             memory == BudgetMemory(entries, limits)
             types == {"issue_comment", "review", "review_thread"}
             T == {said[c] : c \in {d \in DOMAIN said : said[d].source_type \in types}}
  <1>1. sorted \in Seq(T)
    <2>1. PICK S : said \in Seq(S)
      BY DEF IsList
    <2>2. ASSUME NEW type \in types PROVE OfType(said, type) \in Seq(T)
      <3> DEFINE chosen == {i \in DOMAIN said : said[i].source_type = type}
      <3>1. OfType(said, type) \in Seq(At(said, chosen))
        BY <2>1, ElementsOf DEF OfType
      <3>2. At(said, chosen) \subseteq T
        BY DEF At
      <3> HIDE DEF chosen, T
      <3> QED BY <3>1, <3>2
    <2> HIDE DEF T
    <2> QED BY <2>2
  <1>2. /\ DOMAIN entries = DOMAIN sorted
        /\ \A k \in DOMAIN entries : entries[k] = MemoryEntry(sorted[k])
    BY DEF BuildConversationMemory
  <1>3. \A k \in DOMAIN entries : \E c \in DOMAIN said :
            said[c].source_type \in types /\ entries[k] = MemoryEntry(said[c])
    <2>1. \A k \in DOMAIN sorted : sorted[k] \in T
      <3> HIDE DEF sorted, T
      <3> QED BY <1>1
    <2> HIDE DEF sorted, entries
    <2> QED BY <1>2, <2>1
  <1>4. IsList(entries)
    <2>1. entries = [k \in DOMAIN sorted |-> entries[k]]
      BY DEF BuildConversationMemory
    <2> HIDE DEF entries, sorted
    <2> QED BY <1>1, <2>1, MappedIsList DEF IsList
  <1>5. /\ memory.retained = [k \in DOMAIN entries |->
                                 IF k \in cut THEN [entries[k] EXCEPT !.body = None] ELSE entries[k]]
        /\ memory.omitted = {entries[k].id : k \in cut}
    BY DEF BudgetMemory
  <1>6. cut \subseteq DOMAIN entries
    OBVIOUS
  <1> HIDE DEF entries, cut, memory, sorted, T
  <1>7. IsList(memory.retained)
    <2>1. memory.retained = [k \in DOMAIN entries |-> memory.retained[k]]
      BY <1>5
    <2> QED BY <1>4, <2>1, MappedIsList
  <1>8. ASSUME NEW k \in DOMAIN memory.retained
        PROVE  LET entry == memory.retained[k]
               IN  /\ entry.actionable => \E c \in DOMAIN said : Vouches(said[c], entry.id)
                   /\ entry.body = None => entry.id \in memory.omitted
                   /\ MemoryReferenceValid(entry)
    <2> DEFINE entry == memory.retained[k]
    <2>1. k \in DOMAIN entries
      BY <1>5
    <2>2. PICK c \in DOMAIN said : said[c].source_type \in types /\ entries[k] = MemoryEntry(said[c])
      BY <1>3, <2>1
    <2>3. /\ entries[k].id = MemoryId(said[c]) /\ entries[k].body # None
          /\ entries[k].actionable => Vouches(said[c], MemoryId(said[c]))
          /\ {"id", "actionable", "body"} \subseteq DOMAIN entries[k]
      <3>1. /\ entries[k].id = MemoryId(said[c]) /\ entries[k].body = said[c].body
            /\ {"id", "actionable", "body"} \subseteq DOMAIN entries[k]
        BY <2>2 DEF MemoryEntry
      <3>2. entries[k].actionable =
                ((IsTrustEligible(said[c]) /\ IsTrusted(said[c])) /\ IsActionable(said[c]))
        BY <2>2 DEF MemoryEntry
      <3>3. entries[k].actionable => Vouches(said[c], MemoryId(said[c]))
        BY <3>2, Zenon DEF IsActionable, Vouches
      <3> QED BY <3>1, <3>3
    <2>4. entry = IF k \in cut THEN [entries[k] EXCEPT !.body = None] ELSE entries[k]
      BY <1>5, <2>1
    <2>7. /\ DOMAIN entries[k] = {"id", "trusted", "source_type", "resolved_status", "author_type",
                                  "actionable", "body", "bytes"}
          /\ MemoryReferenceValid(entries[k])
      <3>1. entries[k] =
                [id |-> MemoryId(said[c]), trusted |-> IsTrustEligible(said[c]) /\ IsTrusted(said[c]),
                 source_type |-> said[c].source_type,
                 resolved_status |-> said[c].resolved_status, author_type |-> said[c].author_type,
                 actionable |-> (IsTrustEligible(said[c]) /\ IsTrusted(said[c])) /\ IsActionable(said[c]),
                 body |-> said[c].body, bytes |-> said[c].bytes]
        BY <2>2 DEF MemoryEntry
      <3>2. /\ IsTrusted(said[c]) => said[c].author_type \in {"user", "bot"}
            /\ IsActionable(said[c]) =>
                   said[c].source_type # "review" /\ said[c].resolved_status = "unresolved"
        BY DEF IsTrusted, IsActionable
      <3> DEFINE trusted == IsTrustEligible(said[c]) /\ IsTrusted(said[c])
                 actionable == IsActionable(said[c])
      <3>3. /\ entries[k].trusted = trusted /\ entries[k].actionable = (trusted /\ actionable)
            /\ entries[k].source_type = said[c].source_type
            /\ entries[k].resolved_status = said[c].resolved_status
            /\ entries[k].author_type = said[c].author_type
        BY <3>1
      <3>4. entries[k].actionable =>
                /\ entries[k].trusted /\ entries[k].resolved_status = "unresolved"
                /\ entries[k].source_type \in {"issue_comment", "review_thread"}
                /\ entries[k].author_type \in {"user", "bot"}
        <4> SUFFICES ASSUME entries[k].actionable
                     PROVE  /\ entries[k].trusted /\ entries[k].resolved_status = "unresolved"
                            /\ entries[k].source_type \in {"issue_comment", "review_thread"}
                            /\ entries[k].author_type \in {"user", "bot"}
          OBVIOUS
        <4>1. trusted /\ actionable
          BY <3>3, Zenon
        <4>2. entries[k].trusted
          BY <3>3, <4>1, Zenon
        <4> QED BY <2>2, <3>2, <3>3, <4>1, <4>2
      <3>5. DOMAIN entries[k] = {"id", "trusted", "source_type", "resolved_status", "author_type",
                                 "actionable", "body", "bytes"}
        BY <3>1
      <3> QED BY <3>4, <3>5 DEF MemoryReferenceValid
    <2> HIDE DEF entry
    <2>8. MemoryReferenceValid(entry)
      BY <2>4, <2>7 DEF MemoryReferenceValid
    <2>5. entry.id = entries[k].id /\ entry.actionable = entries[k].actionable
      BY <2>3, <2>4
    <2>6. entry.body = None => entry.id \in memory.omitted
      BY <1>5, <2>3, <2>4, <2>5
    <2> QED BY <2>3, <2>5, <2>6, <2>8 DEF entry
  <1> QED BY <1>7, <1>8 DEF memory, entries

(***************************************************************************)
(* A finding that no rule suppresses.                                      *)
(***************************************************************************)
LEMMA NotSuppressed ==
    ASSUME NEW context, NEW item, FindingSuppression(context, item) = None
    PROVE  /\ ~DependsOnOmittedContext(context, item)
           /\ LocationOverlapsChangedLine(context, item)
           /\ SafeProvenance(context.memory, item)
  BY ReviewOutputAssumption, Zenon DEF FindingSuppression, SuppressionReasons

\* An item that is not suppressed rests on comments that vouch for it and whose text was kept.
LEMMA Rests ==
    ASSUME NEW said, NEW context, NEW item, IsList(context.memory),
           \A k \in DOMAIN context.memory :
               /\ context.memory[k].actionable =>
                      \E c \in DOMAIN said : Vouches(said[c], context.memory[k].id)
               /\ context.memory[k].body = None =>
                      context.memory[k].id \in context.omitted_memory_ids,
           FindingSuppression(context, item) = None
    PROVE  /\ \A i \in DOMAIN item.memory_ids :
                  /\ \E c \in DOMAIN said : Vouches(said[c], item.memory_ids[i])
                  /\ \A entry \in Range(context.memory) :
                         entry.id = item.memory_ids[i] => entry.body # None
           /\ ~CopiesPassiveMemory(context.memory, item)
  <1>1. /\ ~UsesOmittedMemory(context, item) /\ SafeProvenance(context.memory, item)
    BY NotSuppressed DEF DependsOnOmittedContext
  <1>2. ASSUME NEW i \in DOMAIN item.memory_ids
        PROVE  \E c \in DOMAIN said : Vouches(said[c], item.memory_ids[i])
    <2> DEFINE id == item.memory_ids[i]
               found == MemoryById(context.memory, id)
               I == {k \in 1..Len(context.memory) : context.memory[k].id = id}
    <2>1. found > 0 /\ context.memory[found].actionable
      BY <1>1 DEF SafeProvenance
    <2>2. Len(context.memory) \in Nat /\ DOMAIN context.memory = 1..Len(context.memory)
      BY DEF IsList
    <2>3. I # {} /\ found = Max(I)
      <3>1. found = IF I # {} THEN Max(I) ELSE 0
        BY DEF MemoryById, SelectLastInSeq
      <3>2. ~(0 > 0)
        OBVIOUS
      <3> HIDE DEF I, found
      <3> QED BY <2>1, <3>1, <3>2, Zenon
    <2>4. found \in I
      <3>1. I \in SUBSET (1..Len(context.memory))
        OBVIOUS
      <3> HIDE DEF I, found
      <3> QED BY <2>2, <2>3, <3>1, GreatestOf
    <2>5. found \in DOMAIN context.memory /\ context.memory[found].id = id
      BY <2>2, <2>4
    <2> QED BY <2>1, <2>5
  <1>3. ASSUME NEW i \in DOMAIN item.memory_ids, NEW entry \in Range(context.memory),
               entry.id = item.memory_ids[i]
        PROVE  entry.body # None
    BY <1>1, <1>3 DEF UsesOmittedMemory, Range
  <1> QED BY <1>1, <1>2, <1>3 DEF SafeProvenance

\* ... is on a line that was changed, and anchored there if it can be.
LEMMA OnChangedCode ==
    ASSUME NEW files, NEW context, NEW item, NEW finding, NEW head_sha, IsList(context.files),
           \A i \in DOMAIN context.files : ViewOf(context.files[i], files),
           \A i \in DOMAIN files : IsList(files[i].changed_ranges),
           FindingSuppression(context, item) = None,
           finding.path = item.path, finding.line = item.line,
           finding.line_end = None \/ finding.line <= finding.line_end,
           finding.diff_anchor = DiffAnchor(context.files, head_sha, finding)
    PROVE  /\ finding.path \notin context.omitted_file_paths
           /\ \E i \in DOMAIN files :
                  /\ files[i].path = finding.path
                  /\ ContainsLine(files[i], finding.line)
                  /\ finding.diff_anchor = NoAnchor =>
                         \/ \E n \in DOMAIN files : /\ files[n].path = finding.path
                                                    /\ files[n].status \notin InlineableFileStatuses
                         \/ ~\E k \in DOMAIN files[i].changed_ranges :
                                {finding.line, LineEnd(finding)} \subseteq Lines(files[i].changed_ranges[k])
           /\ finding.diff_anchor # NoAnchor => ValidatesLocation(finding.diff_anchor, finding, head_sha)
  <1> DEFINE there == {i \in DOMAIN context.files : /\ context.files[i].path = finding.path
                                                   /\ ContainsLine(context.files[i], finding.line)}
             found == FilesFor(context.files, finding)
             file == Head(found)
             end == LineEnd(finding)
  <1>1. found = ElementsAt(context.files, there) /\ found = FilesFor(context.files, item)
    BY DEF FilesFor
  <1>2. /\ finding.path \notin context.omitted_file_paths
        /\ found # <<>> /\ file.patch_status = "available"
    BY <1>1, NotSuppressed DEF DependsOnOmittedContext, LocationOverlapsChangedLine
  <1>3. file.path = finding.path /\ ContainsLine(file, finding.line) /\ ViewOf(file, files)
    <2>1. PICK S : context.files \in Seq(S)
      BY DEF IsList
    <2>2. found \in Seq(At(context.files, there))
      BY <1>1, <2>1, ElementsOf
    <2> HIDE DEF found, there
    <2>3. file \in At(context.files, there)
      BY <1>2, <2>2
    <2>4. PICK i \in DOMAIN context.files : i \in there /\ file = context.files[i]
      BY <2>3 DEF At
    <2> QED BY <2>4 DEF there
  <1>4. PICK i \in DOMAIN files :
            files[i].path = file.path /\ files[i].changed_ranges = file.changed_ranges
    BY <1>3 DEF ViewOf
  <1>5. PICK n \in DOMAIN files : files[n].path = file.path /\ files[n].status = file.status
    BY <1>3 DEF ViewOf
  <1> DEFINE ranges == file.changed_ranges
             around == {k \in DOMAIN ranges : ranges[k].start <= finding.line /\ end <= ranges[k].end}
             hunks == RangesFor(file, finding)
             anchor == [path |-> file.path, line |-> finding.line, hunk |-> Head(hunks),
                        target_commit_sha |-> head_sha]
  <1>6. hunks = ElementsAt(ranges, around)
    BY DEF RangesFor
  <1>7. finding.diff_anchor = IF file.status \notin InlineableFileStatuses \/ hunks = <<>>
                              THEN NoAnchor ELSE anchor
    BY <1>2 DEF DiffAnchor
  <1>8. finding.line \in Int
    BY <1>3 DEF ContainsLine, LinesOf, Lines
  <1>9. ContainsLine(files[i], finding.line)
    BY <1>3, <1>4 DEF ContainsLine
  <1> HIDE DEF found, file, there, hunks
  <1>10. hunks \in Seq(At(ranges, around)) /\ Range(hunks) = At(ranges, around)
    <2>1. IsList(ranges)
      BY <1>4
    <2> HIDE DEF ranges, around
    <2>2. PICK S : ranges \in Seq(S)
      BY <2>1 DEF IsList
    <2> QED BY <1>6, <2>2, ElementsOf
  <1>11. hunks # <<>> => Head(hunks).start <= finding.line /\ end <= Head(hunks).end
    <2> SUFFICES ASSUME hunks # <<>>
                 PROVE  Head(hunks).start <= finding.line /\ end <= Head(hunks).end
      OBVIOUS
    <2>1. Head(hunks) \in At(ranges, around)
      <3> HIDE DEF around, ranges
      <3> QED BY <1>10
    <2> QED BY <2>1 DEF At
  <1>12. hunks = <<>> => ~\E k \in DOMAIN ranges : {finding.line, end} \subseteq Lines(ranges[k])
    <2> SUFFICES ASSUME hunks = <<>>, NEW k \in DOMAIN ranges,
                        {finding.line, end} \subseteq Lines(ranges[k])
                 PROVE  FALSE
      OBVIOUS
    <2>1. k \in around
      BY DEF Lines
    <2>2. ranges[k] \in At(ranges, around)
      BY <2>1 DEF At
    <2>3. Range(hunks) = {}
      BY DEF Range
    <2> QED BY <1>10, <2>2, <2>3
  <1>13. anchor # NoAnchor
    BY DEF NoAnchor
  <1>14. finding.diff_anchor # NoAnchor => ValidatesLocation(finding.diff_anchor, finding, head_sha)
    <2> SUFFICES ASSUME finding.diff_anchor # NoAnchor
                 PROVE  ValidatesLocation(finding.diff_anchor, finding, head_sha)
      OBVIOUS
    <2>1. finding.diff_anchor = anchor /\ hunks # <<>>
      BY <1>7
    <2>2. finding.line <= end
      BY <1>8 DEF LineEnd
    <2> QED BY <1>3, <1>11, <2>1, <2>2 DEF ValidatesLocation
  <1>15. finding.diff_anchor = NoAnchor =>
             file.status \notin InlineableFileStatuses \/ hunks = <<>>
    BY <1>7, <1>13
  <1> QED BY <1>2, <1>3, <1>4, <1>5, <1>9, <1>12, <1>14, <1>15

-----------------------------------------------------------------------------
(***************************************************************************)
(* The ids of all outputs, counted.                                        *)
(***************************************************************************)
\* A list has as many elements as positions.
LEMMA ListLength ==
    ASSUME NEW s, IsList(s)
    PROVE  /\ Len(s) \in Nat /\ DOMAIN s = 1..Len(s)
           /\ IsFiniteSet(DOMAIN s) /\ Cardinality(DOMAIN s) = Len(s)
  <1>1. Len(s) \in Nat /\ DOMAIN s = 1..Len(s)
    BY DEF IsList
  <1>2. IsFiniteSet(1..Len(s)) /\ Cardinality(1..Len(s)) = Len(s)
    <2> DEFINE n == Len(s)
    <2>1. n \in Int /\ n \in Nat /\ 1 \in Int
      BY <1>1
    <2> HIDE DEF n
    <2>2. IsFiniteSet(1..n) /\ Cardinality(1..n) = IF 1 > n THEN 0 ELSE n - 1 + 1
      BY <2>1, FS_Interval, Zenon
    <2>3. (IF 1 > n THEN 0 ELSE n - 1 + 1) = n
      BY <2>1
    <2> QED BY <2>2, <2>3 DEF n
  <1> QED BY <1>1, <1>2

\* A list that is made of another, element by element, has its length.
LEMMA MappedLength ==
    ASSUME NEW f, NEW s, IsList(s), f = [i \in DOMAIN s |-> f[i]]
    PROVE  IsList(f) /\ DOMAIN f = DOMAIN s /\ Len(f) = Len(s)
  <1>1. IsList(f)
    BY MappedIsList
  <1>2. DOMAIN f = DOMAIN s
    OBVIOUS
  <1>3. Cardinality(DOMAIN f) = Len(f) /\ Cardinality(DOMAIN s) = Len(s)
    BY <1>1, ListLength
  <1> QED BY <1>1, <1>2, <1>3

\* Joining adds lengths, and elements.
LEMMA JoinedLength ==
    ASSUME NEW s, NEW t, IsList(s), IsList(t)
    PROVE  /\ IsList(s \o t) /\ Len(s \o t) = Len(s) + Len(t)
           /\ Range(s \o t) = Range(s) \cup Range(t)
  <1>1. PICK S, T : s \in Seq(S) /\ t \in Seq(T)
    BY DEF IsList
  <1>2. s \in Seq(S \cup T) /\ t \in Seq(S \cup T)
    BY <1>1
  <1>3. Len(s \o t) = Len(s) + Len(t)
    BY <1>2, ConcatProperties
  <1>4. Range(s \o t) = Range(s) \cup Range(t)
    BY <1>2, RangeConcatenation
  <1> QED BY <1>3, <1>4, JoinedIsList

\* What is taken from a list is its elements at the positions, and as many as these.
LEMMA TakenLength ==
    ASSUME NEW s, NEW positions, IsList(s), positions \subseteq DOMAIN s
    PROVE  /\ IsList(ElementsAt(s, positions))
           /\ Range(ElementsAt(s, positions)) = {s[i] : i \in positions}
           /\ Len(ElementsAt(s, positions)) = Cardinality(positions)
           /\ IsFiniteSet(positions) /\ Cardinality(positions) \in Nat
  <1>1. PICK S : s \in Seq(S)
    BY DEF IsList
  <1>2. /\ Range(ElementsAt(s, positions)) = At(s, positions)
        /\ Len(ElementsAt(s, positions)) = Cardinality(DOMAIN s \cap positions)
    BY <1>1, ElementsOf
  <1>3. DOMAIN s \cap positions = positions
    OBVIOUS
  <1>4. At(s, positions) = {s[i] : i \in positions}
    BY DEF At
  <1>5. IsFiniteSet(positions) /\ Cardinality(positions) \in Nat
    BY ListLength, FS_Subset, FS_CardinalityType
  <1> QED BY <1>2, <1>3, <1>4, <1>5, ElementsAreList

\* The elements that pass a test and those that do not are all of them.
LEMMA SplitLength ==
    ASSUME NEW s, NEW positions, IsList(s), positions \subseteq DOMAIN s
    PROVE  Len(ElementsAt(s, positions)) + Len(ElementsAt(s, DOMAIN s \ positions)) = Len(s)
  <1>1. IsFiniteSet(DOMAIN s) /\ Cardinality(DOMAIN s) = Len(s)
    BY ListLength
  <1>2. /\ Len(ElementsAt(s, positions)) = Cardinality(positions)
        /\ Cardinality(positions) \in Nat
    BY TakenLength
  <1>3. /\ Len(ElementsAt(s, DOMAIN s \ positions)) = Cardinality(DOMAIN s \ positions)
        /\ Cardinality(DOMAIN s \ positions) \in Nat
    BY TakenLength
  <1>4. DOMAIN s \cap positions = positions
    OBVIOUS
  <1>5. Cardinality(DOMAIN s \ positions) = Cardinality(DOMAIN s) - Cardinality(positions)
    <2>1. Cardinality(DOMAIN s \ positions) = Cardinality(DOMAIN s) - Cardinality(DOMAIN s \cap positions)
      BY <1>1, FS_Difference, Zenon
    <2> QED BY <1>4, <2>1
  <1> QED BY <1>1, <1>2, <1>3, <1>5

\* The ids of outputs are counted and found by kind.
LEMMA AllIdsOf ==
    ASSUME NEW outputs, Listed(outputs)
    PROVE  /\ IsList(AllIds(outputs))
           /\ Len(AllIds(outputs)) =
                  Len(outputs.findings) + Len(outputs.local_notes)
                  + Len(outputs.clarification_requests) + Len(outputs.suggested_replies)
                  + Len(outputs.suppressed_outputs)
           /\ Range(AllIds(outputs)) =
                  Range(Ids(outputs.findings)) \cup Range(Ids(outputs.local_notes))
                  \cup Range(Ids(outputs.clarification_requests))
                  \cup Range(Ids(outputs.suggested_replies))
                  \cup Range(Ids(outputs.suppressed_outputs))
           /\ \A name \in CollectionNames : Len(outputs[name]) \in Nat
  <1>1. ASSUME NEW list, IsList(list) PROVE IsList(Ids(list)) /\ Len(Ids(list)) = Len(list)
    <2> DEFINE ids == [i \in DOMAIN list |-> list[i].id]
    <2>1. Ids(list) = ids /\ ids = [i \in DOMAIN list |-> ids[i]]
      BY DEF Ids
    <2> HIDE DEF ids
    <2> QED BY <1>1, <2>1, MappedLength
  <1> DEFINE f == Ids(outputs.findings)
             n == Ids(outputs.local_notes)
             q == Ids(outputs.clarification_requests)
             r == Ids(outputs.suggested_replies)
             s == Ids(outputs.suppressed_outputs)
  <1>2. /\ IsList(outputs.findings) /\ IsList(outputs.clarification_requests)
        /\ IsList(outputs.local_notes) /\ IsList(outputs.suggested_replies)
        /\ IsList(outputs.suppressed_outputs)
    BY DEF Listed, CollectionNames, NoCollections
  <1>3. /\ IsList(f) /\ Len(f) = Len(outputs.findings)
        /\ IsList(n) /\ Len(n) = Len(outputs.local_notes)
        /\ IsList(q) /\ Len(q) = Len(outputs.clarification_requests)
        /\ IsList(r) /\ Len(r) = Len(outputs.suggested_replies)
        /\ IsList(s) /\ Len(s) = Len(outputs.suppressed_outputs)
    BY <1>1, <1>2
  <1>4. AllIds(outputs) = f \o n \o q \o r \o s
    BY DEF AllIds
  <1> HIDE DEF f, n, q, r, s
  <1>5. IsList(f \o n) /\ Len(f \o n) = Len(f) + Len(n) /\ Range(f \o n) = Range(f) \cup Range(n)
    BY <1>3, JoinedLength
  <1>6. /\ IsList(f \o n \o q) /\ Len(f \o n \o q) = Len(f \o n) + Len(q)
        /\ Range(f \o n \o q) = Range(f \o n) \cup Range(q)
    BY <1>3, <1>5, JoinedLength
  <1>7. /\ IsList(f \o n \o q \o r) /\ Len(f \o n \o q \o r) = Len(f \o n \o q) + Len(r)
        /\ Range(f \o n \o q \o r) = Range(f \o n \o q) \cup Range(r)
    BY <1>3, <1>6, JoinedLength
  <1>8. /\ IsList(f \o n \o q \o r \o s)
        /\ Len(f \o n \o q \o r \o s) = Len(f \o n \o q \o r) + Len(s)
        /\ Range(f \o n \o q \o r \o s) = Range(f \o n \o q \o r) \cup Range(s)
    BY <1>3, <1>7, JoinedLength
  <1>9. \A name \in CollectionNames : Len(outputs[name]) \in Nat
    BY ListLength DEF Listed
  <1>10. /\ Len(AllIds(outputs)) = Len(f) + Len(n) + Len(q) + Len(r) + Len(s)
         /\ Range(AllIds(outputs)) =
                Range(f) \cup Range(n) \cup Range(q) \cup Range(r) \cup Range(s)
    BY <1>4, <1>5, <1>6, <1>7, <1>8
  <1> QED BY <1>3, <1>4, <1>8, <1>9, <1>10 DEF f, n, q, r, s

\* Joining the outputs of two reviewers adds their ids.
LEMMA ExtendedIds ==
    ASSUME NEW before, NEW found, Listed(before), Listed(found)
    PROVE  /\ Len(AllIds(Extended(before, found))) = Len(AllIds(before)) + Len(AllIds(found))
           /\ Range(AllIds(Extended(before, found))) = Range(AllIds(before)) \cup Range(AllIds(found))
  <1> DEFINE after == Extended(before, found)
  <1>1. Listed(after)
    BY ExtendedListed
  <1>2. \A name \in CollectionNames : after[name] = before[name] \o found[name]
    BY DEF Extended
  <1> HIDE DEF after
  <1>3. ASSUME NEW name \in CollectionNames
        PROVE  /\ Len(after[name]) = Len(before[name]) + Len(found[name])
               /\ Range(Ids(after[name])) = Range(Ids(before[name])) \cup Range(Ids(found[name]))
    <2> DEFINE old == before[name]
               new == found[name]
    <2>1. IsList(old) /\ IsList(new) /\ after[name] = old \o new
      BY <1>2 DEF Listed
    <2> HIDE DEF old, new
    <2>2. Len(old \o new) = Len(old) + Len(new) /\ Range(old \o new) = Range(old) \cup Range(new)
      BY <2>1, JoinedLength
    <2>3. \A list : Range(Ids(list)) = {element.id : element \in Range(list)}
      BY DEF Ids, Range
    <2>4. Range(Ids(old \o new)) = Range(Ids(old)) \cup Range(Ids(new))
      BY <2>2, <2>3
    <2> QED BY <2>1, <2>2, <2>4 DEF old, new
  <1>4. CollectionNames = {"findings", "clarification_requests", "local_notes",
                           "suggested_replies", "suppressed_outputs"}
    BY DEF CollectionNames, NoCollections
  <1>5. \A name \in CollectionNames : Len(before[name]) \in Nat /\ Len(found[name]) \in Nat
    BY ListLength DEF Listed
  <1> DEFINE Adds(name) ==
                 /\ Len(after[name]) = Len(before[name]) + Len(found[name])
                 /\ Range(Ids(after[name])) = Range(Ids(before[name])) \cup Range(Ids(found[name]))
                 /\ Len(before[name]) \in Nat /\ Len(found[name]) \in Nat
  <1>8. /\ Adds("findings") /\ Adds("clarification_requests") /\ Adds("local_notes")
        /\ Adds("suggested_replies") /\ Adds("suppressed_outputs")
    BY <1>3, <1>4, <1>5
  <1> DEFINE Count(outputs) ==
                 Len(outputs.findings) + Len(outputs.local_notes)
                 + Len(outputs.clarification_requests) + Len(outputs.suggested_replies)
                 + Len(outputs.suppressed_outputs)
             Union(outputs) ==
                 Range(Ids(outputs.findings)) \cup Range(Ids(outputs.local_notes))
                 \cup Range(Ids(outputs.clarification_requests))
                 \cup Range(Ids(outputs.suggested_replies))
                 \cup Range(Ids(outputs.suppressed_outputs))
  <1>9. \A outputs : Listed(outputs) => /\ Len(AllIds(outputs)) = Count(outputs)
                                        /\ Range(AllIds(outputs)) = Union(outputs)
    BY AllIdsOf, Zenon
  <1>10. Count(after) = Count(before) + Count(found)
    <2> DEFINE a1 == Len(before.findings)
               a2 == Len(before.local_notes)
               a3 == Len(before.clarification_requests)
               a4 == Len(before.suggested_replies)
               a5 == Len(before.suppressed_outputs)
               b1 == Len(found.findings)
               b2 == Len(found.local_notes)
               b3 == Len(found.clarification_requests)
               b4 == Len(found.suggested_replies)
               b5 == Len(found.suppressed_outputs)
    <2>1. Count(after) = (a1 + b1) + (a2 + b2) + (a3 + b3) + (a4 + b4) + (a5 + b5)
      BY <1>8, Zenon
    <2>2. Count(before) = a1 + a2 + a3 + a4 + a5 /\ Count(found) = b1 + b2 + b3 + b4 + b5
      OBVIOUS
    <2>3. {a1, a2, a3, a4, a5, b1, b2, b3, b4, b5} \subseteq Nat
      BY <1>8
    <2> HIDE DEF a1, a2, a3, a4, a5, b1, b2, b3, b4, b5, Count
    <2> QED BY <2>1, <2>2, <2>3
  <1>11. Union(after) = Union(before) \cup Union(found)
    BY <1>8
  <1> HIDE DEF Count, Union
  <1>6. Len(AllIds(after)) = Len(AllIds(before)) + Len(AllIds(found))
    BY <1>1, <1>9, <1>10
  <1>7. Range(AllIds(after)) = Range(AllIds(before)) \cup Range(AllIds(found))
    BY <1>1, <1>9, <1>11
  <1> QED BY <1>6, <1>7 DEF after

\* The quality rules keep all ids: what does not pass is suppressed under its id.
LEMMA ClassifiedIds ==
    ASSUME NEW context, NEW collections, Listed(collections)
    PROVE  LET found == ClassifyReviewQuality(context, collections)
           IN  /\ Len(AllIds(found)) = Len(AllIds(collections))
               /\ Range(AllIds(found)) = Range(AllIds(collections))
  <1> DEFINE found == ClassifyReviewQuality(context, collections)
             F == collections.findings
             Q == collections.clarification_requests
             S == collections.suppressed_outputs
             IdSet(list) == {element.id : element \in Range(list)}
  <1>1. IsList(F) /\ IsList(Q) /\ IsList(S)
    BY DEF Listed, CollectionNames, NoCollections
  <1>2. \A list : Range(Ids(list)) = IdSet(list)
    BY DEF Ids, Range
  <1>3. ASSUME NEW list, IsList(list)
        PROVE  LET passing == Passing(context, list)
                   suppressed == SuppressedBy(context, list)
               IN  /\ IsList(passing) /\ IsList(suppressed)
                   /\ Len(passing) + Len(suppressed) = Len(list)
                   /\ IdSet(passing) \cup IdSet(suppressed) = IdSet(list)
    <2> DEFINE passes == {i \in DOMAIN list : Suppression(context, list[i]) = None}
               fails == {i \in DOMAIN list : Suppression(context, list[i]) # None}
               passing == ElementsAt(list, passes)
               dropped == ElementsAt(list, fails)
               suppressed == [i \in DOMAIN dropped |->
                                 Suppressed(dropped[i].id, Suppression(context, dropped[i]))]
    <2>1. Passing(context, list) = passing /\ SuppressedBy(context, list) = suppressed
      BY DEF Passing, SuppressedBy
    <2>2. fails = DOMAIN list \ passes /\ passes \subseteq DOMAIN list /\ fails \subseteq DOMAIN list
      OBVIOUS
    <2> HIDE DEF passes, fails
    <2>3. /\ IsList(passing) /\ Range(passing) = {list[i] : i \in passes}
          /\ IsList(dropped) /\ Range(dropped) = {list[i] : i \in fails}
      BY <1>3, <2>2, TakenLength
    <2>4. Len(passing) + Len(dropped) = Len(list)
      BY <1>3, <2>2, SplitLength
    <2> HIDE DEF passing, dropped
    <2>5. /\ suppressed = [i \in DOMAIN dropped |-> suppressed[i]]
          /\ \A i \in DOMAIN dropped : suppressed[i].id = dropped[i].id
      BY DEF Suppressed
    <2>6. DOMAIN suppressed = DOMAIN dropped
      OBVIOUS
    <2> HIDE DEF suppressed
    <2>7. IsList(suppressed) /\ Len(suppressed) = Len(dropped)
      BY <2>3, <2>5, MappedLength
    <2>8. IdSet(suppressed) = IdSet(dropped)
      BY <2>5, <2>6 DEF Range
    <2>9. IdSet(passing) \cup IdSet(dropped) = IdSet(list)
      <3>1. {list[i] : i \in passes} \cup {list[i] : i \in fails} = Range(list)
        BY <2>2 DEF Range
      <3> QED BY <2>3, <3>1
    <2> QED BY <2>1, <2>3, <2>4, <2>7, <2>8, <2>9
  <1> DEFINE passing == Passing(context, F)
             classes == [i \in DOMAIN passing |-> ClassifiedFinding(passing[i])]
             requests == Passing(context, Q)
             joined == SuppressedBy(context, F) \o SuppressedBy(context, Q)
  <1>4. /\ found.findings = classes /\ found.clarification_requests = requests
        /\ found.local_notes = collections.local_notes
        /\ found.suggested_replies = collections.suggested_replies
        /\ found.suppressed_outputs = joined \o S
    BY DEF ClassifyReviewQuality
  <1>5. Len(classes) = Len(passing) /\ IdSet(classes) = IdSet(passing)
    <2>1. /\ classes = [i \in DOMAIN passing |-> classes[i]]
          /\ \A i \in DOMAIN passing : classes[i].id = passing[i].id
      BY DEF ClassifiedFinding
    <2>2. DOMAIN classes = DOMAIN passing
      OBVIOUS
    <2>3. IsList(passing)
      BY <1>1, <1>3
    <2> HIDE DEF classes, passing
    <2>4. Len(classes) = Len(passing)
      BY <2>1, <2>3, MappedLength
    <2> QED BY <2>1, <2>2, <2>4 DEF Range
  <1> DEFINE sf == SuppressedBy(context, F)
             sq == SuppressedBy(context, Q)
  <1>6. /\ Len(passing) + Len(sf) = Len(F) /\ IdSet(passing) \cup IdSet(sf) = IdSet(F)
        /\ Len(requests) + Len(sq) = Len(Q) /\ IdSet(requests) \cup IdSet(sq) = IdSet(Q)
        /\ IsList(passing) /\ IsList(requests) /\ IsList(sf) /\ IsList(sq)
    BY <1>1, <1>3
  <1>7. Listed(found) /\ joined = sf \o sq
    BY ClassifiedListed
  <1> HIDE DEF found, passing, classes, requests, joined, sf, sq, F, Q, S
  <1>8. /\ IsList(joined) /\ Len(joined) = Len(sf) + Len(sq)
        /\ Range(joined) = Range(sf) \cup Range(sq)
    BY <1>6, <1>7, JoinedLength
  <1>9. /\ Len(joined \o S) = Len(joined) + Len(S)
        /\ Range(joined \o S) = Range(joined) \cup Range(S)
    BY <1>1, <1>8, JoinedLength
  <1>10. IdSet(joined \o S) = IdSet(sf) \cup IdSet(sq) \cup IdSet(S)
    BY <1>8, <1>9
  <1>11. Len(joined \o S) = Len(sf) + Len(sq) + Len(S)
    BY <1>8, <1>9
  <1> DEFINE n == Len(collections.local_notes)
             r == Len(collections.suggested_replies)
             N == IdSet(collections.local_notes)
             R == IdSet(collections.suggested_replies)
  <1>12. n \in Nat /\ r \in Nat
    BY AllIdsOf DEF CollectionNames, NoCollections
  <1>13. /\ Len(passing) \in Nat /\ Len(requests) \in Nat /\ Len(sf) \in Nat /\ Len(sq) \in Nat
         /\ Len(S) \in Nat /\ Len(F) \in Nat /\ Len(Q) \in Nat
    BY <1>1, <1>6, ListLength
  <1>14. /\ Len(AllIds(collections)) = Len(F) + n + Len(Q) + r + Len(S)
         /\ Range(AllIds(collections)) = IdSet(F) \cup N \cup IdSet(Q) \cup R \cup IdSet(S)
    <2> HIDE DEF IdSet
    <2> QED BY <1>2, AllIdsOf, Zenon DEF F, Q, S
  <1>15. /\ Len(AllIds(found)) = Len(classes) + n + Len(requests) + r + Len(joined \o S)
         /\ Range(AllIds(found)) = IdSet(classes) \cup N \cup IdSet(requests) \cup R \cup IdSet(joined \o S)
    <2>1. /\ Len(AllIds(found)) =
                 Len(found.findings) + Len(found.local_notes) + Len(found.clarification_requests)
                 + Len(found.suggested_replies) + Len(found.suppressed_outputs)
          /\ Range(AllIds(found)) =
                 Range(Ids(found.findings)) \cup Range(Ids(found.local_notes))
                 \cup Range(Ids(found.clarification_requests))
                 \cup Range(Ids(found.suggested_replies))
                 \cup Range(Ids(found.suppressed_outputs))
      BY <1>7, AllIdsOf, Zenon
    <2> HIDE DEF IdSet
    <2> QED BY <1>2, <1>4, <2>1, Zenon
  <1> HIDE DEF n, r, N, R, IdSet
  <1>16. Len(AllIds(found)) = Len(AllIds(collections))
    <2> DEFINE p == Len(passing)
               q == Len(requests)
               f == Len(sf)
               d == Len(sq)
               s == Len(S)
    <2>1. /\ Len(AllIds(found)) = p + n + q + r + (f + d + s)
          /\ Len(AllIds(collections)) = Len(F) + n + Len(Q) + r + s
          /\ p + f = Len(F) /\ q + d = Len(Q)
      BY <1>5, <1>6, <1>11, <1>14, <1>15, Zenon
    <2>2. {p, q, f, d, s, n, r} \subseteq Nat
      BY <1>12, <1>13
    <2>3. Len(AllIds(collections)) = (p + f) + n + (q + d) + r + s
      BY <2>1, Zenon
    <2>4. Len(AllIds(found)) = p + n + q + r + (f + d + s)
      BY <2>1
    <2> HIDE DEF p, q, f, d, s
    <2>5. p + n + q + r + (f + d + s) = (p + f) + n + (q + d) + r + s
      BY <2>2
    <2> QED BY <2>3, <2>4, <2>5, Zenon
  <1>17. Range(AllIds(found)) = Range(AllIds(collections))
    BY <1>5, <1>6, <1>10, <1>14, <1>15
  <1> QED BY <1>16, <1>17 DEF found

\* Disjoint sets are counted one after the other.
LEMMA DisjointCount ==
    ASSUME NEW A, NEW B, IsFiniteSet(A), IsFiniteSet(B), A \cap B = {}
    PROVE  IsFiniteSet(A \cup B) /\ Cardinality(A \cup B) = Cardinality(A) + Cardinality(B)
  <1>1. /\ IsFiniteSet(A \cup B)
        /\ Cardinality(A \cup B) = Cardinality(A) + Cardinality(B) - Cardinality(A \cap B)
    BY FS_Union, Zenon
  <1>2. Cardinality(A \cap B) = 0 /\ Cardinality(A) \in Nat /\ Cardinality(B) \in Nat
    BY FS_EmptySet, FS_CardinalityType
  <1> QED BY <1>1, <1>2

\* An item that is not fatal is of one of the kinds.
LEMMA KindsOf ==
    ASSUME NEW item, FatalCode(item) = None
    PROVE  item.type \in ItemTypes
  <1>1. {<<"invalid_item">>, <<"invalid_type">>, <<"unsupported_item_type">>}
            \subseteq RepairableReviewerOutputErrorCodes
    BY DEF RepairableReviewerOutputErrorCodes
  <1>2. <<"invalid_item">> # None /\ <<"invalid_type">> # None /\ <<"unsupported_item_type">> # None
    BY <1>1, ReviewOutputAssumption
  <1> QED BY <1>2 DEF FatalCode

\* Normalization keeps every item, under its id or among the suppressed ones.
LEMMA CollectIds ==
    ASSUME NEW items, AreItems(items)
    PROVE  /\ Len(AllIds(Collect(items))) = Len(items)
           /\ \A item \in Range(items) :
                  (IF item.graph_owned THEN SuppressedId(item) ELSE item.id)
                      \in Range(AllIds(Collect(items)))
  <1> DEFINE all == Collect(items)
             at(type) == {i \in DOMAIN items : items[i].type = type /\ ~items[i].graph_owned}
             owned == {i \in DOMAIN items :
                          items[i].graph_owned \/ items[i].type \in {"suppressed", "non_finding"}}
             dropped == ElementsAt(items, owned)
             noted == [i \in DOMAIN dropped |->
                          IF dropped[i].graph_owned
                          THEN Suppressed(SuppressedId(dropped[i]), "graph_owned")
                          ELSE Suppressed(dropped[i].id, "reviewer")]
             IdOf(item) == IF item.graph_owned THEN SuppressedId(item) ELSE item.id
             IdSet(list) == {element.id : element \in Range(list)}
  <1>1. IsList(items) /\ IsFiniteSet(DOMAIN items) /\ Cardinality(DOMAIN items) = Len(items)
    BY ListLength DEF AreItems, IsList
  <1>2. \A i \in DOMAIN items : items[i].type \in ItemTypes
    <2>1. items \in Seq(Range(items)) /\ ~(FirstFatal(items) > 0)
      BY DEF AreItems
    <2>2. \A i \in DOMAIN items : FatalCode(items[i]) = None
      BY <2>1, NoneFatal
    <2> QED BY <2>2, KindsOf
  <1> DEFINE A == at("finding")
             B == at("local_note")
             C == at("clarification_request")
             D == at("suggested_reply")
  <1>3. DOMAIN items = (((A \cup B) \cup C) \cup D) \cup owned
    BY <1>2 DEF ItemTypes
  <1>4. /\ A \cap B = {} /\ (A \cup B) \cap C = {} /\ ((A \cup B) \cup C) \cap D = {}
        /\ (((A \cup B) \cup C) \cup D) \cap owned = {}
    OBVIOUS
  <1>5. /\ all.findings = ElementsAt(items, A) /\ all.local_notes = ElementsAt(items, B)
        /\ all.clarification_requests = ElementsAt(items, C)
        /\ all.suggested_replies = ElementsAt(items, D)
        /\ all.suppressed_outputs = noted
    BY DEF Collect, Kept
  <1>6. Listed(all)
    BY CollectListed DEF AreCollections
  <1>7. \A i \in DOMAIN items \ owned : IdOf(items[i]) = items[i].id
    OBVIOUS
  <1>8. owned \subseteq DOMAIN items /\ \A type : at(type) \subseteq DOMAIN items
    OBVIOUS
  <1> HIDE DEF all, at, owned
  <1>9. ASSUME NEW type
        PROVE  /\ Len(ElementsAt(items, at(type))) = Cardinality(at(type))
               /\ Range(ElementsAt(items, at(type))) = {items[i] : i \in at(type)}
               /\ IsFiniteSet(at(type)) /\ Cardinality(at(type)) \in Nat
    BY <1>1, <1>8, TakenLength
  <1>10. /\ IsList(dropped) /\ Len(dropped) = Cardinality(owned)
         /\ Range(dropped) = {items[i] : i \in owned}
         /\ IsFiniteSet(owned) /\ Cardinality(owned) \in Nat
    BY <1>1, <1>8, TakenLength
  <1> HIDE DEF dropped
  <1>11. /\ noted = [i \in DOMAIN dropped |-> noted[i]]
         /\ \A i \in DOMAIN dropped : noted[i].id = IdOf(dropped[i])
    BY DEF Suppressed
  <1>12. DOMAIN noted = DOMAIN dropped
    OBVIOUS
  <1> HIDE DEF noted, IdOf
  <1>13. Len(noted) = Cardinality(owned) /\ IdSet(noted) = {IdOf(items[i]) : i \in owned}
    <2>1. Len(noted) = Len(dropped)
      BY <1>10, <1>11, MappedLength
    <2>2. IdSet(noted) = {IdOf(element) : element \in Range(dropped)}
      BY <1>11, <1>12 DEF Range
    <2>3. {IdOf(element) : element \in {items[i] : i \in owned}} = {IdOf(items[i]) : i \in owned}
      OBVIOUS
    <2>4. Len(noted) = Cardinality(owned)
      BY <1>10, <2>1
    <2>5. IdSet(noted) = {IdOf(element) : element \in {items[i] : i \in owned}}
      BY <1>10, <2>2, Zenon
    <2> HIDE DEF IdSet
    <2> QED BY <2>3, <2>4, <2>5, Zenon
  <1>14. \A list : Range(Ids(list)) = IdSet(list)
    BY DEF Ids, Range
  <1>15. /\ Len(AllIds(all)) =
                Len(all.findings) + Len(all.local_notes) + Len(all.clarification_requests)
                + Len(all.suggested_replies) + Len(all.suppressed_outputs)
         /\ Range(AllIds(all)) =
                IdSet(all.findings) \cup IdSet(all.local_notes)
                \cup IdSet(all.clarification_requests)
                \cup IdSet(all.suggested_replies) \cup IdSet(all.suppressed_outputs)
    <2> HIDE DEF IdSet
    <2> QED BY <1>6, <1>14, AllIdsOf, Zenon
  <1>16. Len(AllIds(all)) = Len(items)
    <2>1. Cardinality(A \cup B) = Cardinality(A) + Cardinality(B) /\ IsFiniteSet(A \cup B)
      BY <1>4, <1>9, DisjointCount
    <2>2. /\ IsFiniteSet((A \cup B) \cup C)
          /\ Cardinality((A \cup B) \cup C) = Cardinality(A \cup B) + Cardinality(C)
      BY <1>4, <1>9, <2>1, DisjointCount
    <2>3. /\ IsFiniteSet(((A \cup B) \cup C) \cup D)
          /\ Cardinality(((A \cup B) \cup C) \cup D) = Cardinality((A \cup B) \cup C) + Cardinality(D)
      BY <1>4, <1>9, <2>2, DisjointCount
    <2>4. Cardinality((((A \cup B) \cup C) \cup D) \cup owned)
              = Cardinality(((A \cup B) \cup C) \cup D) + Cardinality(owned)
      BY <1>4, <1>10, <2>3, DisjointCount
    <2>5. Len(AllIds(all)) =
              Cardinality(A) + Cardinality(B) + Cardinality(C) + Cardinality(D) + Cardinality(owned)
      BY <1>5, <1>9, <1>13, <1>15
    <2> QED BY <1>1, <1>3, <2>1, <2>2, <2>3, <2>4, <2>5
  <1>17. ASSUME NEW i \in DOMAIN items PROVE IdOf(items[i]) \in Range(AllIds(all))
    <2>1. CASE i \in owned
      BY <1>5, <1>13, <1>15, <2>1
    <2>2. CASE i \notin owned
      <3>1. IdOf(items[i]) = items[i].id
        BY <1>7, <2>2
      <3>2. \E type \in {"finding", "local_note", "clarification_request", "suggested_reply"} :
                i \in at(type)
        BY <1>3, <2>2
      <3>3. \A type : i \in at(type) => items[i].id \in IdSet(ElementsAt(items, at(type)))
        BY <1>9
      <3> HIDE DEF IdSet
      <3> QED BY <1>5, <1>15, <3>1, <3>2, <3>3
    <2> QED BY <2>1, <2>2
  <1>18. \A item \in Range(items) : IdOf(item) \in Range(AllIds(all))
    BY <1>17 DEF Range
  <1> QED BY <1>16, <1>18 DEF all, IdOf

\* What a reviewer returns is all among the outputs afterwards.
LEMMA ReviewerLosesNothing ==
    ASSUME Listed(classified), NEW output \in Returned, ReviewerReturns(output), phase' = "reviewing"
    PROVE  LET before == AllIds(classified)
               after == AllIds(classified')
           IN  /\ Range(before) \subseteq Range(after)
               /\ IF Result.status = "completed"
                  THEN /\ Len(after) = Len(before) + Len(UsedItems(returned'))
                       /\ VisibleIds(returned') \subseteq Range(after)
                  ELSE Len(after) = Len(before) + 1
  <1> DEFINE result == ExecuteFakeReviewer(output)
             found == ClassifyReviewQuality(Context, result.collections)
             items == UsedItems(output)
  <1>1. returned' = output /\ Result = result
    BY DEF ReviewerReturns, Result
  <1>2. CASE result.status = "completed" /\ classified' = Extended(classified, found)
    <2>1. /\ Listed(result.collections) /\ AreItems(items)
          /\ result.collections = Collect(items)
      BY <1>2, ExecutedItems, ExecutedListed DEF AreCollections
    <2>2. /\ Len(AllIds(found)) = Len(AllIds(result.collections))
          /\ Range(AllIds(found)) = Range(AllIds(result.collections))
          /\ Listed(found)
      BY <2>1, ClassifiedIds, ClassifiedListed
    <2>3. /\ Len(AllIds(Collect(items))) = Len(items)
          /\ VisibleIds(output) \subseteq Range(AllIds(Collect(items)))
      BY <2>1, CollectIds DEF VisibleIds
    <2> HIDE DEF result, found, items
    <2>4. /\ Len(AllIds(classified')) = Len(AllIds(classified)) + Len(AllIds(found))
          /\ Range(AllIds(classified')) = Range(AllIds(classified)) \cup Range(AllIds(found))
      BY <1>2, <2>2, ExtendedIds
    <2> QED BY <1>1, <1>2, <2>1, <2>2, <2>3, <2>4 DEF items
  <1>3. CASE result.status # "completed" /\ classified' = [classified EXCEPT
                 !.local_notes = Append(@, FailureNote(Reviewers[reviewed']))]
    <2> DEFINE note == FailureNote(Reviewers[reviewed'])
               single == [NoCollections EXCEPT !.local_notes = <<note>>]
    <2>1. classified' = Extended(classified, single)
      <3>1. classified = [name \in CollectionNames |-> classified[name]]
        BY DEF Listed
      <3>2. \A name \in CollectionNames : IsList(classified[name])
        BY DEF Listed
      <3>3. \A list : IsList(list) => list \o <<>> = list /\ list \o <<note>> = Append(list, note)
        BY DEF IsList
      <3>4. \A name \in CollectionNames :
                single[name] = IF name = "local_notes" THEN <<note>> ELSE <<>>
        BY DEF CollectionNames, NoCollections
      <3> HIDE DEF note, single
      <3>5. \A name \in CollectionNames : classified[name] \o single[name] =
                IF name = "local_notes" THEN Append(classified.local_notes, note) ELSE classified[name]
        BY <3>2, <3>3, <3>4
      <3>6. classified' = [name \in CollectionNames |->
                IF name = "local_notes" THEN Append(classified.local_notes, note) ELSE classified[name]]
        BY <1>3, <3>1 DEF note
      <3> QED BY <3>5, <3>6, Zenon DEF Extended
    <2>2. Listed(single) /\ Len(AllIds(single)) = 1
      <3>1. single = [findings |-> <<>>, clarification_requests |-> <<>>, local_notes |-> <<note>>,
                      suggested_replies |-> <<>>, suppressed_outputs |-> <<>>]
        BY DEF NoCollections
      <3>2. IsList(<<note>>) /\ Len(<<note>>) = 1 /\ IsList(<<>>) /\ Len(<<>>) = 0
        <4>1. <<note>> \in Seq({note})
          OBVIOUS
        <4> QED BY <4>1, EmptyIsList DEF IsList
      <3> HIDE DEF note
      <3>3. Listed(single)
        BY <3>1, <3>2, RecordListed
      <3>4. /\ single.findings = <<>> /\ single.clarification_requests = <<>>
            /\ single.local_notes = <<note>> /\ single.suggested_replies = <<>>
            /\ single.suppressed_outputs = <<>>
        BY <3>1
      <3> HIDE DEF single
      <3>5. Len(AllIds(single)) =
                Len(single.findings) + Len(single.local_notes) + Len(single.clarification_requests)
                + Len(single.suggested_replies) + Len(single.suppressed_outputs)
        BY <3>3, AllIdsOf, Zenon
      <3>6. Len(AllIds(single)) = 0 + 1 + 0 + 0 + 0
        BY <3>2, <3>4, <3>5
      <3> QED BY <3>3, <3>6
    <2> HIDE DEF single, result
    <2>3. /\ Len(AllIds(classified')) = Len(AllIds(classified)) + Len(AllIds(single))
          /\ Range(AllIds(classified')) = Range(AllIds(classified)) \cup Range(AllIds(single))
      BY <2>1, <2>2, ExtendedIds
    <2> QED BY <1>1, <1>3, <2>2, <2>3
  <1> QED BY <1>2, <1>3, ReturnedCases

-----------------------------------------------------------------------------
(***************************************************************************)
(* The findings of a review, from the first reviewer to the presentation:  *)
(* none of them has a reason to be suppressed, and in the end each has the *)
(* anchor that was derived for it.                                         *)
(***************************************************************************)
FindingFields == {"id", "path", "line", "line_end", "fingerprint", "body", "diff_anchor", "item"}

\* A finding the quality rules let through, in this context.
Settled(context, finding) ==
    /\ DOMAIN finding = FindingFields
    /\ finding.path = finding.item.path /\ finding.line = finding.item.line
    /\ finding.line_end = None \/ finding.line <= finding.line_end
    /\ FindingSuppression(context, finding.item) = None

FoundInv ==
    /\ phase = "reading" => classified.findings = <<>>
    /\ InReview => \A i \in DOMAIN classified.findings : Settled(Context, classified.findings[i])
    /\ phase = "reviewing" =>
           \A i \in DOMAIN classified.findings : classified.findings[i].diff_anchor = NoAnchor
    /\ phase = "presented" =>
           \A i \in DOMAIN classified.findings :
               classified.findings[i].diff_anchor =
                   DiffAnchor(Context.files, HeadSha, classified.findings[i])

\* Where the elements of two joined lists come from.
LEMMA JoinedElements ==
    ASSUME NEW S, NEW T, NEW s \in Seq(S), NEW t \in Seq(T)
    PROVE  \A i \in DOMAIN (s \o t) :
               \/ i \in DOMAIN s /\ (s \o t)[i] = s[i]
               \/ i - Len(s) \in DOMAIN t /\ (s \o t)[i] = t[i - Len(s)]
  <1>1. s \in Seq(S \cup T) /\ t \in Seq(S \cup T)
    OBVIOUS
  <1>2. /\ Len(s \o t) = Len(s) + Len(t) /\ s \o t \in Seq(S \cup T)
        /\ \A i \in 1..Len(s) + Len(t) :
               (s \o t)[i] = IF i <= Len(s) THEN s[i] ELSE t[i - Len(s)]
    BY <1>1, ConcatProperties
  <1>3. DOMAIN (s \o t) = 1..Len(s) + Len(t) /\ DOMAIN s = 1..Len(s) /\ DOMAIN t = 1..Len(t)
        /\ Len(s) \in Nat /\ Len(t) \in Nat
    BY <1>1, <1>2
  <1>4. \A i \in 1..Len(s) + Len(t) : IF i <= Len(s) THEN i \in 1..Len(s) ELSE i - Len(s) \in 1..Len(t)
    BY <1>3
  <1> QED BY <1>2, <1>3, <1>4, Zenon

\* The context depends on the pull request alone.
LEMMA ContextStays == UNCHANGED pr => Context' = Context
  BY DEF Context, Budgeted

\* The invariant of the findings holds initially.
LEMMA FoundStarts == MCInit => FoundInv
  <1> SUFFICES ASSUME MCInit PROVE FoundInv
    OBVIOUS
  <1>1. phase = "reading" /\ classified = NoCollections
    BY DEF MCInit, Init
  <1>2. NoCollections.findings = <<>>
    BY DEF NoCollections
  <1> QED BY <1>1, <1>2 DEF FoundInv, InReview

\* A reviewer that returns adds only findings that passed the quality rules.
LEMMA FoundByReviewer ==
    ASSUME ListInv, RequestInv, FoundInv, NEW output \in Returned, ReviewerReturns(output)
    PROVE  FoundInv'
  <1> DEFINE result == ExecuteFakeReviewer(output)
             found == ClassifyReviewQuality(Context, result.collections)
             reviewer == Reviewers[reviewed']
             passing == Passing(Context, result.collections.findings)
             Good(finding) == Settled(Context, finding) /\ finding.diff_anchor = NoAnchor
  <1>1. Result = result
    BY DEF Result, ReviewerReturns
  <1>2. /\ phase = "reviewing" /\ phase' \in {"reviewing", "raised"} /\ UNCHANGED pr
        /\ \/ result.status = "completed" /\ classified' = Extended(classified, found)
           \/ classified' = [classified EXCEPT !.local_notes = Append(@, FailureNote(reviewer))]
           \/ classified' = classified
    BY <1>1 DEF ReviewerReturns
  <1>3. \A i \in DOMAIN classified.findings : Good(classified.findings[i])
    BY <1>2 DEF FoundInv, InReview
  <1>4. ASSUME result.status = "completed"
        PROVE  IsList(found.findings) /\ \A i \in DOMAIN found.findings : Good(found.findings[i])
    <2> DEFINE list == result.collections.findings
               passes == {i \in DOMAIN list : Suppression(Context, list[i]) = None}
    <2>1. found.findings = [i \in DOMAIN passing |-> ClassifiedFinding(passing[i])]
      BY DEF ClassifyReviewQuality
    <2>2. AreFindings(list)
      BY <1>4, ExecutedListed DEF AreCollections
    <2>3. PICK S : list \in Seq(S)
      BY <2>2 DEF AreFindings, IsList
    <2>4. passing = ElementsAt(list, passes)
      BY DEF Passing
    <2> HIDE DEF result, list, passing, passes, found
    <2>5. passing \in Seq(At(list, passes))
      BY <2>3, <2>4, ElementsOf
    <2>6. ASSUME NEW k \in passes PROVE Good(ClassifiedFinding(list[k]))
      <3> DEFINE item == list[k]
      <3>1. k \in DOMAIN list /\ Suppression(Context, item) = None
        BY DEF passes
      <3>2. item.type = "finding" /\ (item.line_end = None \/ item.line <= item.line_end)
        BY <2>2, <3>1 DEF AreFindings, Range
      <3>3. FindingSuppression(Context, item) = None
        BY <3>1, <3>2 DEF Suppression
      <3> HIDE DEF item
      <3> QED BY <3>2, <3>3 DEF ClassifiedFinding, Settled, FindingFields, item
    <2>7. \A i \in DOMAIN passing : \E k \in passes : passing[i] = list[k]
      BY <2>5 DEF At
    <2>8. \A i \in DOMAIN found.findings : Good(found.findings[i])
      <3> HIDE DEF Good
      <3> QED BY <2>1, <2>6, <2>7
    <2>9. IsList(found.findings)
      <3>1. found.findings = [i \in DOMAIN passing |-> found.findings[i]]
        BY <2>1
      <3>2. IsList(passing)
        BY <2>5 DEF IsList
      <3> QED BY <3>1, <3>2, MappedIsList
    <2> QED BY <2>8, <2>9
  <1> HIDE DEF result, found, passing, Good
  <1>5. \A i \in DOMAIN classified'.findings : Good(classified'.findings[i])
    <2>1. CASE result.status = "completed" /\ classified' = Extended(classified, found)
      <3>1. classified' = [name \in CollectionNames |-> classified[name] \o found[name]]
        BY <2>1 DEF Extended
      <3>2. classified'.findings = classified.findings \o found.findings
        BY <3>1, FindingsName
      <3>3. PICK S, T : classified.findings \in Seq(S) /\ found.findings \in Seq(T)
        BY <1>4, <2>1, FindingsName DEF ListInv, Listed, IsList
      <3> DEFINE old == classified.findings
                 new == found.findings
      <3>4. /\ \A i \in DOMAIN old : Good(old[i])
            /\ \A i \in DOMAIN new : Good(new[i])
            /\ old \in Seq(S) /\ new \in Seq(T) /\ classified'.findings = old \o new
        BY <1>3, <1>4, <2>1, <3>2, <3>3
      <3> HIDE DEF old, new
      <3> QED BY <3>4, JoinedElements
    <2>2. CASE classified' = [classified EXCEPT !.local_notes = Append(@, FailureNote(reviewer))]
      <3>1. classified'.findings = classified.findings
        BY <2>2, FindingsName DEF ListInv, Listed
      <3> QED BY <1>3, <3>1
    <2>3. CASE classified' = classified
      BY <1>3, <2>3
    <2> QED BY <1>2, <2>1, <2>2, <2>3
  <1>6. /\ \A i \in DOMAIN classified'.findings : Settled(Context, classified'.findings[i])
        /\ \A i \in DOMAIN classified'.findings : classified'.findings[i].diff_anchor = NoAnchor
    BY <1>5 DEF Good
  <1>7. Context' = Context
    BY <1>2, ContextStays
  <1>8. \A i \in DOMAIN classified'.findings : Settled(Context', classified'.findings[i])
    BY <1>6, <1>7
  <1>9. phase' # "reading" /\ phase' # "presented"
    BY <1>2
  <1> QED BY <1>6, <1>8, <1>9 DEF FoundInv

\* Anchoring gives each finding the anchor derived from its lines.
LEMMA FoundPresented == ASSUME ListInv, RequestInv, FoundInv, Present PROVE FoundInv'
  <1> DEFINE list == classified.findings
             anchored == AttachDiffAnchors(Context.files, HeadSha, list)
  <1>1. phase = "reviewing" /\ UNCHANGED pr /\ phase' \in {"raised", "presented"}
        /\ (phase' = "presented" => classified' = Assembled)
    BY DEF Present
  <1>2. /\ IsRequest(pr) /\ Listed(classified)
        /\ \A i \in DOMAIN list : Settled(Context, list[i]) /\ list[i].diff_anchor = NoAnchor
    BY <1>1 DEF FoundInv, InReview, RequestInv, ListInv
  <1>3. Context' = Context
    BY <1>1, ContextStays
  <1>4. CASE phase' = "raised"
    BY <1>4 DEF FoundInv, InReview
  <1>5. CASE phase' = "presented"
    <2>1. classified'.findings = anchored
      BY <1>1, <1>2, <1>5, AssembledListed, Zenon
    <2>2. ASSUME NEW i \in DOMAIN anchored
          PROVE  /\ Settled(Context, anchored[i])
                 /\ anchored[i].diff_anchor = DiffAnchor(Context.files, HeadSha, anchored[i])
      <3> DEFINE finding == list[i]
                 after == anchored[i]
                 anchor == DiffAnchor(Context.files, HeadSha, finding)
      <3>1. i \in DOMAIN list /\ after = [finding EXCEPT !.diff_anchor =
                                             IF @ # NoAnchor THEN @ ELSE anchor]
        BY DEF AttachDiffAnchors
      <3>2. Settled(Context, finding) /\ finding.diff_anchor = NoAnchor
        BY <1>2, <3>1
      <3> HIDE DEF finding, after, anchor, anchored
      <3>3. after = [finding EXCEPT !.diff_anchor = anchor]
        BY <3>1, <3>2
      <3>4. /\ DOMAIN after = DOMAIN finding /\ after.diff_anchor = anchor
            /\ after.path = finding.path /\ after.line = finding.line
            /\ after.line_end = finding.line_end /\ after.item = finding.item
        BY <3>2, <3>3 DEF Settled, FindingFields
      <3>5. Settled(Context, after)
        BY <3>2, <3>4 DEF Settled
      <3>6. DiffAnchor(Context.files, HeadSha, after) = DiffAnchor(Context.files, HeadSha, finding)
        BY <3>4 DEF DiffAnchor, FilesFor, RangesFor, LineEnd
      <3> QED BY <3>4, <3>5, <3>6 DEF after, anchor
    <2> HIDE DEF anchored
    <2>3. \A i \in DOMAIN classified'.findings :
              /\ Settled(Context', classified'.findings[i])
              /\ classified'.findings[i].diff_anchor =
                     DiffAnchor(Context'.files, HeadSha, classified'.findings[i])
      BY <1>3, <2>1, <2>2
    <2> QED BY <1>5, <2>3 DEF FoundInv
  <1> QED BY <1>1, <1>4, <1>5

-----------------------------------------------------------------------------
(***************************************************************************)
(* The plan of a review that is presented: its items have the ids of the   *)
(* outputs, which are all different.                                       *)
(***************************************************************************)
\* Joined lists have no element twice if neither has, and they share none.
LEMMA JoinedInjective ==
    ASSUME NEW s, NEW t, IsList(s), IsList(t)
    PROVE  IsInjective(s \o t) <=>
               IsInjective(s) /\ IsInjective(t) /\ Range(s) \cap Range(t) = {}
  <1>1. PICK S, T : s \in Seq(S) /\ t \in Seq(T)
    BY DEF IsList
  <1>2. s \in Seq(S \cup T) /\ t \in Seq(S \cup T)
    BY <1>1
  <1> DEFINE q == s \o t
             m == Len(s)
             n == Len(t)
  <1>3. /\ m \in Nat /\ DOMAIN s = 1..m /\ n \in Nat /\ DOMAIN t = 1..n
    BY <1>1
  <1>4. /\ Len(q) = m + n /\ DOMAIN q = 1..m + n
        /\ \A i \in 1..m + n : q[i] = IF i <= m THEN s[i] ELSE t[i - m]
    BY <1>2, ConcatProperties
  <1> HIDE DEF q, m, n
  <1>5. \A i \in 1..m : i \in 1..m + n /\ q[i] = s[i]
    BY <1>3, <1>4
  <1>6. ASSUME NEW j \in 1..n PROVE m + j \in 1..m + n /\ q[m + j] = t[j] /\ ~(m + j <= m)
    <2>1. m + j \in 1..m + n /\ ~(m + j <= m) /\ (m + j) - m = j
      BY <1>3
    <2> QED BY <1>4, <2>1
  <1>7. \A i \in 1..m + n : IF i <= m THEN i \in 1..m /\ q[i] = s[i]
                            ELSE i - m \in 1..n /\ q[i] = t[i - m]
    BY <1>3, <1>4
  <1>8. ASSUME IsInjective(q)
        PROVE  IsInjective(s) /\ IsInjective(t) /\ Range(s) \cap Range(t) = {}
    <2>1. \A i, j \in 1..m + n : q[i] = q[j] => i = j
      BY <1>4, <1>8 DEF IsInjective
    <2>2. IsInjective(s)
      BY <1>3, <1>5, <2>1 DEF IsInjective
    <2>3. ASSUME NEW i \in 1..n, NEW j \in 1..n, t[i] = t[j] PROVE i = j
      <3>1. m + i = m + j
        BY <1>6, <2>1, <2>3
      <3> QED BY <1>3, <3>1
    <2>4. IsInjective(t)
      BY <1>3, <2>3 DEF IsInjective
    <2>5. ASSUME NEW i \in 1..m, NEW j \in 1..n, s[i] = t[j] PROVE FALSE
      <3>1. i = m + j
        BY <1>5, <1>6, <2>1, <2>5
      <3> QED BY <1>3, <1>6, <3>1
    <2>6. Range(s) \cap Range(t) = {}
      BY <1>3, <2>5 DEF Range
    <2> QED BY <2>2, <2>4, <2>6
  <1>9. ASSUME IsInjective(s), IsInjective(t), Range(s) \cap Range(t) = {}
        PROVE  IsInjective(q)
    <2>1. /\ \A i, j \in 1..m : s[i] = s[j] => i = j
          /\ \A i, j \in 1..n : t[i] = t[j] => i = j
          /\ \A i \in 1..m, j \in 1..n : s[i] # t[j]
      BY <1>3, <1>9 DEF IsInjective, Range
    <2>2. ASSUME NEW i \in 1..m + n, NEW j \in 1..m + n, q[i] = q[j] PROVE i = j
      <3>1. CASE i <= m /\ j <= m
        BY <1>7, <2>1, <2>2, <3>1
      <3>2. CASE i <= m /\ ~(j <= m)
        BY <1>7, <2>1, <2>2, <3>2
      <3>3. CASE ~(i <= m) /\ j <= m
        BY <1>7, <2>1, <2>2, <3>3
      <3>4. CASE ~(i <= m) /\ ~(j <= m)
        <4>1. i - m = j - m
          BY <1>7, <2>1, <2>2, <3>4
        <4> QED BY <1>3, <4>1
      <3> QED BY <3>1, <3>2, <3>3, <3>4
    <2> QED BY <1>4, <2>2 DEF IsInjective
  <1> QED BY <1>8, <1>9 DEF q

\* The ids of joined lists are those of the one, and then those of the other.
LEMMA JoinedIds ==
    ASSUME NEW s, NEW t, IsList(s), IsList(t)
    PROVE  Ids(s \o t) = Ids(s) \o Ids(t)
  <1>1. PICK S, T : s \in Seq(S) /\ t \in Seq(T)
    BY DEF IsList
  <1>2. s \in Seq(S \cup T) /\ t \in Seq(S \cup T)
    BY <1>1
  <1> DEFINE m == Len(s)
             n == Len(t)
             q == s \o t
             a == Ids(s)
             b == Ids(t)
  <1>3. m \in Nat /\ DOMAIN s = 1..m /\ n \in Nat /\ DOMAIN t = 1..n
    BY <1>1
  <1>4. /\ DOMAIN q = 1..m + n
        /\ \A i \in 1..m + n : q[i] = IF i <= m THEN s[i] ELSE t[i - m]
    BY <1>2, ConcatProperties
  <1>5. /\ a = [i \in 1..m |-> s[i].id] /\ b = [i \in 1..n |-> t[i].id]
        /\ Ids(q) = [i \in 1..m + n |-> q[i].id]
    BY <1>3, <1>4 DEF Ids
  <1>6. IsList(a) /\ Len(a) = m /\ IsList(b) /\ Len(b) = n
    <2>1. a = [i \in DOMAIN s |-> a[i]] /\ b = [i \in DOMAIN t |-> b[i]]
      BY DEF Ids
    <2> HIDE DEF a, b
    <2> QED BY <2>1, MappedLength
  <1> HIDE DEF m, n, q, a, b
  <1>7. /\ DOMAIN (a \o b) = 1..m + n /\ a \o b = [i \in 1..m + n |-> (a \o b)[i]]
        /\ \A i \in 1..m + n : (a \o b)[i] = IF i <= m THEN a[i] ELSE b[i - m]
    <2> DEFINE c == a \o b
    <2>1. PICK A, B : a \in Seq(A) /\ b \in Seq(B)
      BY <1>6 DEF IsList
    <2>2. a \in Seq(A \cup B) /\ b \in Seq(A \cup B)
      BY <2>1
    <2>3. /\ c \in Seq(A \cup B) /\ Len(c) = m + n
          /\ \A i \in 1..m + n : c[i] = IF i <= m THEN a[i] ELSE b[i - m]
      BY <1>6, <2>2, ConcatProperties
    <2> HIDE DEF c
    <2>4. DOMAIN c = 1..m + n /\ c = [i \in 1..m + n |-> c[i]]
      BY <2>3
    <2> QED BY <2>3, <2>4 DEF c
  <1>8. ASSUME NEW i \in 1..m + n PROVE (a \o b)[i] = q[i].id
    <2>1. CASE i <= m
      BY <1>3, <1>4, <1>5, <1>7, <2>1
    <2>2. CASE ~(i <= m)
      <3>1. i - m \in 1..n
        BY <1>3, <2>2
      <3> QED BY <1>4, <1>5, <1>7, <2>2, <3>1
    <2> QED BY <2>1, <2>2
  <1>9. Ids(q) = a \o b
    BY <1>5, <1>7, <1>8
  <1> QED BY <1>9 DEF q, a, b

\* An item of the plan that stays with the operator,
IsLocal(item) ==
    \E id, classification : \E destination \in {"local_only", "suggested_reply"} :
        item = Payload!PlanItem(id, classification, destination, None)

\* and a plan: an item for each finding, then local ones.
IsPlan(items, list) ==
    /\ IsList(items) /\ Len(list) <= Len(items)
    /\ \A i \in DOMAIN list :
           items[i] = Payload!PlanItem(list[i].id, "postable_finding", "review_body_item",
                                       list[i].fingerprint)
    /\ \A i \in DOMAIN items \ DOMAIN list : IsLocal(items[i])

\* Local items make a plan longer.
LEMMA ExtendedPlan ==
    ASSUME NEW list, NEW items, NEW local, IsList(list), IsPlan(items, list),
           IsList(local), \A i \in DOMAIN local : IsLocal(local[i])
    PROVE  IsPlan(items \o local, list)
  <1> DEFINE longer == items \o local
  <1>1. IsList(longer) /\ Len(longer) = Len(items) + Len(local)
    BY JoinedLength DEF IsPlan
  <1>2. PICK S, T : items \in Seq(S) /\ local \in Seq(T)
    BY DEF IsPlan, IsList
  <1>3. \A i \in DOMAIN longer :
            \/ i \in DOMAIN items /\ longer[i] = items[i]
            \/ i - Len(items) \in DOMAIN local /\ longer[i] = local[i - Len(items)]
    BY <1>2, JoinedElements
  <1>4. /\ Len(list) \in Nat /\ DOMAIN list = 1..Len(list)
        /\ Len(items) \in Nat /\ DOMAIN items = 1..Len(items) /\ Len(list) <= Len(items)
        /\ Len(local) \in Nat /\ DOMAIN local = 1..Len(local)
        /\ DOMAIN longer = 1..Len(longer)
    BY <1>1, ListLength DEF IsPlan
  <1> HIDE DEF longer, IsLocal
  <1>5. \A i \in DOMAIN list : i \in DOMAIN longer /\ longer[i] = items[i]
    <2> SUFFICES ASSUME NEW i \in DOMAIN list PROVE i \in DOMAIN longer /\ longer[i] = items[i]
      OBVIOUS
    <2>1. i \in DOMAIN longer /\ i \in Nat /\ i <= Len(items)
      BY <1>1, <1>4
    <2>2. i - Len(items) \notin DOMAIN local
      BY <1>4, <2>1
    <2> QED BY <1>3, <2>1, <2>2
  <1>6. \A i \in DOMAIN longer \ DOMAIN list : IsLocal(longer[i])
    BY <1>3 DEF IsPlan
  <1>7. Len(list) <= Len(longer)
    BY <1>1, <1>4
  <1> QED BY <1>1, <1>5, <1>6, <1>7 DEF IsPlan, longer

\* What the runner builds of its outputs is such a plan, with the ids of all of them.
LEMMA PlanBuilt ==
    ASSUME NEW outputs, Listed(outputs)
    PROVE  /\ IsPlan(BuildPostingPlan(outputs), outputs.findings)
           /\ Ids(BuildPostingPlan(outputs)) =
                  Ids(outputs.findings) \o Ids(outputs.local_notes) \o Ids(outputs.suggested_replies)
                  \o Ids(outputs.clarification_requests) \o Ids(outputs.suppressed_outputs)
  <1> DEFINE F == outputs.findings
             f == Payload!FindingItems(F)
             l == Payload!LocalItems(outputs.local_notes, "local_note", "local_only")
             r == Payload!LocalItems(outputs.suggested_replies, "suggested_reply", "suggested_reply")
             q == Payload!LocalItems(outputs.clarification_requests, "clarification_request",
                                     "local_only")
             s == Payload!LocalItems(outputs.suppressed_outputs, "suppressed", "local_only")
  <1>1. BuildPostingPlan(outputs) = f \o l \o r \o q \o s
    BY DEF BuildPostingPlan
  <1>2. /\ IsList(F) /\ IsList(outputs.clarification_requests)
        /\ IsList(outputs.local_notes) /\ IsList(outputs.suggested_replies)
        /\ IsList(outputs.suppressed_outputs)
    BY DEF Listed, CollectionNames, NoCollections
  <1>3. IsList(f) /\ IsPlan(f, F) /\ Ids(f) = Ids(F)
    <2>1. f = [i \in DOMAIN F |->
                  Payload!PlanItem(F[i].id, "postable_finding", "review_body_item", F[i].fingerprint)]
      BY DEF Payload!FindingItems
    <2>2. f = [i \in DOMAIN F |-> f[i]]
      BY <2>1
    <2> HIDE DEF f, F
    <2>3. IsList(f) /\ Len(f) = Len(F) /\ DOMAIN f = DOMAIN F
      BY <1>2, <2>2, MappedLength
    <2>4. \A i \in DOMAIN F : f[i].id = F[i].id
      BY <2>1 DEF Payload!PlanItem
    <2>5. Ids(f) = Ids(F)
      BY <2>3, <2>4 DEF Ids
    <2>6. Len(F) <= Len(f)
      BY <1>2, <2>3, ListLength
    <2> QED BY <2>1, <2>3, <2>5, <2>6 DEF IsPlan
  <1>4. ASSUME NEW list, NEW classification, NEW destination \in {"local_only", "suggested_reply"},
               IsList(list)
        PROVE  LET items == Payload!LocalItems(list, classification, destination)
               IN  IsList(items) /\ Ids(items) = Ids(list) /\ \A i \in DOMAIN items : IsLocal(items[i])
    <2> DEFINE items == Payload!LocalItems(list, classification, destination)
    <2>1. items = [i \in DOMAIN list |->
                      Payload!PlanItem(list[i].id, classification, destination, None)]
      BY DEF Payload!LocalItems
    <2>2. items = [i \in DOMAIN list |-> items[i]]
      BY <2>1
    <2> HIDE DEF items
    <2>3. IsList(items) /\ DOMAIN items = DOMAIN list
      BY <1>4, <2>2, MappedLength
    <2>4. \A i \in DOMAIN list : items[i].id = list[i].id
      BY <2>1 DEF Payload!PlanItem
    <2>5. Ids(items) = Ids(list)
      BY <2>3, <2>4 DEF Ids
    <2>6. \A i \in DOMAIN items : IsLocal(items[i])
      <3> SUFFICES ASSUME NEW i \in DOMAIN items PROVE IsLocal(items[i])
        OBVIOUS
      <3>1. items[i] = Payload!PlanItem(list[i].id, classification, destination, None)
        BY <2>1, <2>3
      <3> DEFINE id == list[i].id
      <3>2. items[i] = Payload!PlanItem(id, classification, destination, None)
        BY <3>1
      <3> HIDE DEF id
      <3> QED BY <3>2 DEF IsLocal
    <2> QED BY <2>3, <2>5, <2>6 DEF items
  <1>5. /\ IsList(l) /\ Ids(l) = Ids(outputs.local_notes) /\ \A i \in DOMAIN l : IsLocal(l[i])
        /\ IsList(r) /\ Ids(r) = Ids(outputs.suggested_replies) /\ \A i \in DOMAIN r : IsLocal(r[i])
        /\ IsList(q) /\ Ids(q) = Ids(outputs.clarification_requests)
        /\ \A i \in DOMAIN q : IsLocal(q[i])
        /\ IsList(s) /\ Ids(s) = Ids(outputs.suppressed_outputs) /\ \A i \in DOMAIN s : IsLocal(s[i])
    BY <1>2, <1>4
  <1> HIDE DEF f, l, r, q, s, F
  <1>6. IsPlan(f \o l \o r \o q \o s, F)
    <2>1. IsPlan(f \o l, F)
      BY <1>2, <1>3, <1>5, ExtendedPlan DEF F
    <2>2. IsPlan(f \o l \o r, F)
      BY <1>2, <1>5, <2>1, ExtendedPlan DEF F
    <2>3. IsPlan(f \o l \o r \o q, F)
      BY <1>2, <1>5, <2>2, ExtendedPlan DEF F
    <2> QED BY <1>2, <1>5, <2>3, ExtendedPlan DEF F
  <1>7. Ids(f \o l \o r \o q \o s) = Ids(f) \o Ids(l) \o Ids(r) \o Ids(q) \o Ids(s)
    <2> DEFINE a == f \o l
               b == a \o r
               c == b \o q
    <2>1. IsList(a) /\ Ids(a) = Ids(f) \o Ids(l)
      BY <1>3, <1>5, JoinedIsList, JoinedIds
    <2> HIDE DEF a
    <2>2. IsList(b) /\ Ids(b) = Ids(a) \o Ids(r)
      BY <1>5, <2>1, JoinedIsList, JoinedIds
    <2> HIDE DEF b
    <2>3. IsList(c) /\ Ids(c) = Ids(b) \o Ids(q)
      BY <1>5, <2>2, JoinedIsList, JoinedIds
    <2> HIDE DEF c
    <2>4. Ids(c \o s) = Ids(c) \o Ids(s)
      BY <1>5, <2>3, JoinedIds
    <2> QED BY <2>1, <2>2, <2>3, <2>4, Zenon DEF a, b, c
  <1> QED BY <1>1, <1>3, <1>5, <1>6, <1>7 DEF F

\* A plan without candidates has the same items, none of them public.
LEMMA PlanLocal ==
    ASSUME NEW items, NEW list, IsList(list), IsPlan(items, list)
    PROVE  LET local == Payload!LocalOnlyPostingPlan(items)
           IN  /\ IsList(local) /\ DOMAIN local = DOMAIN items /\ Ids(local) = Ids(items)
               /\ \A i \in DOMAIN local : ~local[i].public_payload_eligible
               /\ \A i \in DOMAIN local : local[i].destination # "top_level_summary_item"
  <1> DEFINE local == Payload!LocalOnlyPostingPlan(items)
             cut(item) == IF item.public_payload_eligible
                          THEN [item EXCEPT !.destination = "local_only",
                                            !.public_payload_eligible = FALSE]
                          ELSE item
  <1>1. local = [i \in DOMAIN items |-> cut(items[i])]
    BY DEF Payload!LocalOnlyPostingPlan
  <1> HIDE DEF local, cut
  <1>2. local = [i \in DOMAIN items |-> local[i]]
    BY <1>1
  <1>3. IsList(local) /\ DOMAIN local = DOMAIN items
    BY <1>2, MappedLength DEF IsPlan
  <1>4. ASSUME NEW i \in DOMAIN items
        PROVE  /\ local[i].id = items[i].id /\ ~local[i].public_payload_eligible
               /\ local[i].destination # "top_level_summary_item"
    <2>1. \E id, classification, fingerprint :
              \E destination \in {"local_only", "suggested_reply", "review_body_item"} :
                  items[i] = Payload!PlanItem(id, classification, destination, fingerprint)
      <3>1. CASE i \in DOMAIN list
        BY <3>1 DEF IsPlan
      <3>2. CASE i \notin DOMAIN list
        BY <3>2 DEF IsPlan, IsLocal
      <3> QED BY <3>1, <3>2
    <2>2. /\ DOMAIN items[i] = {"id", "source_classification", "destination",
                                "public_payload_eligible", "fingerprint"}
          /\ items[i].destination # "top_level_summary_item"
      BY <2>1 DEF Payload!PlanItem
    <2>3. local[i] = cut(items[i])
      BY <1>1
    <2>4. CASE items[i].public_payload_eligible
      <3>1. local[i] = [items[i] EXCEPT !.destination = "local_only",
                                        !.public_payload_eligible = FALSE]
        BY <2>3, <2>4 DEF cut
      <3> QED BY <2>2, <3>1
    <2>5. CASE ~items[i].public_payload_eligible
      BY <2>2, <2>3, <2>5 DEF cut
    <2> QED BY <2>4, <2>5
  <1>5. Ids(local) = Ids(items)
    BY <1>3, <1>4 DEF Ids
  <1> QED BY <1>3, <1>4, <1>5 DEF local

\* The ids of a plan are unique if those of the outputs are.
LEMMA PlanUnique ==
    ASSUME NEW outputs, Listed(outputs), OutputItemIdsUnique(outputs)
    PROVE  /\ IsInjective(Ids(PlanOf(outputs))) /\ IsList(PlanOf(outputs))
           /\ IsInjective(Ids(outputs.findings))
  <1> DEFINE f == Ids(outputs.findings)
             l == Ids(outputs.local_notes)
             r == Ids(outputs.suggested_replies)
             q == Ids(outputs.clarification_requests)
             s == Ids(outputs.suppressed_outputs)
  <1>1. /\ IsList(outputs.findings) /\ IsList(outputs.clarification_requests)
        /\ IsList(outputs.local_notes) /\ IsList(outputs.suggested_replies)
        /\ IsList(outputs.suppressed_outputs)
    BY DEF Listed, CollectionNames, NoCollections
  <1>2. ASSUME NEW list, IsList(list) PROVE IsList(Ids(list))
    BY <1>2, MappedIsList DEF Ids
  <1>3. IsList(f) /\ IsList(l) /\ IsList(r) /\ IsList(q) /\ IsList(s)
    BY <1>1, <1>2
  <1>4. IsInjective(f \o l \o q \o r \o s)
    BY DEF OutputItemIdsUnique, AllIds
  <1>5. Ids(BuildPostingPlan(outputs)) = f \o l \o r \o q \o s
    BY PlanBuilt
  <1> HIDE DEF f, l, r, q, s
  <1>6. IsInjective(f \o l \o r \o q \o s) /\ IsInjective(f)
    <2>1. /\ IsList(f \o l) /\ IsList(f \o l \o q) /\ IsList(f \o l \o q \o r)
          /\ IsList(f \o l \o r) /\ IsList(f \o l \o r \o q)
      BY <1>3, JoinedIsList
    <2>2. /\ IsInjective(f \o l \o q \o r) /\ IsInjective(s)
          /\ Range(f \o l \o q \o r) \cap Range(s) = {}
      BY <1>3, <1>4, <2>1, JoinedInjective
    <2>3. /\ IsInjective(f \o l \o q) /\ IsInjective(r) /\ Range(f \o l \o q) \cap Range(r) = {}
      BY <1>3, <2>1, <2>2, JoinedInjective
    <2>4. /\ IsInjective(f \o l) /\ IsInjective(q) /\ Range(f \o l) \cap Range(q) = {}
      BY <1>3, <2>1, <2>3, JoinedInjective
    <2>5. IsInjective(f)
      BY <1>3, <2>4, JoinedInjective
    <2>6. /\ Range(f \o l \o q) = Range(f \o l) \cup Range(q)
          /\ Range(f \o l \o q \o r) = Range(f \o l \o q) \cup Range(r)
          /\ Range(f \o l \o r) = Range(f \o l) \cup Range(r)
          /\ Range(f \o l \o r \o q) = Range(f \o l \o r) \cup Range(q)
      BY <1>3, <2>1, JoinedLength
    <2>7. IsInjective(f \o l \o r)
      <3>1. Range(f \o l) \cap Range(r) = {}
        BY <2>3, <2>6
      <3> QED BY <1>3, <2>1, <2>3, <2>4, <3>1, JoinedInjective
    <2>8. IsInjective(f \o l \o r \o q)
      <3>1. Range(f \o l \o r) \cap Range(q) = {}
        BY <2>3, <2>4, <2>6
      <3> QED BY <1>3, <2>1, <2>4, <2>7, <3>1, JoinedInjective
    <2>9. Range(f \o l \o r \o q) \cap Range(s) = {}
      BY <2>2, <2>6
    <2> QED BY <1>3, <2>1, <2>2, <2>5, <2>8, <2>9, JoinedInjective
  <1>7. PlanOf(outputs) \in {BuildPostingPlan(outputs),
                             Payload!LocalOnlyPostingPlan(BuildPostingPlan(outputs))}
    BY DEF PlanOf
  <1>8. IsList(PlanOf(outputs)) /\ Ids(PlanOf(outputs)) = Ids(BuildPostingPlan(outputs))
    BY <1>1, <1>7, PlanBuilt, PlanLocal DEF IsPlan
  <1> QED BY <1>5, <1>6, <1>8 DEF f

-----------------------------------------------------------------------------
(***************************************************************************)
(* The plan of a review, and its counters.                                 *)
(***************************************************************************)
PlanInv ==
    IF phase = "presented" THEN ~Raises(classified) /\ plan = PlanOf(classified) ELSE plan = <<>>

CountInv ==
    /\ phase \in {"reading", "reviewing", "presented", "raised", "posting"}
    /\ reviewed \in 0..Len(Reviewers) /\ returned \in Returned \cup {None}
    /\ errors \in 0..reviewed

\* Every step keeps the plan that of the outputs.
LEMMA PlanSteps == PlanInv /\ [MCNext]_vars => PlanInv'
  <1> SUFFICES ASSUME PlanInv, [MCNext]_vars PROVE PlanInv'
    OBVIOUS
  <1>1. ASSUME phase # "presented", phase' # "presented", UNCHANGED plan PROVE PlanInv'
    BY <1>1 DEF PlanInv
  <1>2. ASSUME UNCHANGED <<phase, errors, classified, plan>> PROVE PlanInv'
    BY <1>2 DEF PlanInv, Raises, PlanOf, PostEnabled
  <1>3. ASSUME NEW line \in PatchLines, ReadLine(line) PROVE PlanInv'
    BY <1>1, <1>3 DEF ReadLine
  <1>4. ASSUME NEW input \in Inputs(patch), StartReview(input) PROVE PlanInv'
    BY <1>1, <1>4 DEF StartReview
  <1>5. ASSUME NEW output \in Returned, ReviewerReturns(output) PROVE PlanInv'
    <2>1. phase = "reviewing" /\ phase' \in {"reviewing", "raised"} /\ UNCHANGED plan
      BY <1>5 DEF ReviewerReturns
    <2> QED BY <1>1, <2>1
  <1>6. CASE Present
    <2>1. CASE Raises(Assembled)
      BY <1>1, <1>6, <2>1 DEF Present
    <2>2. CASE ~Raises(Assembled)
      <3> DEFINE outputs == Assembled
      <3>1. /\ phase' = "presented" /\ classified' = outputs /\ plan' = PlanOf(outputs)
            /\ errors' = errors
        BY <1>6, <2>2 DEF Present
      <3>2. ~Raises(outputs)
        BY <2>2
      <3> HIDE DEF outputs
      <3> QED BY <3>1, <3>2 DEF PlanInv, Raises, PlanOf, PostEnabled
    <2> QED BY <2>1, <2>2
  <1>7. ASSUME NEW login \in Logins, StartPosting(login) PROVE PlanInv'
    BY <1>7 DEF StartPosting, PlanInv
  <1>8. ASSUME NEW i \in DOMAIN findings, NEW wording \in Wordings, Reword(i, wording) PROVE PlanInv'
    BY <1>1, <1>8 DEF Reword, reviewVars
  <1>9. CASE AttemptPost
    BY <1>1, <1>9 DEF AttemptPost, reviewVars
  <1>10. CASE UNCHANGED vars
    BY <1>2, <1>10 DEF vars, reviewVars
  <1> QED BY <1>3, <1>4, <1>5, <1>6, <1>7, <1>8, <1>9, <1>10 DEF MCNext, ReviewNext

\* No more errors are counted than reviewers have returned.
LEMMA CountSteps == CountInv /\ [MCNext]_vars => CountInv'
  <1> SUFFICES ASSUME CountInv, [MCNext]_vars PROVE CountInv'
    OBVIOUS
  <1>1. Len(Reviewers) \in Nat
    BY ReviewersAssumption
  <1>2. ASSUME phase' \in {"reviewing", "presented", "raised", "posting"} \/ UNCHANGED phase,
               UNCHANGED <<reviewed, returned, errors>>
        PROVE  CountInv'
    BY <1>2 DEF CountInv
  <1>3. ASSUME NEW line \in PatchLines, ReadLine(line) PROVE CountInv'
    BY <1>2, <1>3 DEF ReadLine
  <1>4. ASSUME NEW input \in Inputs(patch), StartReview(input) PROVE CountInv'
    BY <1>2, <1>4 DEF StartReview
  <1>5. ASSUME NEW output \in Returned, ReviewerReturns(output) PROVE CountInv'
    <2>1. /\ reviewed < Len(Reviewers) /\ reviewed' = reviewed + 1 /\ returned' \in Returned
          /\ errors' \in {errors, errors + 1}
          /\ phase' \in {"reviewing", "raised"}
      BY <1>5 DEF ReviewerReturns
    <2> QED BY <1>1, <2>1 DEF CountInv
  <1>6. CASE Present
    BY <1>2, <1>6 DEF Present
  <1>7. ASSUME NEW login \in Logins, StartPosting(login) PROVE CountInv'
    BY <1>1, <1>7 DEF StartPosting, PostEnabled, CountInv
  <1>8. ASSUME NEW i \in DOMAIN findings, NEW wording \in Wordings, Reword(i, wording) PROVE CountInv'
    BY <1>2, <1>8 DEF Reword, reviewVars
  <1>9. CASE AttemptPost
    BY <1>2, <1>9 DEF AttemptPost, reviewVars
  <1>10. CASE UNCHANGED vars
    BY <1>2, <1>10 DEF vars, reviewVars
  <1> QED BY <1>3, <1>4, <1>5, <1>6, <1>7, <1>8, <1>9, <1>10 DEF MCNext, ReviewNext

-----------------------------------------------------------------------------
(***************************************************************************)
(* A selection of a plan, and what can be proved of it.                    *)
(***************************************************************************)
\* The operators of the plan's module and those of the harness are the same.
LEMMA SameTaken == \A seq, positions : Payload!ElementsAt(seq, positions) = ElementsAt(seq, positions)
  BY DEF Payload!ElementsAt, ElementsAt, Payload!FlattenSeq, FlattenSeq

LEMMA SameCount == \A S : Payload!Cardinality(S) = Cardinality(S)
  BY DEF Payload!Cardinality, Cardinality, Payload!IsFiniteSet, IsFiniteSet

LEMMA SameFound == \A list, id : Payload!FindingById(list, id) = Post!FindingById(list, id)
  BY DEF Payload!FindingById, Post!FindingById, Payload!SelectLastInSeq, Post!SelectLastInSeq,
         Payload!Max, Post!Max

LEMMA SamePayload ==
    ASSUME NEW run_id, NEW target, NEW items, NEW list
    PROVE  /\ Payload!FinalPayload(run_id, target, items, list) = Post!FinalPayload(run_id, target, items, list)
           /\ Payload!ApprovedVisibleBody(target, items, list) = Post!ApprovedVisibleBody(target, items, list)
           /\ Payload!Fingerprints(items) = Post!Fingerprints(items)
  <1>1. Payload!FindingsOf(items, list) = Post!FindingsOf(items, list)
    BY SameFound DEF Payload!FindingsOf, Post!FindingsOf
  <1>2. Payload!Fingerprints(items) = Post!Fingerprints(items)
    BY DEF Payload!Fingerprints, Post!Fingerprints
  <1>3. /\ \A heading, found, marker :
               Payload!Body(heading, target, found, marker) = Post!Body(heading, target, found, marker)
        /\ \A body : Payload!VisibleBodyHash(body) = Post!VisibleBodyHash(body)
        /\ \A body : Payload!FinalPayloadHash(body) = Post!FinalPayloadHash(body)
        /\ Payload!NoMarker = Post!NoMarker
    BY DEF Payload!Body, Post!Body, Payload!VisibleBodyHash, Post!VisibleBodyHash,
           Payload!CanonicalVisibleBody, Post!CanonicalVisibleBody, Payload!NoMarker, Post!NoMarker,
           Payload!FinalPayloadHash, Post!FinalPayloadHash
  <1>4. Payload!ApprovedVisibleBody(target, items, list) = Post!ApprovedVisibleBody(target, items, list)
    BY <1>1, <1>3 DEF Payload!ApprovedVisibleBody, Post!ApprovedVisibleBody
  <1>5. \A visible, prints : Payload!Marker(run_id, target, visible, prints)
                                 = Post!Marker(run_id, target, visible, prints)
    BY <1>3 DEF Payload!Marker, Post!Marker
  <1> QED BY <1>2, <1>3, <1>4, <1>5 DEF Payload!FinalPayload, Post!FinalPayload

\* The fields of an item.
LEMMA ItemFields ==
    ASSUME NEW id, NEW classification, NEW destination, NEW fingerprint
    PROVE  LET item == Payload!PlanItem(id, classification, destination, fingerprint)
           IN  /\ item.id = id /\ item.source_classification = classification
               /\ item.destination = destination /\ item.fingerprint = fingerprint
               /\ item.public_payload_eligible <=>
                      destination \in {"top_level_summary_item", "review_body_item"}
  <1> DEFINE eligible == destination \in {"top_level_summary_item", "review_body_item"}
  <1>1. Payload!PlanItem(id, classification, destination, fingerprint) =
            [id |-> id, source_classification |-> classification, destination |-> destination,
             public_payload_eligible |-> eligible, fingerprint |-> fingerprint]
    BY Zenon DEF Payload!PlanItem
  <1> DEFINE item == Payload!PlanItem(id, classification, destination, fingerprint)
  <1>2. \A value :
            LET record == [id |-> id, source_classification |-> classification,
                           destination |-> destination, public_payload_eligible |-> value,
                           fingerprint |-> fingerprint]
            IN  /\ record.id = id /\ record.source_classification = classification
                /\ record.destination = destination /\ record.fingerprint = fingerprint
                /\ record.public_payload_eligible = value
    OBVIOUS
  <1> HIDE DEF eligible, item
  <1>3. /\ item.id = id /\ item.source_classification = classification
        /\ item.destination = destination /\ item.fingerprint = fingerprint
        /\ item.public_payload_eligible = eligible
    BY <1>1, <1>2, Zenon DEF item
  <1> QED BY <1>3, Zenon DEF eligible, item

\* Under ids that are unique, a finding is found by its own id.
LEMMA FoundById ==
    ASSUME NEW F, IsList(F), IsInjective(Ids(F)), NEW n \in DOMAIN F
    PROVE  Payload!FindingById(F, F[n].id) = n
  <1>1. PICK S : F \in Seq(S)
    BY DEF IsList
  <1>2. Post!IsInjective([i \in DOMAIN F |-> F[i].id])
    BY DEF Post!IsInjective, IsInjective, Ids
  <1>3. Post!FindingById(F, F[n].id) = n
    BY <1>1, <1>2, FoundLast
  <1> QED BY <1>3 DEF Payload!FindingById, Post!FindingById, Payload!SelectLastInSeq,
             Post!SelectLastInSeq, Payload!Max, Post!Max

\* The items of a plan, and which of them are public.
LEMMA PublicOfPlan ==
    ASSUME NEW items, NEW F, IsList(F), IsPlan(items, F), IsInjective(Ids(items))
    PROVE  /\ DOMAIN F \subseteq DOMAIN items
           /\ \A i \in DOMAIN items :
                  /\ items[i].public_payload_eligible <=> i \in DOMAIN F
                  /\ items[i].destination # "top_level_summary_item"
           /\ \A n \in DOMAIN F :
                  /\ items[n].id = F[n].id /\ items[n].fingerprint = F[n].fingerprint
                  /\ Payload!IsPublicFinding(items[n])
           /\ IsList(Payload!PublicPayloadItems(items))
           /\ Range(Payload!PublicPayloadItems(items)) = {items[n] : n \in DOMAIN F}
  <1>1. DOMAIN F \subseteq DOMAIN items
    <2>1. /\ Len(F) \in Nat /\ DOMAIN F = 1..Len(F) /\ Len(items) \in Nat
          /\ DOMAIN items = 1..Len(items) /\ Len(F) <= Len(items)
      BY ListLength DEF IsPlan
    <2> QED BY <2>1
  <1>2. ASSUME NEW i \in DOMAIN items, i \notin DOMAIN F
        PROVE  ~items[i].public_payload_eligible /\ items[i].destination # "top_level_summary_item"
    <2>1. IsLocal(items[i])
      BY <1>2 DEF IsPlan
    <2>2. PICK id, classification : \E destination \in {"local_only", "suggested_reply"} :
              items[i] = Payload!PlanItem(id, classification, destination, None)
      BY <2>1 DEF IsLocal
    <2> QED BY <2>2, ItemFields
  <1>3. ASSUME NEW n \in DOMAIN F
        PROVE  /\ items[n].public_payload_eligible /\ items[n].destination # "top_level_summary_item"
               /\ items[n].id = F[n].id /\ items[n].fingerprint = F[n].fingerprint
               /\ Payload!IsPublicFinding(items[n])
    <2>1. items[n] = Payload!PlanItem(F[n].id, "postable_finding", "review_body_item", F[n].fingerprint)
      BY DEF IsPlan
    <2> QED BY <2>1, ItemFields DEF Payload!IsPublicFinding
  <1>4. {i \in DOMAIN items : items[i].public_payload_eligible} = DOMAIN F
    BY <1>1, <1>2, <1>3
  <1>5. Payload!PublicPayloadItems(items) = ElementsAt(items, DOMAIN F)
    BY <1>4, SameTaken DEF Payload!PublicPayloadItems
  <1>6. /\ IsList(ElementsAt(items, DOMAIN F))
        /\ Range(ElementsAt(items, DOMAIN F)) = {items[n] : n \in DOMAIN F}
    BY <1>1, TakenLength DEF IsPlan
  <1> QED BY <1>1, <1>2, <1>3, <1>5, <1>6

\* A map that takes no value twice has as many values as arguments.
LEMMA CountImage ==
    ASSUME NEW P, IsFiniteSet(P), NEW f, f = [i \in P |-> f[i]], IsInjective(f)
    PROVE  Cardinality({f[i] : i \in P}) = Cardinality(P)
  <1> DEFINE T == {f[i] : i \in P}
  <1>1. f \in [P -> T]
    OBVIOUS
  <1>2. f \in Surjection(P, T)
    BY <1>1 DEF Surjection
  <1>3. f \in Injection(P, T)
    BY <1>1 DEF Injection
  <1> HIDE DEF T
  <1>4. Cardinality(T) = Cardinality(P)
    BY <1>2, <1>3, FS_Surjection
  <1> QED BY <1>4 DEF T

\* Ids of a plan, each named once, select as many items.
LEMMA SelectedItems ==
    ASSUME NEW items, IsList(items), IsInjective(Ids(items)),
           NEW ids, IsList(ids), Range(ids) \subseteq {items[i].id : i \in DOMAIN items}
    PROVE  LET P == {i \in DOMAIN items : items[i].id \in Range(ids)}
               selected == Payload!Selected(items, ids)
           IN  /\ IsList(selected) /\ Range(selected) = {items[i] : i \in P}
               /\ Len(selected) = Cardinality(P) /\ IsFiniteSet(P)
               /\ IsInjective(ids) => Len(selected) = Len(ids)
               /\ ids # <<>> => selected # <<>>
  <1> DEFINE P == {i \in DOMAIN items : items[i].id \in Range(ids)}
             selected == Payload!Selected(items, ids)
  <1>1. P \subseteq DOMAIN items
    OBVIOUS
  <1>2. selected = ElementsAt(items, P)
    BY SameTaken DEF Payload!Selected, Payload!Range, Range
  <1> HIDE DEF selected
  <1>3. /\ IsList(selected) /\ Range(selected) = {items[i] : i \in P}
        /\ Len(selected) = Cardinality(P) /\ IsFiniteSet(P)
    <2> HIDE DEF P
    <2> QED BY <1>1, <1>2, TakenLength
  <1>4. ASSUME IsInjective(ids) PROVE Len(selected) = Len(ids)
    <2> DEFINE f == [i \in P |-> items[i].id]
    <2>1. {f[i] : i \in P} = Range(ids)
      OBVIOUS
    <2>2. IsInjective(f)
      BY DEF IsInjective, Ids
    <2>3. f = [i \in P |-> f[i]]
      OBVIOUS
    <2>4. Cardinality({f[i] : i \in P}) = Cardinality(P)
      <3> HIDE DEF f, P
      <3> QED BY <1>3, <2>2, <2>3, CountImage
    <2>5. ids = [k \in DOMAIN ids |-> ids[k]]
      BY DEF IsList
    <2>6. IsFiniteSet(DOMAIN ids) /\ Cardinality(DOMAIN ids) = Len(ids)
      BY ListLength
    <2>7. Cardinality({ids[k] : k \in DOMAIN ids}) = Cardinality(DOMAIN ids)
      BY <1>4, <2>5, <2>6, CountImage
    <2>8. {ids[k] : k \in DOMAIN ids} = Range(ids)
      BY DEF Range
    <2> QED BY <1>3, <2>1, <2>4, <2>6, <2>7, <2>8
  <1>5. ASSUME ids # <<>> PROVE selected # <<>>
    <2>1. 1 \in DOMAIN ids
      BY <1>5 DEF IsList
    <2>2. PICK i \in DOMAIN items : items[i].id = ids[1]
      BY <2>1 DEF Range
    <2>3. i \in P
      BY <2>1, <2>2 DEF Range
    <2> HIDE DEF P
    <2>4. items[i] \in Range(selected)
      BY <1>3, <2>3
    <2> QED BY <2>4 DEF Range
  <1> QED BY <1>3, <1>4, <1>5 DEF selected

\* A selection is proved if nothing is wrong with it.
LEMMA FailureNone ==
    ASSUME NEW ids, NEW target, NEW items, NEW F, NEW candidate,
           IsList(Payload!Selected(items, ids))
    PROVE  LET selected == Payload!Selected(items, ids)
           IN  Payload!ProofFailure(ids, target, items, F, candidate) = None <=>
                   /\ \A i \in DOMAIN items : items[i].destination # "top_level_summary_item"
                   /\ ids # <<>> /\ IsInjective(ids)
                   /\ ~(Len(selected) < Len(ids))
                   /\ \A k \in DOMAIN selected : /\ Payload!IsPublicFinding(selected[k])
                                                 /\ Payload!FindingFits(selected[k], F)
                   /\ ~(Cardinality(Payload!Fingerprints(selected)) < Len(selected))
                   /\ Payload!CandidateValid(candidate, target, items, F)
  <1> DEFINE selected == Payload!Selected(items, ids)
             I == {k \in 1..Len(selected) : ~Payload!IsPublicFinding(selected[k])
                                            \/ ~Payload!FindingFits(selected[k], F)}
             bad == IF I # {} THEN Payload!Min(I) ELSE 0
             summary == \E i \in DOMAIN items : items[i].destination = "top_level_summary_item"
             twice == ~IsInjective(ids)
             missing == Len(selected) < Len(ids)
             private == bad > 0 /\ ~Payload!IsPublicFinding(selected[bad])
             shared == Cardinality(Payload!Fingerprints(selected)) < Len(selected)
             invalid == ~Payload!CandidateValid(candidate, target, items, F)
             failure == Payload!ProofFailure(ids, target, items, F, candidate)
  <1>1. failure =
            IF summary THEN "summary_item_deferred"
            ELSE IF ids = <<>> THEN "empty_approval"
            ELSE IF twice THEN "duplicate_approved_fingerprint"
            ELSE IF missing THEN "unknown_approved_id"
            ELSE IF private THEN "non_public_destination"
            ELSE IF bad > 0 THEN "unknown_approved_id"
            ELSE IF shared THEN "duplicate_approved_fingerprint"
            ELSE IF invalid THEN "candidate_binding_mismatch"
            ELSE None
    <2> DEFINE first == Payload!SelectInSeq(selected,
                            LAMBDA item : ~Payload!IsPublicFinding(item) \/ ~Payload!FindingFits(item, F))
    <2>1. first = bad
      BY DEF Payload!SelectInSeq
    <2>2. Payload!IsInjective(ids) <=> IsInjective(ids)
      BY DEF Payload!IsInjective, IsInjective
    <2>3. failure =
              IF summary THEN "summary_item_deferred"
              ELSE IF ids = <<>> THEN "empty_approval"
              ELSE IF ~Payload!IsInjective(ids) THEN "duplicate_approved_fingerprint"
              ELSE IF missing THEN "unknown_approved_id"
              ELSE IF first > 0 /\ ~Payload!IsPublicFinding(selected[first])
              THEN "non_public_destination"
              ELSE IF first > 0 THEN "unknown_approved_id"
              ELSE IF shared THEN "duplicate_approved_fingerprint"
              ELSE IF invalid THEN "candidate_binding_mismatch"
              ELSE None
      BY SameCount, Zenon DEF Payload!ProofFailure
    <2> HIDE DEF failure, first, bad, summary, missing, shared, invalid, selected
    <2> QED BY <2>1, <2>2, <2>3, Zenon
  <1>2. bad > 0 <=> I # {}
    <2>1. CASE I # {}
      <3>1. PICK k \in I : \A m \in I : k <= m
        <4>1. I \in SUBSET Nat
          OBVIOUS
        <4> HIDE DEF I
        <4> QED BY <2>1, <4>1, LeastOf
      <3>2. Payload!Min(I) \in I
        <4> HIDE DEF I
        <4> QED BY <3>1 DEF Payload!Min
      <3> QED BY <2>1, <3>2
    <2>2. CASE I = {}
      BY <2>2
    <2> QED BY <2>1, <2>2
  <1>3. I = {} <=> \A k \in DOMAIN selected : /\ Payload!IsPublicFinding(selected[k])
                                              /\ Payload!FindingFits(selected[k], F)
    <2>1. DOMAIN selected = 1..Len(selected)
      BY ListLength
    <2> QED BY <2>1
  <1>4. private => bad > 0
    OBVIOUS
  <1> HIDE DEF selected, I, bad, summary, twice, missing, private, shared, invalid, failure
  <1>5. None \notin {"summary_item_deferred", "empty_approval", "duplicate_approved_fingerprint",
                     "unknown_approved_id", "non_public_destination", "candidate_binding_mismatch"}
    BY MCReviewDataAssumption DEF Post!ProofReasons
  <1>6. failure = None <=>
            ~summary /\ ids # <<>> /\ ~twice /\ ~missing /\ ~(bad > 0) /\ ~shared /\ ~invalid
    BY <1>1, <1>4, <1>5, Zenon
  <1> QED BY <1>2, <1>3, <1>6 DEF selected, summary, twice, missing, shared, invalid, failure

\* The findings that items stand for are those with their ids.
LEMMA FindingsFound ==
    ASSUME NEW F, IsList(F), IsInjective(Ids(F)), NEW chosen
    PROVE  /\ DOMAIN Payload!FindingsOf(chosen, F) = DOMAIN chosen
           /\ \A k \in DOMAIN chosen : \A n \in DOMAIN F :
                  chosen[k].id = F[n].id => Payload!FindingsOf(chosen, F)[k] = F[n]
  <1>1. \A k \in DOMAIN chosen : Payload!FindingsOf(chosen, F)[k] = F[Payload!FindingById(F, chosen[k].id)]
    BY DEF Payload!FindingsOf
  <1>2. \A n \in DOMAIN F : Payload!FindingById(F, F[n].id) = n
    BY FoundById
  <1>3. DOMAIN Payload!FindingsOf(chosen, F) = DOMAIN chosen
    BY DEF Payload!FindingsOf
  <1> QED BY <1>1, <1>2, <1>3

\* The lines of a body, and when one of them is a marker.
LEMMA BodyLines ==
    ASSUME NEW heading, NEW target, NEW found
    PROVE  LET body == Payload!Body(heading, target, found, Payload!NoMarker)
           IN  /\ DOMAIN body.lines = DOMAIN found
               /\ \A k \in DOMAIN found : body.lines[k][1] = found[k].fingerprint
               /\ Payload!ContainsMarkerLine(body) <=> \E k \in DOMAIN found : found[k].body = "marker"
  <1> DEFINE body == Payload!Body(heading, target, found, Payload!NoMarker)
  <1>1. /\ body.marker = Payload!NoMarker
        /\ body.lines = [k \in DOMAIN found |-> <<found[k].fingerprint, found[k].body>>]
    BY DEF Payload!Body
  <1> HIDE DEF body
  <1>2. /\ DOMAIN body.lines = DOMAIN found
        /\ \A k \in DOMAIN found : /\ body.lines[k][1] = found[k].fingerprint
                                   /\ body.lines[k][2] = found[k].body
    BY <1>1
  <1>3. Payload!ContainsMarkerLine(body) <=> \E k \in DOMAIN found : found[k].body = "marker"
    BY <1>1, <1>2 DEF Payload!ContainsMarkerLine
  <1> QED BY <1>2, <1>3 DEF body

\* A candidate that was built is valid if no finding carries a marker.
LEMMA CandidateOfPlan ==
    ASSUME NEW items, NEW F, NEW target, IsList(F), IsPlan(items, F), IsInjective(Ids(items)),
           IsInjective(Ids(F)), ~Payload!CandidateRefused(items, F)
    PROVE  Payload!CandidateValid(Payload!CandidatePayload(target, items, F), target, items, F) <=>
               ~\E n \in DOMAIN F : F[n].body = "marker"
  <1> DEFINE public == Payload!PublicPayloadItems(items)
             found == Payload!FindingsOf(public, F)
             body == Payload!Body("candidate", target, found, Payload!NoMarker)
             candidate == Payload!CandidatePayload(target, items, F)
  <1>1. /\ candidate.target = target /\ candidate.body = body
        /\ candidate.visible_body_hash = Payload!VisibleBodyHash(candidate.body)
        /\ candidate.findings_hash = candidate.item_fingerprints
    BY DEF Payload!CandidatePayload
  <1>2. /\ IsList(public) /\ Range(public) = {items[n] : n \in DOMAIN F}
        /\ \A n \in DOMAIN F : items[n].id = F[n].id
    BY PublicOfPlan
  <1> HIDE DEF public, candidate
  <1>3. /\ DOMAIN found = DOMAIN public
        /\ \A k \in DOMAIN public : \A n \in DOMAIN F : public[k].id = F[n].id => found[k] = F[n]
    BY FindingsFound
  <1> HIDE DEF found
  <1>4. \A k \in DOMAIN found : \E n \in DOMAIN F : found[k] = F[n]
    BY <1>2, <1>3 DEF Range
  <1>5. \A n \in DOMAIN F : \E k \in DOMAIN found : found[k] = F[n]
    <2> SUFFICES ASSUME NEW n \in DOMAIN F PROVE \E k \in DOMAIN found : found[k] = F[n]
      OBVIOUS
    <2>1. items[n] \in Range(public)
      BY <1>2
    <2>2. PICK k \in DOMAIN public : public[k] = items[n]
      BY <2>1 DEF Range
    <2> QED BY <1>2, <1>3, <2>2
  <1>6. Payload!ContainsMarkerLine(body) <=> \E n \in DOMAIN F : F[n].body = "marker"
    BY <1>4, <1>5, BodyLines
  <1> HIDE DEF body
  <1> QED BY <1>1, <1>6, Zenon DEF Payload!CandidateValid, candidate

\* Without public items nothing can be proved.
LEMMA Unprovable ==
    ASSUME NEW items, NEW F, NEW target, NEW candidate, IsList(items), IsInjective(Ids(items)),
           \A i \in DOMAIN items : ~items[i].public_payload_eligible,
           NEW ids, IsList(ids), Range(ids) \subseteq {items[i].id : i \in DOMAIN items}
    PROVE  Payload!ProofFailure(ids, target, items, F, candidate) # None
  <1> SUFFICES ASSUME Payload!ProofFailure(ids, target, items, F, candidate) = None PROVE FALSE
    OBVIOUS
  <1> DEFINE selected == Payload!Selected(items, ids)
  <1>1. /\ IsList(selected)
        /\ Range(selected) = {items[i] : i \in {i \in DOMAIN items : items[i].id \in Range(ids)}}
        /\ ids # <<>> => selected # <<>>
    BY SelectedItems
  <1>2. ids # <<>> /\ \A k \in DOMAIN selected : Payload!IsPublicFinding(selected[k])
    BY <1>1, FailureNone
  <1> HIDE DEF selected
  <1>3. 1 \in DOMAIN selected
    BY <1>1, <1>2 DEF IsList
  <1>4. selected[1] \in Range(selected)
    BY <1>3 DEF Range
  <1>5. PICK i \in DOMAIN items : selected[1] = items[i]
    BY <1>1, <1>4
  <1> QED BY <1>2, <1>3, <1>5 DEF Payload!IsPublicFinding

\* What a plan has candidates for can be proved if a person may approve it.
LEMMA Provable ==
    ASSUME NEW items, NEW F, NEW target, IsList(F), IsPlan(items, F), IsInjective(Ids(items)),
           IsInjective(Ids(F)), FindingFingerprintsUnique(F), ~Payload!CandidateRefused(items, F),
           NEW ids, IsList(ids), Range(ids) \subseteq {items[i].id : i \in DOMAIN items}
    PROVE  LET candidate == Payload!CandidatePayload(target, items, F)
           IN  Payload!ProofFailure(ids, target, items, F, candidate) = None <=>
                   /\ ids # <<>> /\ IsInjective(ids) /\ Range(ids) \subseteq Range(Ids(F))
                   /\ ~\E n \in DOMAIN F : F[n].body = "marker"
  <1> DEFINE P == {i \in DOMAIN items : items[i].id \in Range(ids)}
             selected == Payload!Selected(items, ids)
             public == Payload!PublicPayloadItems(items)
             candidate == Payload!CandidatePayload(target, items, F)
  <1>1. IsList(items)
    BY DEF IsPlan
  <1>2. /\ IsList(selected) /\ Range(selected) = {items[i] : i \in P}
        /\ Len(selected) = Cardinality(P) /\ IsFiniteSet(P)
        /\ IsInjective(ids) => Len(selected) = Len(ids)
    BY <1>1, SelectedItems
  <1>3. /\ DOMAIN F \subseteq DOMAIN items
        /\ \A i \in DOMAIN items :
               /\ items[i].public_payload_eligible <=> i \in DOMAIN F
               /\ items[i].destination # "top_level_summary_item"
        /\ \A n \in DOMAIN F :
               /\ items[n].id = F[n].id /\ items[n].fingerprint = F[n].fingerprint
               /\ Payload!IsPublicFinding(items[n])
        /\ Range(public) = {items[n] : n \in DOMAIN F}
    BY PublicOfPlan
  <1>4. \A n \in DOMAIN F : Payload!FindingFits(items[n], F)
    <2> SUFFICES ASSUME NEW n \in DOMAIN F PROVE Payload!FindingFits(items[n], F)
      OBVIOUS
    <2>1. \A k \in DOMAIN public : Payload!PublicItemFits(public[k], F)
      BY DEF Payload!CandidateRefused
    <2> HIDE DEF public
    <2>2. items[n] \in Range(public)
      BY <1>3
    <2>3. PICK k \in DOMAIN public : public[k] = items[n]
      BY <2>2 DEF Range
    <2>4. Payload!PublicItemFits(items[n], F)
      BY <2>1, <2>3
    <2> QED BY <2>4 DEF Payload!PublicItemFits
  <1> HIDE DEF selected, candidate, public
  <1>5. P \subseteq DOMAIN F <=>
            \A k \in DOMAIN selected : /\ Payload!IsPublicFinding(selected[k])
                                       /\ Payload!FindingFits(selected[k], F)
    <2>1. ASSUME P \subseteq DOMAIN F, NEW k \in DOMAIN selected
          PROVE  Payload!IsPublicFinding(selected[k]) /\ Payload!FindingFits(selected[k], F)
      <3>1. selected[k] \in Range(selected)
        BY DEF Range
      <3>2. PICK i \in P : selected[k] = items[i]
        <4> HIDE DEF P
        <4> QED BY <1>2, <3>1
      <3>3. i \in DOMAIN F
        BY <2>1
      <3> QED BY <1>3, <1>4, <3>2, <3>3
    <2>2. ASSUME \A k \in DOMAIN selected : Payload!IsPublicFinding(selected[k]), NEW i \in P
          PROVE  i \in DOMAIN F
      <3> HIDE DEF P
      <3>1. items[i] \in Range(selected)
        BY <1>2
      <3>2. Payload!IsPublicFinding(items[i])
        BY <2>2, <3>1 DEF Range
      <3> QED BY <1>3, <3>2 DEF Payload!IsPublicFinding, P
    <2> QED BY <2>1, <2>2
  <1>6. P \subseteq DOMAIN F <=> Range(ids) \subseteq Range(Ids(F))
    <2>1. Range(Ids(F)) = {F[n].id : n \in DOMAIN F}
      BY DEF Range, Ids
    <2>2. ASSUME P \subseteq DOMAIN F, NEW id \in Range(ids) PROVE id \in Range(Ids(F))
      <3>1. PICK i \in DOMAIN items : items[i].id = id
        OBVIOUS
      <3>2. i \in DOMAIN F
        BY <2>2, <3>1
      <3> QED BY <1>3, <2>1, <3>1, <3>2
    <2>3. ASSUME Range(ids) \subseteq Range(Ids(F)), NEW i \in P PROVE i \in DOMAIN F
      <3>1. PICK n \in DOMAIN F : items[i].id = F[n].id
        BY <2>1, <2>3
      <3>2. items[i].id = items[n].id /\ n \in DOMAIN items /\ i \in DOMAIN items
        BY <1>3, <3>1
      <3>3. i = n
        BY <3>2 DEF IsInjective, Ids
      <3> QED BY <3>3
    <2> QED BY <2>2, <2>3
  <1>7. ASSUME P \subseteq DOMAIN F
        PROVE  Cardinality(Payload!Fingerprints(selected)) = Len(selected)
    <2> DEFINE f == [i \in P |-> F[i].fingerprint]
    <2>1. IsInjective(f)
      <3> SUFFICES ASSUME NEW a \in P, NEW b \in P, F[a].fingerprint = F[b].fingerprint PROVE a = b
        BY DEF IsInjective
      <3>1. a \in DOMAIN F /\ b \in DOMAIN F
        BY <1>7
      <3> QED BY <3>1 DEF FindingFingerprintsUnique, IsInjective
    <2>2. f = [i \in P |-> f[i]]
      OBVIOUS
    <2>3. Cardinality({f[i] : i \in P}) = Cardinality(P)
      <3> HIDE DEF f, P
      <3> QED BY <1>2, <2>1, <2>2, CountImage
    <2>4. \A i \in P : f[i] = items[i].fingerprint
      <3> SUFFICES ASSUME NEW i \in P PROVE F[i].fingerprint = items[i].fingerprint
        OBVIOUS
      <3>1. i \in DOMAIN F
        BY <1>7
      <3> QED BY <1>3, <3>1
    <2>5. {f[i] : i \in P} = Payload!Fingerprints(selected)
      <3> HIDE DEF f, P
      <3>1. Payload!Fingerprints(selected) = {item.fingerprint : item \in Range(selected)}
        BY DEF Payload!Fingerprints, Range
      <3>2. {item.fingerprint : item \in Range(selected)} = {items[i].fingerprint : i \in P}
        BY <1>2
      <3> QED BY <2>4, <3>1, <3>2
    <2> QED BY <1>2, <2>3, <2>5
  <1>8. Payload!CandidateValid(candidate, target, items, F) <=>
            ~\E n \in DOMAIN F : F[n].body = "marker"
    BY CandidateOfPlan DEF candidate
  <1> DEFINE failure == Payload!ProofFailure(ids, target, items, F, candidate)
  <1>9. failure = None <=>
            /\ \A i \in DOMAIN items : items[i].destination # "top_level_summary_item"
            /\ ids # <<>> /\ IsInjective(ids)
            /\ ~(Len(selected) < Len(ids))
            /\ \A k \in DOMAIN selected : /\ Payload!IsPublicFinding(selected[k])
                                          /\ Payload!FindingFits(selected[k], F)
            /\ ~(Cardinality(Payload!Fingerprints(selected)) < Len(selected))
            /\ Payload!CandidateValid(candidate, target, items, F)
    BY <1>2, FailureNone, Zenon DEF selected
  <1>10. Len(selected) \in Nat /\ Len(ids) \in Nat
    BY <1>2, ListLength
  <1> DEFINE count == Cardinality(Payload!Fingerprints(selected))
  <1>11. /\ IsInjective(ids) => ~(Len(selected) < Len(ids))
         /\ P \subseteq DOMAIN F => ~(count < Len(selected))
    BY <1>2, <1>7, <1>10
  <1> HIDE DEF P, failure
  <1> QED BY <1>3, <1>5, <1>6, <1>8, <1>9, <1>11, Zenon DEF failure, candidate

\* The comment of a selection, as its plan's module has it.
LEMMA CommentWritten ==
    ASSUME NEW run_id, NEW target, NEW selected, NEW F
    PROVE  LET payload == Payload!FinalPayload(run_id, target, selected, F)
               visible == Payload!ApprovedVisibleBody(target, selected, F)
               prints == Payload!Fingerprints(selected)
           IN  /\ payload.body = [heading |-> "approved", target |-> target, lines |-> visible.lines,
                     marker |-> [run_id |-> run_id, target |-> target, payload |-> visible,
                                 findings |-> prints]]
               /\ payload.marker_line = payload.body.marker
               /\ payload.target = target /\ payload.marker_target = target
               /\ payload.marker_run_id = run_id /\ payload.marker_payload = visible
               /\ payload.marker_findings = prints /\ payload.findings_hash = prints
               /\ payload.item_fingerprints = prints
               /\ payload.visible_body_hash = visible
               /\ payload.final_payload_hash = Payload!FinalPayloadHash(payload.body)
               /\ Payload!CanonicalVisibleBody(payload.body) = visible
  <1> DEFINE payload == Payload!FinalPayload(run_id, target, selected, F)
             visible == Payload!ApprovedVisibleBody(target, selected, F)
             prints == Payload!Fingerprints(selected)
  <1>1. /\ visible = [heading |-> "approved", target |-> target, marker |-> Post!NoMarker,
                      lines |-> visible.lines]
        /\ payload.body = [heading |-> "approved", target |-> target, lines |-> visible.lines,
              marker |-> [run_id |-> run_id, target |-> target, payload |-> visible,
                          findings |-> prints]]
        /\ payload.marker_target = target
        /\ payload.marker_findings = prints
        /\ payload.target = target /\ payload.marker_run_id = run_id
        /\ payload.marker_line = payload.body.marker
        /\ Post!CanonicalVisibleBody(payload.body) = visible
    <2> DEFINE p == Post!FinalPayload(run_id, target, selected, F)
               v == Post!ApprovedVisibleBody(target, selected, F)
               s == Post!Fingerprints(selected)
    <2>1. payload = p /\ visible = v /\ prints = s
      BY SamePayload
    <2>2. /\ v = [heading |-> "approved", target |-> target, marker |-> Post!NoMarker,
                  lines |-> v.lines]
          /\ p.body = [heading |-> "approved", target |-> target, lines |-> v.lines,
                marker |-> [run_id |-> run_id, target |-> target, payload |-> v, findings |-> s]]
          /\ p.marker_target = target /\ p.marker_findings = s
          /\ p.target = target /\ p.marker_run_id = run_id
          /\ p.marker_line = p.body.marker
          /\ Post!CanonicalVisibleBody(p.body) = v
      BY FinalBody
    <2> HIDE DEF p, v, s, payload, visible, prints
    <2> QED BY <2>1, <2>2
  <1>2. \A body : Payload!VisibleBodyHash(body) = Post!CanonicalVisibleBody(body)
                  /\ Payload!CanonicalVisibleBody(body) = Post!CanonicalVisibleBody(body)
    BY DEF Payload!VisibleBodyHash, Payload!CanonicalVisibleBody, Post!CanonicalVisibleBody,
           Payload!NoMarker, Post!NoMarker
  <1>3. Post!CanonicalVisibleBody(visible) = visible
    <2> HIDE DEF visible
    <2>1. [visible EXCEPT !.marker = Post!NoMarker] = visible
      BY <1>1
    <2> QED BY <2>1 DEF Post!CanonicalVisibleBody
  <1>4. /\ payload.marker_payload = Payload!VisibleBodyHash(visible)
        /\ payload.visible_body_hash = Payload!VisibleBodyHash(payload.body)
        /\ payload.final_payload_hash = Payload!FinalPayloadHash(payload.body)
        /\ payload.findings_hash = prints /\ payload.item_fingerprints = prints
    BY DEF Payload!FinalPayload
  <1> HIDE DEF payload, visible, prints
  <1> QED BY <1>1, <1>2, <1>3, <1>4, Zenon DEF payload, visible, prints

\* A comment lists the findings with these ids.
ListsJust(payload, list, ids) ==
    {payload.body.lines[i][1] : i \in DOMAIN payload.body.lines}
        = {finding.fingerprint : finding \in {f \in Range(list) : f.id \in Range(ids)}}

\* A selection of findings without markers stands for a valid comment that lists just them.
LEMMA ProvedComment ==
    ASSUME NEW items, NEW F, NEW target, NEW run_id, run_id # None,
           IsList(F), IsPlan(items, F), IsInjective(Ids(items)), IsInjective(Ids(F)),
           NEW ids, IsList(ids), ids # <<>>, Range(ids) \subseteq Range(Ids(F)),
           ~\E n \in DOMAIN F : F[n].body = "marker"
    PROVE  LET selected == Payload!Selected(items, ids)
               payload == Payload!FinalPayload(run_id, target, selected, F)
           IN  /\ Payload!ProofConsistent(Payload!ApprovalProof(run_id, ids, target, items, F))
               /\ Payload!FinalPayloadValid(payload)
               /\ ListsJust(payload, F, ids)
  <1> DEFINE selected == Payload!Selected(items, ids)
             payload == Payload!FinalPayload(run_id, target, selected, F)
             proof == Payload!ApprovalProof(run_id, ids, target, items, F)
             found == Payload!FindingsOf(selected, F)
             visible == Payload!ApprovedVisibleBody(target, selected, F)
             prints == Payload!Fingerprints(selected)
             P == {i \in DOMAIN items : items[i].id \in Range(ids)}
  <1>1. /\ DOMAIN F \subseteq DOMAIN items
        /\ \A n \in DOMAIN F : items[n].id = F[n].id
    BY PublicOfPlan
  <1>2. Range(Ids(F)) = {F[n].id : n \in DOMAIN F}
    BY DEF Range, Ids
  <1>3. /\ IsList(selected) /\ Range(selected) = {items[i] : i \in P} /\ selected # <<>>
    <2>1. Range(ids) \subseteq {items[i].id : i \in DOMAIN items}
      BY <1>1, <1>2
    <2>2. IsList(items)
      BY DEF IsPlan
    <2> QED BY <2>1, <2>2, SelectedItems
  <1>4. P = {n \in DOMAIN F : F[n].id \in Range(ids)}
    <2>1. ASSUME NEW i \in P PROVE i \in DOMAIN F
      <3>1. PICK n \in DOMAIN F : items[i].id = F[n].id
        BY <1>2
      <3>2. items[i].id = items[n].id /\ n \in DOMAIN items /\ i \in DOMAIN items
        BY <1>1, <3>1
      <3>3. i = n
        BY <3>2 DEF IsInjective, Ids
      <3> QED BY <3>3
    <2> QED BY <1>1, <2>1
  <1>5. visible = Payload!Body("approved", target, found, Payload!NoMarker)
    BY DEF Payload!ApprovedVisibleBody
  <1>6. /\ DOMAIN found = DOMAIN selected
        /\ \A k \in DOMAIN selected : \A n \in DOMAIN F : selected[k].id = F[n].id => found[k] = F[n]
    BY FindingsFound
  <1>7. /\ DOMAIN visible.lines = DOMAIN found
        /\ \A k \in DOMAIN found : visible.lines[k][1] = found[k].fingerprint
        /\ Payload!ContainsMarkerLine(visible) <=> \E k \in DOMAIN found : found[k].body = "marker"
    <2> DEFINE body == Payload!Body("approved", target, found, Payload!NoMarker)
    <2>1. /\ DOMAIN body.lines = DOMAIN found
          /\ \A k \in DOMAIN found : body.lines[k][1] = found[k].fingerprint
          /\ Payload!ContainsMarkerLine(body) <=> \E k \in DOMAIN found : found[k].body = "marker"
      BY BodyLines
    <2>2. visible = body
      BY <1>5
    <2> HIDE DEF body, visible, found
    <2> QED BY <2>1, <2>2
  <1>8. /\ payload.body = [heading |-> "approved", target |-> target, lines |-> visible.lines,
              marker |-> [run_id |-> run_id, target |-> target, payload |-> visible,
                          findings |-> prints]]
        /\ payload.marker_line = payload.body.marker
        /\ payload.target = target /\ payload.marker_target = target
        /\ payload.marker_run_id = run_id /\ payload.marker_payload = visible
        /\ payload.marker_findings = prints /\ payload.findings_hash = prints
        /\ payload.item_fingerprints = prints
        /\ payload.visible_body_hash = visible
        /\ payload.final_payload_hash = Payload!FinalPayloadHash(payload.body)
        /\ Payload!CanonicalVisibleBody(payload.body) = visible
    <2> HIDE DEF selected
    <2> QED BY CommentWritten
  <1>9. /\ proof.approved_item_ids = [k \in DOMAIN selected |-> selected[k].id]
        /\ proof.target = target
        /\ proof.final_visible_body_hash = Payload!VisibleBodyHash(payload.body)
        /\ proof.marker_payload_hash = payload.marker_payload
        /\ proof.findings_hash = payload.findings_hash
        /\ proof.marker_line = payload.marker_line
    BY DEF Payload!ApprovalProof
  <1> HIDE DEF selected, payload, proof, found, visible, prints, P
  <1>10. \A k \in DOMAIN selected : \E n \in P : n \in DOMAIN F /\ selected[k] = items[n] /\ found[k] = F[n]
    <2> SUFFICES ASSUME NEW k \in DOMAIN selected
                 PROVE  \E n \in P : n \in DOMAIN F /\ selected[k] = items[n] /\ found[k] = F[n]
      OBVIOUS
    <2>1. selected[k] \in Range(selected)
      BY DEF Range
    <2>2. PICK n \in P : selected[k] = items[n]
      BY <1>3, <2>1
    <2>3. n \in DOMAIN F
      BY <1>4
    <2> QED BY <1>1, <1>6, <2>2, <2>3
  <1>11. \A n \in P : \E k \in DOMAIN selected : found[k] = F[n]
    <2> SUFFICES ASSUME NEW n \in P PROVE \E k \in DOMAIN selected : found[k] = F[n]
      OBVIOUS
    <2>1. items[n] \in Range(selected) /\ n \in DOMAIN F
      BY <1>3, <1>4
    <2>2. PICK k \in DOMAIN selected : selected[k] = items[n]
      BY <2>1 DEF Range
    <2> QED BY <1>1, <1>6, <2>1, <2>2
  <1>12. {payload.body.lines[k][1] : k \in DOMAIN payload.body.lines}
             = {finding.fingerprint : finding \in {f \in Range(F) : f.id \in Range(ids)}}
    <2>1. payload.body.lines = visible.lines
      BY <1>8
    <2>2. {visible.lines[k][1] : k \in DOMAIN visible.lines} = {found[k].fingerprint : k \in DOMAIN selected}
      BY <1>6, <1>7
    <2>3. {found[k].fingerprint : k \in DOMAIN selected} = {F[n].fingerprint : n \in P}
      BY <1>10, <1>11
    <2>4. {f \in Range(F) : f.id \in Range(ids)} = {F[n] : n \in P}
      BY <1>4 DEF Range
    <2> DEFINE S == {f \in Range(F) : f.id \in Range(ids)}
    <2> HIDE DEF S
    <2>5. {finding.fingerprint : finding \in S} = {F[n].fingerprint : n \in P}
      BY <2>4 DEF S
    <2> QED BY <2>1, <2>2, <2>3, <2>5 DEF S
  <1>13. ~Payload!ContainsMarkerLine(visible)
    BY <1>6, <1>7, <1>10
  <1>14. Payload!VisibleBodyHash(payload.body) = visible
    BY <1>8 DEF Payload!VisibleBodyHash
  <1>15. payload.marker_line = [run_id |-> run_id, target |-> target, payload |-> visible,
                                findings |-> prints]
    BY <1>8
  <1>16. Payload!FinalPayloadValid(payload)
    <2>1. payload.marker_line # Payload!NoMarker
      <3>1. payload.marker_line.run_id = run_id
        BY <1>15
      <3>2. Payload!NoMarker.run_id = None
        BY DEF Payload!NoMarker
      <3> QED BY <3>1, <3>2
    <2>2. Payload!MarkerValid(payload)
      BY <1>8, <1>13, <1>14, <1>15, <2>1 DEF Payload!MarkerValid
    <2> QED BY <1>8, <1>14, <2>2 DEF Payload!FinalPayloadValid
  <1>17. Payload!ProofConsistent(proof)
    <2>1. proof.approved_item_ids # <<>>
      <3>1. 1 \in DOMAIN selected
        BY <1>3 DEF IsList
      <3>2. 1 \in DOMAIN proof.approved_item_ids
        BY <1>9, <3>1
      <3> QED BY <3>2
    <2>2. /\ proof.marker_line.target = target /\ proof.marker_line.payload = visible
          /\ proof.marker_line.findings = prints
      BY <1>9, <1>15
    <2> QED BY <1>8, <1>9, <1>14, <2>1, <2>2 DEF Payload!ProofConsistent
  <1>18. ListsJust(payload, F, ids)
    BY <1>12, Zenon DEF ListsJust
  <1> QED BY <1>16, <1>17, <1>18 DEF payload, proof, selected

\* What was presented can be proved exactly if it may be approved.
LEMMA CoversExactly ==
    ASSUME ListInv, PlanInv, phase = "presented", NEW ids \in Seq(PlanIds)
    PROVE  SelectionCovered(ids)
  <1> DEFINE F == classified.findings
             items == plan
             target == [refs |-> HeadSha, merge_base |-> "merge789"]
             candidate == Payload!CandidatePayload(target, items, F)
             failure == Payload!ProofFailure(ids, target, items, F, candidate)
             selected == Payload!Selected(items, ids)
             payload == Payload!FinalPayload("run-123", target, selected, F)
             proof == Payload!ApprovalProof("run-123", ids, target, items, F)
  <1> SUFFICES /\ failure = None <=> Approvable(ids)
               /\ failure = None => /\ Payload!ProofConsistent(proof)
                                    /\ Payload!FinalPayloadValid(payload)
                                    /\ ListsJust(payload, F, ids)
    BY Zenon DEF SelectionCovered, ListsJust
  <1>1. Listed(classified) /\ ~Raises(classified) /\ items = PlanOf(classified)
    BY DEF ListInv, PlanInv
  <1>2. OutputItemIdsUnique(classified) /\ FindingFingerprintsUnique(F)
    BY <1>1 DEF Raises
  <1>3. IsInjective(Ids(items)) /\ IsList(items) /\ IsInjective(Ids(F)) /\ IsList(F)
    <2>1. /\ IsInjective(Ids(PlanOf(classified))) /\ IsList(PlanOf(classified))
          /\ IsInjective(Ids(classified.findings))
      BY <1>1, <1>2, PlanUnique
    <2>2. IsList(F)
      BY <1>1 DEF Listed, CollectionNames, NoCollections
    <2> HIDE DEF items
    <2> QED BY <1>1, <2>1, <2>2, Zenon
  <1>4. IsPlan(BuildPostingPlan(classified), F)
    BY <1>1, PlanBuilt
  <1>5. IsList(ids) /\ Range(ids) \subseteq {items[i].id : i \in DOMAIN items}
    BY DEF IsList, Range, PlanIds
  <1>6. Approvable(ids) <=> /\ PostEnabled(classified)
                            /\ ids # <<>> /\ IsInjective(ids)
                            /\ Range(ids) \subseteq Range(Ids(F))
                            /\ ~\E n \in DOMAIN F : F[n].body = "marker"
    BY DEF Approvable
  <1> HIDE DEF F, items, target, candidate
  <1>7. CASE PostEnabled(classified)
    <2>1. items = BuildPostingPlan(classified)
      BY <1>1, <1>7, Zenon DEF PlanOf
    <2>2. IsPlan(items, F) /\ ~Payload!CandidateRefused(items, F)
      BY <1>1, <1>4, <1>7, <2>1, Zenon DEF Raises, F
    <2>3. Payload!ProofFailure(ids, target, items, F, candidate) = None <=> Approvable(ids)
      BY <1>2, <1>3, <1>5, <1>6, <1>7, <2>2, Provable, Zenon DEF candidate
    <2>4. None # "run-123"
      BY MCReviewDataAssumption DEF Post!RunId
    <2>5. ASSUME Approvable(ids)
          PROVE  /\ Payload!ProofConsistent(proof) /\ Payload!FinalPayloadValid(payload)
                 /\ ListsJust(payload, F, ids)
      <3>1. /\ ids # <<>> /\ Range(ids) \subseteq Range(Ids(F))
            /\ ~\E n \in DOMAIN F : F[n].body = "marker"
        BY <1>6, <2>5
      <3> QED BY <1>3, <1>5, <2>2, <2>4, <3>1, ProvedComment
    <2> QED BY <2>3, <2>5, Zenon
  <1>8. CASE ~PostEnabled(classified)
    <2>1. items = Payload!LocalOnlyPostingPlan(BuildPostingPlan(classified))
      BY <1>1, <1>8, Zenon DEF PlanOf
    <2>2. \A i \in DOMAIN items : ~items[i].public_payload_eligible
      BY <1>3, <1>4, <2>1, PlanLocal
    <2>3. Payload!ProofFailure(ids, target, items, F, candidate) # None
      BY <1>3, <1>5, <2>2, Unprovable
    <2> QED BY <1>6, <1>8, <2>3
  <1> QED BY <1>7, <1>8

-----------------------------------------------------------------------------
(***************************************************************************)
(* Every state of a review.                                                *)
(***************************************************************************)
ReviewInv == PatchInv /\ RequestInv /\ PostingInv /\ FoundInv /\ PlanInv /\ CountInv

\* Every step keeps the invariant of the findings.
LEMMA FoundSteps == ReviewInv /\ [MCNext]_vars => FoundInv'
  <1> SUFFICES ASSUME ReviewInv, [MCNext]_vars PROVE FoundInv'
    OBVIOUS
  <1>1. RequestInv /\ ListInv /\ FoundInv
    BY DEF ReviewInv, PostingInv
  <1>2. ASSUME NEW line \in PatchLines, ReadLine(line) PROVE FoundInv'
    <2>1. phase = "reading" /\ UNCHANGED <<phase, classified>>
      BY <1>2 DEF ReadLine
    <2> QED BY <1>1, <2>1 DEF FoundInv, InReview
  <1>3. ASSUME NEW input \in Inputs(patch), StartReview(input) PROVE FoundInv'
    <2>1. /\ phase = "reading" /\ phase' = "reviewing" /\ UNCHANGED classified
      BY <1>3 DEF StartReview
    <2>2. classified'.findings = <<>> /\ DOMAIN <<>> = {}
      BY <1>1, <2>1 DEF FoundInv
    <2> QED BY <2>1, <2>2 DEF FoundInv, InReview
  <1>4. ASSUME NEW output \in Returned, ReviewerReturns(output) PROVE FoundInv'
    BY <1>1, <1>4, FoundByReviewer
  <1>5. CASE Present
    BY <1>1, <1>5, FoundPresented
  <1>6. ASSUME phase' = "posting" PROVE FoundInv'
    BY <1>6 DEF FoundInv, InReview
  <1>7. ASSUME NEW login \in Logins, StartPosting(login) PROVE FoundInv'
    BY <1>6, <1>7 DEF StartPosting
  <1>8. ASSUME NEW i \in DOMAIN findings, NEW wording \in Wordings, Reword(i, wording) PROVE FoundInv'
    BY <1>6, <1>8 DEF Reword, reviewVars
  <1>9. CASE AttemptPost
    BY <1>6, <1>9 DEF AttemptPost, reviewVars
  <1>10. CASE UNCHANGED vars
    <2>1. UNCHANGED <<phase, patch, pr, classified>>
      BY <1>10 DEF vars, reviewVars
    <2>2. Context' = Context
      BY <2>1, ContextStays
    <2> QED BY <1>1, <2>1, <2>2 DEF FoundInv, InReview
  <1> QED BY <1>2, <1>3, <1>4, <1>5, <1>7, <1>8, <1>9, <1>10 DEF MCNext, ReviewNext

\* The inductive invariant of the review and of posting.
LEMMA ReviewInvariant == MCSpec => []ReviewInv
  <1>1. MCInit => ReviewInv
    <2>1. MCInit => PatchInv
      BY PatchInvInit DEF MCInit
    <2>2. MCInit => RequestInv
      BY DEF MCInit, Init, RequestInv, InReview
    <2>3. MCInit => PlanInv /\ CountInv
      BY ReviewersAssumption DEF MCInit, Init, PlanInv, CountInv
    <2> QED BY <2>1, <2>2, <2>3, PostingStarts, FoundStarts DEF ReviewInv
  <1>2. ReviewInv /\ [MCNext]_vars => ReviewInv'
    BY PatchInvStep, RequestSteps, PostingSteps, FoundSteps, PlanSteps, CountSteps DEF ReviewInv
  <1> QED BY <1>1, <1>2, PTL DEF MCSpec

\* The ids of a plan are unique, before there is one too.
LEMMA PlanIdsUnique == ListInv /\ PlanInv => Payload!PostingPlanIdsUnique(plan)
  <1> SUFFICES ASSUME ListInv, PlanInv PROVE IsInjective(Ids(plan))
    BY DEF Payload!PostingPlanIdsUnique, Payload!IsInjective, IsInjective, Ids
  <1>1. CASE phase = "presented"
    <2>1. OutputItemIdsUnique(classified) /\ plan = PlanOf(classified)
      BY <1>1 DEF PlanInv, Raises
    <2>2. IsInjective(Ids(PlanOf(classified)))
      BY <2>1, PlanUnique DEF ListInv
    <2> QED BY <2>1, <2>2, Zenon
  <1>2. CASE phase # "presented"
    BY <1>2 DEF PlanInv, IsInjective, Ids
  <1> QED BY <1>1, <1>2

\* A state with the invariant is typed.
LEMMA ReviewTyped == ReviewInv => TypeOK
  <1> SUFFICES ASSUME ReviewInv PROVE TypeOK
    OBVIOUS
  <1>1. PatchInv /\ RequestInv /\ ListInv /\ PlanInv /\ CountInv
    BY DEF ReviewInv, PostingInv
  <1>2. patch \in Seq(PatchLines) /\ Len(patch) \in 0..MaxPatchLines
    BY <1>1, InputsAssumption DEF PatchInv
  <1>3. {reader.source_remaining, reader.target_line, reader.target_remaining} \subseteq Nat
    BY <1>1 DEF PatchInv, Readers
  <1>4. DOMAIN classified = CollectionNames
    BY <1>1 DEF ListInv, Listed
  <1>5. ASSUME pr # None, NEW entry \in Range(Context.memory) PROVE MemoryReferenceValid(entry)
    <2> DEFINE memory == BudgetMemory(BuildConversationMemory(pr.comments), pr.limits)
    <2>1. IsRequest(pr)
      BY <1>1, <1>5 DEF RequestInv
    <2>2. /\ IsList(memory.retained)
          /\ \A k \in DOMAIN memory.retained : MemoryReferenceValid(memory.retained[k])
      BY <2>1, MemoryIsOf DEF IsRequest
    <2>3. Context.memory = memory.retained
      BY DEF Context, Budgeted, ApplyInputContextBudget
    <2> HIDE DEF memory
    <2> QED BY <1>5, <2>2, <2>3 DEF Range
  <1>6. Payload!PostingPlanIdsUnique(plan)
    BY <1>1, PlanIdsUnique
  <1> QED BY <1>1, <1>2, <1>3, <1>4, <1>5, <1>6 DEF TypeOK, CountInv

\* Findings that passed the rules rest on trusted memory.
LEMMA SettledRests == RequestInv /\ FoundInv => PublicRestsOnTrustedMemory
  <1> SUFFICES ASSUME RequestInv, FoundInv, phase = "presented", NEW finding \in PublicFindings
               PROVE  /\ \A i \in DOMAIN finding.item.memory_ids :
                             /\ \E k \in DOMAIN pr.comments :
                                    Vouches(pr.comments[k], finding.item.memory_ids[i])
                             /\ \A entry \in Range(Context.memory) :
                                    entry.id = finding.item.memory_ids[i] => entry.body # None
                      /\ ~CopiesPassiveMemory(Context.memory, finding.item)
    BY DEF PublicRestsOnTrustedMemory
  <1>1. IsRequest(pr) /\ FindingSuppression(Context, finding.item) = None
    BY DEF RequestInv, FoundInv, InReview, PublicFindings, Settled
  <1> DEFINE memory == BudgetMemory(BuildConversationMemory(pr.comments), pr.limits)
  <1>2. Context.memory = memory.retained /\ Context.omitted_memory_ids = memory.omitted
    BY DEF Context, Budgeted, ApplyInputContextBudget
  <1>3. /\ IsList(memory.retained)
        /\ \A k \in DOMAIN memory.retained :
               LET entry == memory.retained[k]
               IN  /\ entry.actionable =>
                          \E c \in DOMAIN pr.comments : Vouches(pr.comments[c], entry.id)
                   /\ entry.body = None => entry.id \in memory.omitted
    BY <1>1, MemoryIsOf DEF IsRequest
  <1> HIDE DEF memory
  <1> QED BY <1>1, <1>2, <1>3, Rests

\* Findings that passed the rules are on changed code.
LEMMA SettledOnChangedCode == RequestInv /\ FoundInv => PublicOnChangedCode
  <1> SUFFICES ASSUME RequestInv, FoundInv, phase = "presented", NEW finding \in PublicFindings
               PROVE  /\ finding.path \notin Context.omitted_file_paths
                      /\ \E i \in DOMAIN pr.files :
                             /\ pr.files[i].path = finding.path
                             /\ ContainsLine(pr.files[i], finding.line)
                             /\ finding.diff_anchor = NoAnchor =>
                                    \/ \E n \in DOMAIN pr.files :
                                           /\ pr.files[n].path = finding.path
                                           /\ pr.files[n].status \notin InlineableFileStatuses
                                    \/ ~\E k \in DOMAIN pr.files[i].changed_ranges :
                                           {finding.line, LineEnd(finding)}
                                               \subseteq Lines(pr.files[i].changed_ranges[k])
                      /\ finding.diff_anchor # NoAnchor =>
                             ValidatesLocation(finding.diff_anchor, finding, HeadSha)
    BY DEF PublicOnChangedCode
  <1>1. /\ IsRequest(pr) /\ Settled(Context, finding)
        /\ finding.diff_anchor = DiffAnchor(Context.files, HeadSha, finding)
    BY DEF RequestInv, FoundInv, InReview, PublicFindings
  <1>2. Context.files = BudgetedView(pr.files, pr.provider, Budgeted)
    BY DEF Context
  <1>3. IsList(Context.files) /\ \A i \in DOMAIN Context.files : ViewOf(Context.files[i], pr.files)
    <2>1. LET view == BudgetedView(pr.files, pr.provider,
                          ApplyInputContextBudget(pr.files, BuildConversationMemory(pr.comments), pr.limits))
          IN  IsList(view) /\ \A i \in DOMAIN view : ViewOf(view[i], pr.files)
      BY <1>1, ViewIsOf, Zenon DEF IsRequest
    <2> QED BY <1>2, <2>1 DEF Budgeted
  <1> DEFINE context == Context
  <1>4. /\ IsList(context.files) /\ \A i \in DOMAIN context.files : ViewOf(context.files[i], pr.files)
        /\ \A i \in DOMAIN pr.files : IsList(pr.files[i].changed_ranges)
        /\ FindingSuppression(context, finding.item) = None
        /\ finding.path = finding.item.path /\ finding.line = finding.item.line
        /\ finding.line_end = None \/ finding.line <= finding.line_end
        /\ finding.diff_anchor = DiffAnchor(context.files, HeadSha, finding)
    BY <1>1, <1>3 DEF IsRequest, Settled
  <1> HIDE DEF context
  <1> DEFINE item == finding.item
             head_sha == HeadSha
             files == pr.files
  <1> HIDE DEF item, head_sha, files
  <1> QED BY <1>4, OnChangedCode DEF context, item, head_sha, files

(***************************************************************************)
(* The variables of a review always have their types, no more errors are   *)
(* counted than reviewers have returned, every item of a plan has an id of *)
(* its own, and what the memory lets a reviewer act on is unresolved and   *)
(* trusted (models.py:PostingPlan, memory.py:62-191,                       *)
(* runner.py:_run_dry_run_core).                                           *)
(***************************************************************************)
THEOREM ReviewTypeCorrect == MCSpec => []TypeOK
  BY ReviewInvariant, ReviewTyped, PTL

(***************************************************************************)
(* What the writer has posted is what was approved, and a selection of     *)
(* findings has one comment on a target, whatever a review found, however  *)
(* often an attempt is made, and whatever is reworded between two          *)
(* (markers.py:430-470, finalization.py:456-543, writer_fake.py:38-76).    *)
(***************************************************************************)
THEOREM PostsAlwaysAsApproved == MCSpec => []PostedAsApproved
  BY ReviewInvariant, PTL DEF ReviewInv, PostingInv, PostInv

(***************************************************************************)
(* What may be published is about a line that was read from the patch of a *)
(* file the budget left whole, and an anchor holds all of its lines, for   *)
(* every pull request and whatever the reviewers return                    *)
(* (quality.py:51-160, diff_anchor.py:27-102).                             *)
(***************************************************************************)
THEOREM PublicAlwaysOnChangedCode == MCSpec => []PublicOnChangedCode
  BY ReviewInvariant, SettledOnChangedCode, PTL DEF ReviewInv

(***************************************************************************)
(* What may be published and cites the conversation rests on an unresolved *)
(* comment of a trusted author that the reviewers could read, for every    *)
(* conversation, also where several comments have one id                   *)
(* (memory.py:62-191, context_budget.py:120-199, quality.py:200-345).      *)
(***************************************************************************)
THEOREM PublicAlwaysRestsOnTrustedMemory == MCSpec => []PublicRestsOnTrustedMemory
  BY ReviewInvariant, SettledRests, PTL DEF ReviewInv

(***************************************************************************)
(* A selection of what was presented can be proved exactly if a person may *)
(* approve it, and the comment it then stands for validates, fits its      *)
(* proof, and lists what was selected and nothing else, for any number of  *)
(* findings and other outputs, and for selections of any length            *)
(* (posting.py:85-246, approval.py:35-131, final_payload.py:26-97).        *)
(***************************************************************************)
EverySelectionCovered == phase = "presented" => \A ids \in Seq(PlanIds) : SelectionCovered(ids)

THEOREM ProofAlwaysCoversExactly == MCSpec => [](ProofCoversExactly /\ EverySelectionCovered)
  <1>1. ReviewInv => EverySelectionCovered
    BY CoversExactly DEF EverySelectionCovered, ReviewInv, PostingInv
  <1>2. EverySelectionCovered => ProofCoversExactly
    <2>1. <<>> \in Seq(PlanIds) /\ \A i, j \in PlanIds : <<i>> \in Seq(PlanIds) /\ <<i, j>> \in Seq(PlanIds)
      <3> DEFINE S == PlanIds
      <3> HIDE DEF S
      <3>1. <<>> \in Seq(S) /\ \A i, j \in S : <<i>> \in Seq(S) /\ <<i, j>> \in Seq(S)
        OBVIOUS
      <3> QED BY <3>1 DEF S
    <2>2. ASSUME NEW ids \in Approvals PROVE ids \in Seq(PlanIds)
      <3>1. \/ ids = <<>>
            \/ \E i \in PlanIds : ids = <<i>>
            \/ \E i, j \in PlanIds : ids = <<i, j>>
        BY DEF Approvals
      <3> QED BY <2>1, <3>1, Zenon
    <2> QED BY <2>2, Zenon DEF EverySelectionCovered, ProofCoversExactly
  <1> QED BY <1>1, <1>2, ReviewInvariant, PTL

\* What NothingLost asks of a step.
KeepsAll ==
    reviewed' # reviewed /\ phase' = "reviewing" =>
        LET before == AllIds(classified)
            after == AllIds(classified')
        IN  /\ Range(before) \subseteq Range(after)
            /\ IF Result.status = "completed"
               THEN /\ Len(after) = Len(before) + Len(UsedItems(returned'))
                    /\ VisibleIds(returned') \subseteq Range(after)
               ELSE Len(after) = Len(before) + 1

(***************************************************************************)
(* Nothing that a reviewer returns disappears, whatever it returns: its    *)
(* items come to the outputs one for one, under their ids or among the     *)
(* suppressed ones (findings.py:53-315, quality.py:51-120).                *)
(***************************************************************************)
THEOREM NothingEverLost == MCSpec => NothingLost
  <1>1. ReviewInv /\ [MCNext]_vars => [KeepsAll]_reviewVars
    <2> SUFFICES ASSUME ReviewInv, [MCNext]_vars, reviewed' # reviewed, phase' = "reviewing"
                 PROVE  KeepsAll
      BY DEF KeepsAll
    <2>1. Listed(classified)
      BY DEF ReviewInv, PostingInv, ListInv
    <2>2. PICK output \in Returned : ReviewerReturns(output)
      BY DEF MCNext, ReviewNext, ReadLine, StartReview, Present, StartPosting, Reword, AttemptPost,
             vars, reviewVars
    <2> QED BY <2>1, <2>2, ReviewerLosesNothing, Zenon DEF KeepsAll
  <1> QED BY <1>1, ReviewInvariant, PTL DEF MCSpec, NothingLost, KeepsAll
=============================================================================
