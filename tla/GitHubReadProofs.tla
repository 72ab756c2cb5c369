-------------------------- MODULE GitHubReadProofs --------------------------
(***************************************************************************)
(* Proofs about the read of a pull request.                                *)
(***************************************************************************)
EXTENDS GitHubRead, SequenceTheorems, FiniteSetTheorems, WellFoundedInduction, TLAPS

LEMMA LeastOf ==
    ASSUME NEW T \in SUBSET Nat, T # {}
    PROVE  \E n \in T : \A m \in T : n <= m
  <1> DEFINE R == {ss \in Nat \X Nat : ss[1] < ss[2]}
  <1>1. IsWellFoundedOn(R, Nat)
    BY NatLessThanWellFounded DEF OpToRel
  <1>2. PICK n \in T : \A m \in T : ~ (<<m, n>> \in R)
    <2> HIDE DEF R
    <2> QED BY <1>1, WFMin
  <1>3. ASSUME NEW m \in T PROVE n <= m
    <2>1. <<m, n>> \in Nat \X Nat /\ ~ (<<m, n>> \in R)
      BY <1>2
    <2> QED BY <2>1
  <1> QED BY <1>3

(***************************************************************************)
(* Joining a sequence of sequences, as a comprehension or a loop that      *)
(* extends a list does it: one more part is appended at the end, and two   *)
(* runs of parts join to the concatenation of what each joins to.  The     *)
(* function that FlattenSeq defines by recursion exists and is unique by   *)
(* least counterexample.                                                   *)
(***************************************************************************)
FlattenNext(f, parts, i) == IF i = 1 THEN parts[i] ELSE f[i - 1] \o parts[i]

FlattensUpto(f, parts, n) == f = [i \in 1..n |-> FlattenNext(f, parts, i)]

NotFlattened(parts) == {n \in Nat : ~ \E f : FlattensUpto(f, parts, n)}

LEMMA FlattenExists == \A parts : \A n \in Nat : \E f : FlattensUpto(f, parts, n)
  <1> SUFFICES ASSUME NEW parts PROVE NotFlattened(parts) = {}
    BY DEF NotFlattened
  <1> SUFFICES ASSUME NotFlattened(parts) # {} PROVE FALSE
    OBVIOUS
  <1>1. NotFlattened(parts) \in SUBSET Nat
    BY DEF NotFlattened
  <1>2. PICK n \in NotFlattened(parts) : \A m \in NotFlattened(parts) : n <= m
    BY <1>1, LeastOf
  <1>3. n \in Nat /\ ~ \E f : FlattensUpto(f, parts, n)
    BY <1>2 DEF NotFlattened
  <1>4. n # 0
    <2>1. 1..0 = {}
      OBVIOUS
    <2>2. FlattensUpto([i \in 1..0 |-> <<>>], parts, 0)
      BY <2>1 DEF FlattensUpto
    <2> QED BY <1>3, <2>2
  <1>5. n - 1 \in Nat /\ ~(n <= n - 1)
    BY <1>3, <1>4
  <1>6. PICK f : FlattensUpto(f, parts, n - 1)
    BY <1>2, <1>5 DEF NotFlattened
  <1> DEFINE g == [i \in 1..n |-> FlattenNext(f, parts, i)]
  <1>7. \A i \in 1..n - 1 : f[i] = FlattenNext(f, parts, i)
    BY <1>6 DEF FlattensUpto
  <1>8. \A i \in 1..n - 1 : i \in 1..n /\ g[i] = f[i]
    BY <1>3, <1>7
  <1>9. \A i \in 1..n : i # 1 => i - 1 \in 1..n - 1
    BY <1>3
  <1>10. \A i \in 1..n : FlattenNext(g, parts, i) = FlattenNext(f, parts, i)
    <2> HIDE DEF g
    <2> QED BY <1>8, <1>9 DEF FlattenNext
  <1>11. g = [i \in 1..n |-> FlattenNext(g, parts, i)]
    BY <1>10, Zenon
  <1>12. FlattensUpto(g, parts, n)
    BY <1>11 DEF FlattensUpto
  <1> QED BY <1>3, <1>12

LEMMA FlattenUnique ==
    ASSUME NEW p, NEW q, NEW n \in Nat, NEW m \in Nat, n <= m,
           NEW f, FlattensUpto(f, p, n), NEW g, FlattensUpto(g, q, m),
           \A i \in 1..n : p[i] = q[i]
    PROVE  \A i \in 1..n : f[i] = g[i]
  <1> DEFINE U == {i \in Nat : i \in 1..n /\ f[i] # g[i]}
  <1> SUFFICES ASSUME U # {} PROVE FALSE
    OBVIOUS
  <1>1. U \in SUBSET Nat
    OBVIOUS
  <1>2. PICK i \in U : \A j \in U : i <= j
    <2> HIDE DEF U
    <2> QED BY <1>1, LeastOf
  <1>3. i \in 1..n /\ i \in 1..m /\ f[i] # g[i] /\ p[i] = q[i]
    BY <1>2
  <1>4. f[i] = FlattenNext(f, p, i) /\ g[i] = FlattenNext(g, q, i)
    <2>1. \A j \in 1..n : f[j] = FlattenNext(f, p, j)
      BY DEF FlattensUpto
    <2>2. \A j \in 1..m : g[j] = FlattenNext(g, q, j)
      BY DEF FlattensUpto
    <2> QED BY <1>3, <2>1, <2>2
  <1>5. i # 1 => f[i - 1] = g[i - 1]
    <2>1. i # 1 => i - 1 \in 1..n /\ i - 1 \in Nat /\ ~(i <= i - 1)
      BY <1>3
    <2> QED BY <1>2, <2>1
  <1> QED BY <1>3, <1>4, <1>5, Zenon DEF FlattenNext

LEMMA FlattenIs ==
    ASSUME NEW parts, Len(parts) \in Nat, Len(parts) # 0
    PROVE  \E f : FlattensUpto(f, parts, Len(parts)) /\ SeqExt!FlattenSeq(parts) = f[Len(parts)]
  <1> DEFINE f == CHOOSE h : FlattensUpto(h, parts, Len(parts))
  <1>1. FlattensUpto(f, parts, Len(parts))
    BY FlattenExists, Zenon
  <1>2. SeqExt!FlattenSeq(parts) = f[Len(parts)]
    BY DEF SeqExt!FlattenSeq, FlattensUpto, FlattenNext
  <1> QED BY <1>1, <1>2

LEMMA FlattenNone == SeqExt!FlattenSeq(<<>>) = <<>>
  BY DEF SeqExt!FlattenSeq

LEMMA FlattenAppend ==
    ASSUME NEW S, NEW parts \in Seq(Seq(S)), NEW part \in Seq(S)
    PROVE  SeqExt!FlattenSeq(Append(parts, part)) = SeqExt!FlattenSeq(parts) \o part
  <1> DEFINE longer == Append(parts, part)
  <1>1. /\ longer \in Seq(Seq(S)) /\ Len(parts) \in Nat /\ Len(longer) = Len(parts) + 1
        /\ \A i \in 1..Len(parts) : longer[i] = parts[i]
        /\ longer[Len(longer)] = part
    BY AppendProperties
  <1>2. PICK g : FlattensUpto(g, longer, Len(longer)) /\ SeqExt!FlattenSeq(longer) = g[Len(longer)]
    <2>1. Len(longer) \in Nat /\ Len(longer) # 0
      BY <1>1
    <2> HIDE DEF longer
    <2> QED BY <2>1, FlattenIs
  <1> HIDE DEF longer
  <1>3. g[Len(longer)] = FlattenNext(g, longer, Len(longer))
    <2>1. Len(longer) \in 1..Len(longer)
      BY <1>1
    <2>2. \A i \in 1..Len(longer) : g[i] = FlattenNext(g, longer, i)
      BY <1>2 DEF FlattensUpto
    <2> QED BY <2>1, <2>2
  <1>4. CASE Len(parts) = 0
    <2>1. parts = <<>> /\ Len(longer) = 1
      BY <1>1, <1>4
    <2>2. g[Len(longer)] = part
      BY <1>1, <1>3, <2>1 DEF FlattenNext
    <2>3. <<>> \o part = part
      BY ConcatEmptySeq
    <2> QED BY <1>2, <2>1, <2>2, <2>3, FlattenNone DEF longer
  <1>5. CASE Len(parts) # 0
    <2>1. PICK f : FlattensUpto(f, parts, Len(parts)) /\ SeqExt!FlattenSeq(parts) = f[Len(parts)]
      BY <1>1, <1>5, FlattenIs
    <2>2. Len(longer) \in Nat /\ Len(parts) <= Len(longer)
      BY <1>1
    <2>3. \A i \in 1..Len(parts) : f[i] = g[i]
      <3>1. \A i \in 1..Len(parts) : parts[i] = longer[i]
        BY <1>1
      <3>2. Len(parts) \in Nat
        BY <1>1
      <3>3. FlattensUpto(f, parts, Len(parts)) /\ FlattensUpto(g, longer, Len(longer))
        BY <1>2, <2>1
      <3>4. \A n, m \in Nat : \A p, q : n <= m /\ FlattensUpto(f, p, n) /\ FlattensUpto(g, q, m)
                    /\ (\A i \in 1..n : p[i] = q[i]) => \A i \in 1..n : f[i] = g[i]
        BY FlattenUnique
      <3> QED BY <2>2, <3>1, <3>2, <3>3, <3>4, Zenon
    <2>4. Len(parts) \in 1..Len(parts) /\ Len(longer) # 1 /\ Len(longer) - 1 = Len(parts)
      BY <1>1, <1>5
    <2>5. g[Len(longer)] = g[Len(parts)] \o part
      BY <1>1, <1>3, <2>4 DEF FlattenNext
    <2> QED BY <1>2, <2>1, <2>3, <2>4, <2>5 DEF longer
  <1> QED BY <1>4, <1>5

Associative(S) == \A a, b, c \in Seq(S) : (a \o b) \o c = a \o (b \o c)

LEMMA JoiningIsAssociative == \A S : Associative(S)
  <1> SUFFICES ASSUME NEW S, NEW a \in Seq(S), NEW b \in Seq(S), NEW c \in Seq(S)
               PROVE  (a \o b) \o c = a \o (b \o c)
    BY DEF Associative
  <1> QED BY ConcatAssociative

LEMMA FlattenJoins ==
    ASSUME NEW S, NEW p \in Seq(Seq(S)), NEW q \in Seq(Seq(S))
    PROVE  /\ SeqExt!FlattenSeq(p) \in Seq(S)
           /\ SeqExt!FlattenSeq(p \o q) = SeqExt!FlattenSeq(p) \o SeqExt!FlattenSeq(q)
  <1> DEFINE U == {n \in Nat : \E parts \in Seq(Seq(S)) : Len(parts) = n /\ SeqExt!FlattenSeq(parts) \notin Seq(S)}
             V == {n \in Nat : \E parts \in Seq(Seq(S)) :
                      Len(parts) = n /\
                      SeqExt!FlattenSeq(p \o parts) # SeqExt!FlattenSeq(p) \o SeqExt!FlattenSeq(parts)}
  <1>1. \A n \in U : n = 0 \/ \E k \in U : k < n
    <2> SUFFICES ASSUME NEW n \in U, n # 0 PROVE \E k \in U : k < n
      OBVIOUS
    <2>1. PICK parts \in Seq(Seq(S)) : Len(parts) = n /\ SeqExt!FlattenSeq(parts) \notin Seq(S)
      OBVIOUS
    <2>2. parts # <<>>
      BY <2>1
    <2>3. PICK before \in Seq(Seq(S)), part \in Seq(S) : parts = Append(before, part)
      BY <2>2, SequenceEmptyOrAppend
    <2>4. Len(before) \in Nat /\ Len(before) < n
      <3>1. Len(before) \in Nat /\ n = Len(before) + 1
        BY <2>1, <2>3, LenProperties, AppendProperties
      <3> QED BY <3>1
    <2>5. SeqExt!FlattenSeq(parts) = SeqExt!FlattenSeq(before) \o part
      BY <2>3, FlattenAppend
    <2>6. SeqExt!FlattenSeq(before) \notin Seq(S)
      BY <2>1, <2>5, ConcatProperties
    <2> QED BY <2>4, <2>6
  <1>2. 0 \notin U
    <2> SUFFICES ASSUME NEW parts \in Seq(Seq(S)), Len(parts) = 0
                 PROVE  SeqExt!FlattenSeq(parts) \in Seq(S)
      OBVIOUS
    <2>1. parts = <<>>
      OBVIOUS
    <2> QED BY <2>1, FlattenNone, EmptySeq
  <1>3. U = {}
    <2>1. U \in SUBSET Nat
      OBVIOUS
    <2> HIDE DEF U
    <2> SUFFICES ASSUME U # {} PROVE FALSE
      OBVIOUS
    <2>2. PICK n \in U : \A m \in U : n <= m
      BY <2>1, LeastOf
    <2>3. PICK k \in U : k < n
      BY <1>1, <1>2, <2>2
    <2> QED BY <2>1, <2>2, <2>3
  <1>4. \A parts \in Seq(Seq(S)) : SeqExt!FlattenSeq(parts) \in Seq(S)
    <2> SUFFICES ASSUME NEW parts \in Seq(Seq(S)) PROVE SeqExt!FlattenSeq(parts) \in Seq(S)
      OBVIOUS
    <2>1. Len(parts) \in Nat
      BY LenProperties
    <2>2. Len(parts) \notin U
      <3> HIDE DEF U
      <3> QED BY <1>3
    <2> QED BY <2>1, <2>2
  <1>5. 0 \notin V
    <2> SUFFICES ASSUME NEW parts \in Seq(Seq(S)), Len(parts) = 0
                 PROVE  SeqExt!FlattenSeq(p \o parts) = SeqExt!FlattenSeq(p) \o SeqExt!FlattenSeq(parts)
      OBVIOUS
    <2>1. parts = <<>>
      OBVIOUS
    <2>2. p \o <<>> = p /\ SeqExt!FlattenSeq(p) \o <<>> = SeqExt!FlattenSeq(p)
      BY <1>4, ConcatEmptySeq
    <2> QED BY <2>1, <2>2, FlattenNone
  <1>6. \A n \in V : n = 0 \/ \E k \in V : k < n
    <2> SUFFICES ASSUME NEW n \in V, n # 0 PROVE \E k \in V : k < n
      OBVIOUS
    <2>1. PICK parts \in Seq(Seq(S)) :
            /\ Len(parts) = n
            /\ SeqExt!FlattenSeq(p \o parts) # SeqExt!FlattenSeq(p) \o SeqExt!FlattenSeq(parts)
      OBVIOUS
    <2>2. parts # <<>>
      BY <2>1
    <2>3. PICK before \in Seq(Seq(S)), part \in Seq(S) : parts = Append(before, part)
      BY <2>2, SequenceEmptyOrAppend
    <2>4. Len(before) \in Nat /\ Len(before) < n
      <3>1. Len(before) \in Nat /\ n = Len(before) + 1
        BY <2>1, <2>3, LenProperties, AppendProperties
      <3> QED BY <3>1
    <2>5. p \o before \in Seq(Seq(S)) /\ p \o parts = Append(p \o before, part)
      <3>1. <<part>> \in Seq(Seq(S)) /\ parts = before \o <<part>>
        BY <2>3, AppendIsConcat
      <3>2. p \o parts = (p \o before) \o <<part>>
        <4>1. Associative(Seq(S))
          BY JoiningIsAssociative
        <4>2. p \in Seq(Seq(S)) /\ before \in Seq(Seq(S)) /\ <<part>> \in Seq(Seq(S))
          BY <3>1
        <4>3. (p \o before) \o <<part>> = p \o (before \o <<part>>)
          BY <4>1, <4>2, Zenon DEF Associative
        <4> QED BY <3>1, <4>3
      <3>3. p \o before \in Seq(Seq(S))
        BY <2>3, ConcatProperties
      <3> QED BY <2>3, <3>2, <3>3, AppendIsConcat
    <2>6. SeqExt!FlattenSeq(p \o parts) = SeqExt!FlattenSeq(p \o before) \o part
      BY <2>5, FlattenAppend
    <2>7. SeqExt!FlattenSeq(parts) = SeqExt!FlattenSeq(before) \o part
      BY <2>3, FlattenAppend
    <2>8. SeqExt!FlattenSeq(p) \o SeqExt!FlattenSeq(parts)
            = (SeqExt!FlattenSeq(p) \o SeqExt!FlattenSeq(before)) \o part
      <3>1. SeqExt!FlattenSeq(p) \in Seq(S) /\ SeqExt!FlattenSeq(before) \in Seq(S)
        BY <1>4, <2>3
      <3> DEFINE x == SeqExt!FlattenSeq(p)
                 y == SeqExt!FlattenSeq(before)
      <3>2. x \in Seq(S) /\ y \in Seq(S) /\ part \in Seq(S)
        BY <2>3, <3>1
      <3> HIDE DEF x, y, U, V
      <3>3. x \o (y \o part) = (x \o y) \o part
        <4>1. Associative(S)
          BY JoiningIsAssociative
        <4> QED BY <3>2, <4>1, Zenon DEF Associative
      <3> QED BY <2>7, <3>3 DEF x, y
    <2>9. SeqExt!FlattenSeq(p \o before) # SeqExt!FlattenSeq(p) \o SeqExt!FlattenSeq(before)
      BY <2>1, <2>6, <2>8
    <2> QED BY <2>4, <2>9
  <1>7. V = {}
    <2>1. V \in SUBSET Nat
      OBVIOUS
    <2> HIDE DEF V
    <2> SUFFICES ASSUME V # {} PROVE FALSE
      OBVIOUS
    <2>2. PICK n \in V : \A m \in V : n <= m
      BY <2>1, LeastOf
    <2>3. PICK k \in V : k < n
      BY <1>5, <1>6, <2>2
    <2> QED BY <2>1, <2>2, <2>3
  <1>8. SeqExt!FlattenSeq(p \o q) = SeqExt!FlattenSeq(p) \o SeqExt!FlattenSeq(q)
    <2>1. Len(q) \in Nat
      BY LenProperties
    <2>2. Len(q) \notin V
      <3> HIDE DEF V
      <3> QED BY <1>7
    <2> QED BY <2>1, <2>2
  <1> QED BY <1>4, <1>8

(***************************************************************************)
(* Dropping what is no object (github_live.py:320) page by page is the     *)
(* same as dropping it from the listing.                                   *)
(***************************************************************************)
ObjectParts(seq) == [i \in DOMAIN seq |-> IF IsObject(seq[i]) THEN <<seq[i]>> ELSE <<>>]

LEMMA ObjectPartsTyped ==
    ASSUME NEW S, NEW seq \in Seq(S)
    PROVE  ObjectParts(seq) \in Seq(Seq(S)) /\ Len(ObjectParts(seq)) = Len(seq)
  <1>1. DOMAIN seq = 1..Len(seq) /\ Len(seq) \in Nat
    BY LenProperties
  <1>2. \A i \in DOMAIN seq : (IF IsObject(seq[i]) THEN <<seq[i]>> ELSE <<>>) \in Seq(S)
    <2> SUFFICES ASSUME NEW i \in DOMAIN seq
                 PROVE  (IF IsObject(seq[i]) THEN <<seq[i]>> ELSE <<>>) \in Seq(S)
      OBVIOUS
    <2>1. seq[i] \in S
      BY <1>1
    <2>2. <<seq[i]>> \in Seq(S) /\ <<>> \in Seq(S)
      BY <2>1
    <2> QED BY <2>2
  <1>3. ObjectParts(seq) \in [1..Len(seq) -> Seq(S)]
    BY <1>1, <1>2 DEF ObjectParts
  <1> QED BY <1>1, <1>3

LEMMA ObjectsTyped ==
    ASSUME NEW S, NEW seq \in Seq(S)
    PROVE  Objects(seq) \in Seq(S)
  <1>1. Objects(seq) = SeqExt!FlattenSeq(ObjectParts(seq))
    BY DEF Objects, ObjectParts
  <1> QED BY <1>1, ObjectPartsTyped, FlattenJoins

LEMMA ObjectsJoin ==
    ASSUME NEW S, NEW s \in Seq(S), NEW t \in Seq(S)
    PROVE  Objects(s \o t) = Objects(s) \o Objects(t)
  <1>1. /\ s \o t \in Seq(S) /\ Len(s \o t) = Len(s) + Len(t) /\ Len(s) \in Nat /\ Len(t) \in Nat
        /\ \A i \in 1..Len(s) + Len(t) : (s \o t)[i] = IF i <= Len(s) THEN s[i] ELSE t[i - Len(s)]
    BY ConcatProperties
  <1>2. /\ ObjectParts(s) \in Seq(Seq(S)) /\ Len(ObjectParts(s)) = Len(s)
        /\ ObjectParts(t) \in Seq(Seq(S)) /\ Len(ObjectParts(t)) = Len(t)
        /\ ObjectParts(s \o t) \in Seq(Seq(S)) /\ Len(ObjectParts(s \o t)) = Len(s) + Len(t)
    BY <1>1, ObjectPartsTyped
  <1>3. DOMAIN s = 1..Len(s) /\ DOMAIN t = 1..Len(t) /\ DOMAIN (s \o t) = 1..Len(s) + Len(t)
    BY <1>1, LenProperties
  <1>4. /\ ObjectParts(s) \o ObjectParts(t) \in Seq(Seq(S))
        /\ Len(ObjectParts(s) \o ObjectParts(t)) = Len(s) + Len(t)
        /\ \A i \in 1..Len(s) + Len(t) : (ObjectParts(s) \o ObjectParts(t))[i] =
                IF i <= Len(s) THEN ObjectParts(s)[i] ELSE ObjectParts(t)[i - Len(s)]
    <2> DEFINE x == ObjectParts(s)
               y == ObjectParts(t)
    <2>1. x \in Seq(Seq(S)) /\ y \in Seq(Seq(S)) /\ Len(x) = Len(s) /\ Len(y) = Len(t)
      BY <1>2
    <2> HIDE DEF x, y
    <2>2. /\ x \o y \in Seq(Seq(S)) /\ Len(x \o y) = Len(x) + Len(y)
          /\ \A i \in 1..Len(x) + Len(y) : (x \o y)[i] = IF i <= Len(x) THEN x[i] ELSE y[i - Len(x)]
      BY <2>1, ConcatProperties, Zenon
    <2> QED BY <2>1, <2>2 DEF x, y
  <1>5. ASSUME NEW i \in 1..Len(s) + Len(t)
        PROVE  ObjectParts(s \o t)[i] = (ObjectParts(s) \o ObjectParts(t))[i]
    <2>1. CASE i <= Len(s)
      <3>1. i \in DOMAIN s /\ i \in DOMAIN (s \o t) /\ (s \o t)[i] = s[i]
        BY <1>1, <1>3, <2>1
      <3> QED BY <1>4, <2>1, <3>1 DEF ObjectParts
    <2>2. CASE ~(i <= Len(s))
      <3>1. i - Len(s) \in DOMAIN t /\ i \in DOMAIN (s \o t) /\ (s \o t)[i] = t[i - Len(s)]
        BY <1>1, <1>3, <2>2
      <3> QED BY <1>4, <2>2, <3>1 DEF ObjectParts
    <2> QED BY <2>1, <2>2
  <1>6. ObjectParts(s \o t) = ObjectParts(s) \o ObjectParts(t)
    BY <1>1, <1>2, <1>4, <1>5, SeqEqual
  <1>7. SeqExt!FlattenSeq(ObjectParts(s) \o ObjectParts(t))
          = SeqExt!FlattenSeq(ObjectParts(s)) \o SeqExt!FlattenSeq(ObjectParts(t))
    BY <1>2, FlattenJoins
  <1>8. \A seq : Objects(seq) = SeqExt!FlattenSeq(ObjectParts(seq))
    BY DEF Objects, ObjectParts
  <1> QED BY <1>6, <1>7, <1>8

-----------------------------------------------------------------------------
(***************************************************************************)
(* The inductive invariant.  What a conclusion says of the read is true    *)
(* because of where the read was when it was drawn.                        *)
(***************************************************************************)
Concluded == {"report", "done"}

\* Before the first page nothing is read, and nobody has answered a request.
NothingReadYet ==
    at \in {"start", "metadata"} =>
        /\ requests = [r \in Resources |-> 0]
        /\ items = [r \in Resources |-> <<>>]
        /\ cursor = None /\ page_number = 1 /\ seen_cursors = {}

\* The resources are read in order; the page asked for is one more than the
\* pages answered (github.py:472-505, 951).
ReadInOrder ==
    /\ at \in Resources =>
        /\ page_number \in Nat \ {0} /\ requests[at] = page_number - 1
        /\ \A r \in Resources : Position(r) < Position(at) => requests[r] > 0
        /\ \A r \in Resources : Position(r) > Position(at) => requests[r] = 0
    /\ at = "build" => \A r \in Resources : requests[r] > 0

\* The live transport counts its pages itself, and stops at the cap.
LivePageCounted ==
    source = "live" /\ at \in Resources =>
        /\ cursor = IF page_number = 1 THEN None ELSE page_number
        /\ page_number <= MaxPages

\* The changed files are those of the head; what was read of them is of the
\* head too unless the head has moved since the metadata was read.
FilesOf(seq, commit) == \A i \in DOMAIN seq : seq[i].commit = commit

ReadOfTheTarget ==
    /\ at \notin {"start", "metadata"} /\ at \notin Concluded => target \in Nat
    /\ source = "live" =>
        /\ FilesOf(listing["files"], head)
        /\ target \in Nat =>
            /\ target <= head
            /\ head = target => FilesOf(items["files"], target)

\* A document that was loaded is followed page by page: the cursors seen are
\* those of the pages before, and the first page has none.
Loaded ==
    source = "document" /\ at # "start" /\ at \notin Concluded =>
        \A r \in Resources : Loads(document[r]) /\ book[r] = PageMap(document[r])

DocumentFollowed ==
    source = "document" /\ at \in Resources =>
        /\ page_number \in 1..Len(document[at])
        /\ cursor = CursorOf(document[at], page_number)
        /\ seen_cursors = {CursorOf(document[at], i) : i \in 2..page_number}

FakesGiven ==
    /\ source = "document" => document \in Documents
    /\ source = "caller" => book \in Books

NoneConcluded == outcome # None => at \in Concluded

ReadInv ==
    /\ TypeOK /\ NoneConcluded /\ FakesGiven
    /\ NothingReadYet /\ ReadInOrder /\ LivePageCounted /\ ReadOfTheTarget
    /\ Loaded /\ DocumentFollowed
    /\ ResultJustified

-----------------------------------------------------------------------------
(***************************************************************************)
(* The resources and their order; the answers to a request.                *)
(***************************************************************************)
LEMMA ResourceNames ==
    /\ Resources = {"files", "comments", "review_comments", "reviews", "thread_state"}
    /\ Listed = {"files", "comments", "review_comments", "reviews"}
  <1>1. DOMAIN ReadOrder = 1..5
    BY DEF ReadOrder
  <1>2. Resources = {ReadOrder[1], ReadOrder[2], ReadOrder[3], ReadOrder[4], ReadOrder[5]}
    BY <1>1 DEF Resources
  <1> QED BY <1>2 DEF ReadOrder, Listed

LEMMA Positions ==
    /\ Position("files") = 1 /\ Position("comments") = 2 /\ Position("review_comments") = 3
    /\ Position("reviews") = 4 /\ Position("thread_state") = 5
  <1>1. DOMAIN ReadOrder = 1..5
    BY DEF ReadOrder
  <1>2. ASSUME NEW i \in 1..5
        PROVE  Position(ReadOrder[i]) = i
    <2>1. \A j \in DOMAIN ReadOrder : ReadOrder[j] = ReadOrder[i] <=> j = i
      BY <1>1 DEF ReadOrder
    <2>2. i \in DOMAIN ReadOrder
      BY <1>1
    <2> QED BY <2>1, <2>2 DEF Position
  <1>3. /\ ReadOrder[1] = "files" /\ ReadOrder[2] = "comments" /\ ReadOrder[3] = "review_comments"
        /\ ReadOrder[4] = "reviews" /\ ReadOrder[5] = "thread_state"
    BY DEF ReadOrder
  <1>4. /\ Position(ReadOrder[1]) = 1 /\ Position(ReadOrder[2]) = 2 /\ Position(ReadOrder[3]) = 3
        /\ Position(ReadOrder[4]) = 4 /\ Position(ReadOrder[5]) = 5
    BY <1>2
  <1> QED BY <1>3, <1>4

LEMMA Followings ==
    /\ Following("files") = "comments" /\ Following("comments") = "review_comments"
    /\ Following("review_comments") = "reviews" /\ Following("reviews") = "thread_state"
    /\ Following("thread_state") = "build"
  BY Positions DEF Following, ReadOrder

LEMMA SegmentTyped ==
    ASSUME NEW S, NEW seq \in Seq(S), NEW page \in Nat \ {0}
    PROVE  Segment(seq, page) \in Seq(S)
  <1> DEFINE first == (page - 1) * PerPage + 1
             last == IF page * PerPage < Len(seq) THEN page * PerPage ELSE Len(seq)
  <1>1. PerPage \in Nat /\ Len(seq) \in Nat /\ page - 1 \in Nat
    BY GitHubReadAssumption
  <1>2. page * PerPage \in Nat /\ (page - 1) * PerPage \in Nat
    BY <1>1
  <1>3. first \in Int /\ last \in Int /\ 1 <= first /\ last <= Len(seq)
    BY <1>1, <1>2
  <1> HIDE DEF first, last
  <1>4. \A i \in first..last : seq[i] \in S
    BY <1>1, <1>3
  <1>5. SubSeq(seq, first, last) \in Seq(S)
    BY <1>3, <1>4, SubSeqProperties, Zenon
  <1> QED BY <1>5 DEF Segment, first, last

LEMMA LivePages ==
    ASSUME NEW S, NEW r \in Listed, listing[r] \in Seq(S), NEW page \in Nat \ {0}
    PROVE  LET answer == LivePage(r, page)
           IN \/ page <= MaxPages /\ answer = RaisedError
              \/ answer = ErrorPage("pagination_incomplete")
              \/ \E its \in Seq(S) : answer = ItemsPage(its, Last)
              \/ page < MaxPages /\ \E its \in Seq(S) : answer = ItemsPage(its, page + 1)
  <1>1. Objects(Segment(listing[r], page)) \in Seq(S)
    BY SegmentTyped, ObjectsTyped
  <1>2. MaxPages \in Nat
    BY GitHubReadAssumption
  <1> QED BY <1>1, <1>2 DEF LivePage

LEMMA NextCursor ==
    ASSUME NEW pages, NEW i \in Nat \ {0}
    PROVE  CursorOf(pages, i + 1) = pages[i].next
  <1>1. i + 1 # 1 /\ i + 1 - 1 = i
    OBVIOUS
  <1>2. \A n : n # 1 => CursorOf(pages, n) = pages[n - 1].next
    BY DEF CursorOf
  <1>3. CursorOf(pages, i + 1) = pages[i + 1 - 1].next
    BY <1>1, <1>2
  <1> QED BY <1>1, <1>3

LEMMA DocumentPages ==
    ASSUME NEW pages, Loads(pages), pages \in Seq({pages[i] : i \in DOMAIN pages}),
           NEW i \in 1..Len(pages)
    PROVE  /\ CursorOf(pages, i) \in DOMAIN PageMap(pages)
           /\ PageMap(pages)[CursorOf(pages, i)] = pages[i]
  <1>1. DOMAIN pages = 1..Len(pages)
    OBVIOUS
  <1>2. \A j \in DOMAIN pages : CursorOf(pages, j) = CursorOf(pages, i) <=> j = i
    BY <1>1 DEF Loads
  <1>3. (CHOOSE j \in DOMAIN pages : CursorOf(pages, j) = CursorOf(pages, i)) = i
    BY <1>1, <1>2
  <1>4. CursorOf(pages, i) \in {CursorOf(pages, j) : j \in DOMAIN pages}
    BY <1>1
  <1> QED BY <1>3, <1>4, Zenon DEF PageMap

(***************************************************************************)
(* An answer that is taken is a page of items, with a next page that was   *)
(* not seen; live, the elements are the listing's and the next page is     *)
(* within the cap.                                                         *)
(***************************************************************************)
LEMMA ReasonsAndPlaceholders ==
    /\ None # Last /\ None \notin Reasons /\ None \notin Nat /\ Last \notin Nat /\ GhFailures \subseteq Reasons
    /\ "timeout" \in Reasons /\ "pagination_incomplete" \in Reasons /\ "unavailable" \in Reasons
  BY GitHubReadAssumption DEF Reasons, RetryableReasons, FinalReasons, GhReasons

LEMMA DocumentAnswers ==
    ASSUME ReadInv, source = "document", at \in Resources
    PROVE  /\ document[at] \in Seq({document[at][i] : i \in DOMAIN document[at]})
           /\ \A page \in Answers(at) : page = document[at][page_number] /\ IsPage(page)
  <1> USE DEF ReadInv
  <1>1. document \in Documents /\ Loads(document[at]) /\ book[at] = PageMap(document[at])
    BY ResourceNames DEF FakesGiven, Loaded, Concluded
  <1>2. /\ document[at] \in Seq({document[at][i] : i \in DOMAIN document[at]})
        /\ \A i \in DOMAIN document[at] : IsPage(document[at][i])
    BY <1>1, GitHubReadAssumption
  <1>3. page_number \in 1..Len(document[at]) /\ cursor = CursorOf(document[at], page_number)
    BY DEF DocumentFollowed
  <1>4. \A page \in Answers(at) : page = IF cursor \in DOMAIN book[at] THEN book[at][cursor] ELSE RaisedError
    BY DEF Answers
  <1>5. \A page \in Answers(at) : page = document[at][page_number]
    BY <1>1, <1>2, <1>3, <1>4, DocumentPages
  <1>6. IsPage(document[at][page_number])
    BY <1>2, <1>3
  <1> QED BY <1>2, <1>5, <1>6

LEMMA AnswersArePages ==
    ASSUME ReadInv, at \in Resources, NEW page \in Answers(at)
    PROVE  /\ IsPage(page)
           /\ page.kind = "items" => page.items \in Seq(Item)
           /\ source = "live" /\ page.kind = "error" /\ page # LivePage(at, PageOfCursor)
                => page.reason \in Reasons
           /\ source = "live" /\ page.kind = "items" =>
                /\ \A S : at \in Listed /\ listing[at] \in Seq(S) => page.items \in Seq(S)
                /\ page.next # Last => page_number < MaxPages /\ page.next = page_number + 1
  <1> USE DEF ReadInv
  <1>1. CASE source = "live" /\ at = "thread_state"
    <2>1. page = ItemsPage(<<>>, Last) /\ at \notin Listed
      BY <1>1 DEF Answers, Listed
    <2>2. <<>> \in Seq(Item)
      OBVIOUS
    <2> QED BY <2>1, <2>2, ReasonsAndPlaceholders DEF ItemsPage, IsPage
  <1>2. CASE source = "live" /\ at # "thread_state" /\ page \in FailedCalls
    <2>1. PICK reason \in GhFailures : page = ErrorPage(reason)
      BY <1>2 DEF FailedCalls
    <2> QED BY <2>1, ReasonsAndPlaceholders DEF ErrorPage, IsPage
  <1>3. CASE source = "live" /\ at # "thread_state" /\ page = LivePage(at, PageOfCursor)
    <2>1. at \in Listed /\ page_number \in Nat \ {0} /\ PageOfCursor = page_number
      BY <1>3, ReasonsAndPlaceholders DEF Listed, ReadInOrder, LivePageCounted, PageOfCursor
    <2>2. listing[at] \in Seq(Item)
      BY <2>1 DEF TypeOK
    <2>3. ASSUME NEW S, listing[at] \in Seq(S)
          PROVE  \/ page = RaisedError
                 \/ page = ErrorPage("pagination_incomplete")
                 \/ \E its \in Seq(S) : page = ItemsPage(its, Last)
                 \/ page_number < MaxPages /\ \E its \in Seq(S) : page = ItemsPage(its, page_number + 1)
      BY <1>3, <2>1, <2>3, LivePages
    <2>4. ASSUME NEW S, listing[at] \in Seq(S)
          PROVE  page.kind = "items" =>
                    /\ page.items \in Seq(S)
                    /\ page.next # Last => page_number < MaxPages /\ page.next = page_number + 1
      BY <2>3, <2>4 DEF RaisedError, ErrorPage, ItemsPage
    <2>5. page.kind \in {"items", "error", "raised"}
      BY <2>2, <2>3 DEF RaisedError, ErrorPage, ItemsPage
    <2>6. page.kind = "items" => page.next \in {Last, page_number + 1}
      BY <2>2, <2>4
    <2>7. None # Last /\ None # page_number + 1
      BY <2>1, ReasonsAndPlaceholders
    <2> QED BY <1>3, <2>1, <2>2, <2>4, <2>5, <2>6, <2>7 DEF IsPage
  <1>4. CASE source # "live"
    <2>1. page = IF cursor \in DOMAIN book[at] THEN book[at][cursor] ELSE RaisedError
      BY <1>4 DEF Answers
    <2>2. CASE cursor \notin DOMAIN book[at]
      BY <1>4, <2>1, <2>2 DEF RaisedError, IsPage
    <2>3. CASE cursor \in DOMAIN book[at] /\ source = "caller"
      <3>1. book \in Books
        BY <2>3 DEF FakesGiven
      <3>2. IsPage(book[at][cursor])
        BY <2>3, <3>1, GitHubReadAssumption
      <3> QED BY <1>4, <2>1, <2>3, <3>2 DEF IsPage
    <2>4. CASE source = "document"
      <3>1. page = document[at][page_number] /\ IsPage(page)
        BY <2>4, DocumentAnswers
      <3> QED BY <1>4, <3>1 DEF IsPage
    <2> QED BY <1>4, <2>2, <2>3, <2>4 DEF TypeOK
  <1> QED BY <1>1, <1>2, <1>3, <1>4 DEF Answers

LEMMA TakenPages ==
    ASSUME NEW page, IsPage(page), PageFailure(page) = None
    PROVE  page.kind = "items" /\ page.next # Malformed /\ page.next \notin seen_cursors
  BY ReasonsAndPlaceholders DEF PageFailure, IsPage, Followed
-----------------------------------------------------------------------------
(***************************************************************************)
(* The invariant holds at the start, and every step keeps each part of it. *)
(***************************************************************************)
LEMMA ReadInvInit == Init => ReadInv
  <1> SUFFICES ASSUME Init PROVE ReadInv
    OBVIOUS
  <1>1. <<>> \in Seq(Item) /\ 1 \in Nat /\ 0 \in 0..MaxAdded /\ 0 \in 0..MaxRemoved
    BY GitHubReadAssumption
  <1>2. listing \in [Listed -> Seq(Item)]
    BY <1>1, GitHubReadAssumption DEF Init
  <1>3. TypeOK
    BY <1>1, <1>2 DEF Init, TypeOK, Steps
  <1>4. outcome = None /\ at = "start" /\ at \notin Resources /\ at \notin Concluded
    BY ResourceNames DEF Init, Concluded
  <1>5. NoneConcluded /\ NothingReadYet /\ ReadInOrder /\ LivePageCounted /\ Loaded /\ DocumentFollowed
    BY <1>4 DEF Init, NoneConcluded, NothingReadYet, ReadInOrder, LivePageCounted, Loaded,
                DocumentFollowed
  <1>6. FakesGiven
    BY DEF Init, FakesGiven
  <1>7. ReadOfTheTarget
    <2>1. source = "live" => FilesOf(listing["files"], head)
      BY GitHubReadAssumption DEF Init, FilesOf
    <2>2. target \notin Nat
      BY ReasonsAndPlaceholders DEF Init
    <2> QED BY <1>4, <2>1, <2>2 DEF ReadOfTheTarget
  <1>8. ResultJustified
    BY <1>4 DEF ResultJustified, ThreadsKnown, MixedReadIsStale, GapNamesTheMissingPage,
                LoadedDocumentsReadThrough
  <1> QED BY <1>3, <1>5, <1>6, <1>7, <1>8 DEF ReadInv

LEMMA ConcludedStep == ReadInv /\ [Next]_vars => NoneConcluded'
  <1> SUFFICES ASSUME NoneConcluded, [Next]_vars PROVE NoneConcluded'
    BY DEF ReadInv
  <1>1. CASE Read
    BY <1>1, ResourceNames DEF NoneConcluded, Concluded, Read, Start, RejectDocument, BlockLiveRead, ReadMetadata,
       FailMetadata, RejectMetadata, FailPage, TakePage, TakeLastPage, RejectItems, FailOnOrphans,
       Complete, Report, Conclude
  <1>2. CASE People
    BY <1>2 DEF NoneConcluded, People, AddItem, RemoveItem, Push
  <1>3. CASE UNCHANGED vars
    BY <1>3 DEF NoneConcluded, vars
  <1> QED BY <1>1, <1>2, <1>3 DEF Next

LEMMA FakesStep == ReadInv /\ [Next]_vars => FakesGiven'
  <1> SUFFICES ASSUME FakesGiven, [Next]_vars PROVE FakesGiven'
    BY DEF ReadInv
  <1>1. CASE Read
    BY <1>1 DEF FakesGiven, fakeVars, Read, Start, RejectDocument, BlockLiveRead, ReadMetadata,
       FailMetadata, RejectMetadata, FailPage, TakePage, TakeLastPage, RejectItems, FailOnOrphans,
       Complete, Report
  <1>2. CASE People
    BY <1>2 DEF FakesGiven, fakeVars, People, AddItem, RemoveItem, Push
  <1>3. CASE UNCHANGED vars
    BY <1>3 DEF FakesGiven, fakeVars, vars
  <1> QED BY <1>1, <1>2, <1>3 DEF Next

LEMMA UnreadStep == ReadInv /\ [Next]_vars => NothingReadYet'
  <1> SUFFICES ASSUME NothingReadYet, [Next]_vars PROVE NothingReadYet'
    BY DEF ReadInv
  <1>1. CASE Start
    BY <1>1 DEF NothingReadYet, pageVars, Start
  <1>2. CASE TakePage
    BY <1>2, ResourceNames DEF NothingReadYet, TakePage
  <1>3. CASE TakeLastPage
    BY <1>3, ResourceNames, Followings DEF NothingReadYet, TakeLastPage
  <1>4. CASE Read /\ ~Start /\ ~TakePage /\ ~TakeLastPage
    BY <1>4 DEF NothingReadYet, Read, RejectDocument, BlockLiveRead, ReadMetadata,
       FailMetadata, RejectMetadata, FailPage, RejectItems, FailOnOrphans,
       Complete, Report, Conclude
  <1>5. CASE People
    BY <1>5 DEF NothingReadYet, pageVars, People, AddItem, RemoveItem, Push
  <1>6. CASE UNCHANGED vars
    BY <1>6 DEF NothingReadYet, pageVars, vars
  <1> QED BY <1>1, <1>2, <1>3, <1>4, <1>5, <1>6 DEF Next, Read
\* Every other step concludes the read, or leaves it where it is.
Goes == Start \/ ReadMetadata \/ TakePage \/ TakeLastPage

LEMMA OthersStay ==
    ASSUME [Next]_vars, ~Goes
    PROVE  /\ UNCHANGED <<target, items, document, source>>
           /\ at' \in Concluded \/ UNCHANGED <<at, book, cursor, page_number, seen_cursors, requests>>
  <1>1. CASE Read
    BY <1>1 DEF Goes, Concluded, fakeVars, pageVars, Read, RejectDocument, BlockLiveRead, FailMetadata,
       RejectMetadata, FailPage, RejectItems, FailOnOrphans, Complete, Report, Conclude
  <1>2. CASE People
    BY <1>2 DEF fakeVars, pageVars, People, AddItem, RemoveItem, Push
  <1>3. CASE UNCHANGED vars
    BY <1>3 DEF fakeVars, pageVars, vars
  <1> QED BY <1>1, <1>2, <1>3 DEF Next

LEMMA NoPlace == Concluded \cap (Resources \cup {"start", "metadata", "build"}) = {}
  BY ResourceNames DEF Concluded

LEMMA InOrderStep == ReadInv /\ [Next]_vars => ReadInOrder'
  <1> SUFFICES ASSUME ReadInv, [Next]_vars PROVE ReadInOrder'
    OBVIOUS
  <1> USE DEF ReadInv
  <1>1. requests \in [Resources -> Nat]
    BY DEF TypeOK
  <1>2. CASE Start
    BY <1>2, ResourceNames DEF Start, ReadInOrder
  <1>3. CASE ReadMetadata
    <2>1. at' = "files" /\ page_number' = 1 /\ requests' = [r \in Resources |-> 0]
      BY <1>3 DEF ReadMetadata, NothingReadYet, pageVars
    <2>2. \A r \in Resources : ~(Position(r) < Position("files"))
      BY ResourceNames, Positions
    <2> QED BY <2>1, <2>2, ResourceNames DEF ReadInOrder
  <1>4. CASE TakePage
    <2>1. /\ at \in Resources /\ at' = at /\ page_number' = page_number + 1
          /\ requests' = [requests EXCEPT ![at] = @ + 1]
      BY <1>4 DEF TakePage, Ask, NextPageNumber
    <2>2. page_number \in Nat \ {0} /\ requests[at] = page_number - 1
      BY <2>1 DEF ReadInOrder
    <2>3. page_number' \in Nat \ {0} /\ requests'[at] = page_number' - 1
      BY <1>1, <2>1, <2>2
    <2>4. \A r \in Resources : r # at => requests'[r] = requests[r]
      BY <1>1, <2>1
    <2>5. Position(at) \in Nat
      BY <2>1, ResourceNames, Positions
    <2>6. \A r \in Resources : Position(r) < Position(at) => r # at /\ requests[r] > 0
      BY <2>1, <2>5 DEF ReadInOrder
    <2>7. \A r \in Resources : Position(r) > Position(at) => r # at /\ requests[r] = 0
      BY <2>1, <2>5 DEF ReadInOrder
    <2>8. at # "build"
      BY <2>1, ResourceNames
    <2> QED BY <2>1, <2>3, <2>4, <2>6, <2>7, <2>8 DEF ReadInOrder
  <1>5. CASE TakeLastPage
    <2>1. /\ at \in Resources /\ at' = Following(at) /\ page_number' = 1
          /\ requests' = [requests EXCEPT ![at] = @ + 1]
      BY <1>5 DEF TakeLastPage, Ask
    <2>2. requests'[at] > 0
      BY <1>1, <2>1
    <2>3. \A r \in Resources : r # at => requests'[r] = requests[r]
      BY <1>1, <2>1
    <2>4. \A r \in Resources : Position(r) < Position(at) => requests[r] > 0
      BY <2>1 DEF ReadInOrder
    <2>5. \A r \in Resources : Position(r) > Position(at) => requests[r] = 0
      BY <2>1 DEF ReadInOrder
    <2>6. \A r \in Resources : Position(r) <= Position(at) => requests'[r] > 0
      <3>1. \A r \in Resources : Position(r) <= Position(at) /\ r # at => Position(r) < Position(at)
        BY <2>1, ResourceNames, Positions
      <3> QED BY <2>2, <2>3, <2>4, <3>1
    <2>7. \A r \in Resources : Position(r) > Position(at) => requests'[r] = 0
      <3>1. Position(at) \in Nat
        BY <2>1, ResourceNames, Positions
      <3> QED BY <2>3, <2>5, <3>1
    <2>8. CASE at = "thread_state"
      <3>1. at' = "build" /\ \A r \in Resources : Position(r) <= Position(at)
        BY <2>1, <2>8, ResourceNames, Positions, Followings
      <3> QED BY <2>6, <3>1, ResourceNames DEF ReadInOrder
    <2>9. CASE at # "thread_state"
      <3>1. at' \in Resources /\ at' # "build" /\ Position(at') = Position(at) + 1 /\ Position(at) \in Nat
        BY <2>1, <2>9, ResourceNames, Positions, Followings
      <3>2. requests'[at'] = 0
        BY <2>7, <3>1
      <3>3. \A r \in Resources : Position(r) < Position(at') => requests'[r] > 0
        <4>1. \A r \in Resources : Position(r) \in Nat
          BY ResourceNames, Positions
        <4> QED BY <2>6, <3>1, <4>1
      <3>4. \A r \in Resources : Position(r) > Position(at') => requests'[r] = 0
        <4>1. \A r \in Resources : Position(r) \in Nat
          BY ResourceNames, Positions
        <4> QED BY <2>7, <3>1, <4>1
      <3> QED BY <2>1, <3>1, <3>2, <3>3, <3>4 DEF ReadInOrder
    <2> QED BY <2>8, <2>9
  <1>6. CASE ~Goes
    BY <1>6, OthersStay, NoPlace DEF ReadInOrder
  <1> QED BY <1>2, <1>3, <1>4, <1>5, <1>6 DEF Goes

LEMMA LiveCountedStep == ReadInv /\ [Next]_vars => LivePageCounted'
  <1> SUFFICES ASSUME ReadInv, [Next]_vars, (source = "live")', at' \in Resources
               PROVE  /\ cursor' = IF page_number' = 1 THEN None ELSE page_number'
                      /\ page_number' <= MaxPages
    BY DEF LivePageCounted
  <1> USE DEF ReadInv
  <1>1. CASE Start
    BY <1>1, ResourceNames DEF Start
  <1>2. CASE ReadMetadata
    <2>1. 1 <= MaxPages
      BY GitHubReadAssumption
    <2> QED BY <1>2, <2>1 DEF ReadMetadata, NothingReadYet, pageVars
  <1>3. CASE TakePage
    <2>1. at \in Resources /\ source = "live" /\ page_number' = page_number + 1
      BY <1>3 DEF TakePage, fakeVars, NextPageNumber
    <2>2. PICK page \in Answers(at) :
            PageFailure(page) = None /\ page.next # Last /\ cursor' = page.next
      BY <1>3 DEF TakePage
    <2>3. page.kind = "items"
      BY <2>1, <2>2, AnswersArePages, TakenPages
    <2>4. page_number < MaxPages /\ page.next = page_number + 1
      BY <2>1, <2>2, <2>3, AnswersArePages
    <2>5. page_number \in Nat \ {0} /\ MaxPages \in Nat
      BY <2>1, GitHubReadAssumption DEF ReadInOrder
    <2> QED BY <2>1, <2>2, <2>4, <2>5
  <1>4. CASE TakeLastPage
    <2>1. 1 <= MaxPages
      BY GitHubReadAssumption
    <2> QED BY <1>4, <2>1 DEF TakeLastPage
  <1>5. CASE ~Goes
    BY <1>5, OthersStay, NoPlace DEF LivePageCounted
  <1> QED BY <1>1, <1>2, <1>3, <1>4, <1>5 DEF Goes

LEMMA LoadedStep == ReadInv /\ [Next]_vars => Loaded'
  <1> SUFFICES ASSUME ReadInv, [Next]_vars, (source = "document")', at' # "start", at' \notin Concluded
               PROVE  \A r \in Resources : Loads(document'[r]) /\ book'[r] = PageMap(document'[r])
    BY DEF Loaded, Loads, WellFormedPages, CursorOf, PageMap
  <1> USE DEF ReadInv
  <1>1. CASE Start
    BY <1>1 DEF Start
  <1>2. CASE ReadMetadata \/ TakePage \/ TakeLastPage
    <2>1. at # "start" /\ at \notin Concluded /\ UNCHANGED <<source, document, book>>
      BY <1>2, NoPlace, ResourceNames DEF ReadMetadata, TakePage, TakeLastPage, fakeVars, Concluded
    <2> QED BY <2>1 DEF Loaded
  <1>3. CASE ~Goes
    BY <1>3, OthersStay DEF Loaded
  <1> QED BY <1>1, <1>2, <1>3 DEF Goes
LEMMA FollowedStep == ReadInv /\ [Next]_vars => DocumentFollowed'
  <1> SUFFICES ASSUME ReadInv, [Next]_vars, (source = "document")', at' \in Resources
               PROVE  /\ page_number' \in 1..Len(document'[at'])
                      /\ cursor' = CursorOf(document'[at'], page_number')
                      /\ seen_cursors' = {CursorOf(document'[at'], i) : i \in 2..page_number'}
    BY DEF DocumentFollowed, CursorOf
  <1> USE DEF ReadInv
  <1>1. CASE Start
    BY <1>1, ResourceNames DEF Start
  <1>2. ASSUME at \in {"metadata"} \cup Resources, UNCHANGED <<source, document>>,
               page_number' = 1, cursor' = None, seen_cursors' = {}
        PROVE  /\ page_number' \in 1..Len(document'[at'])
               /\ cursor' = CursorOf(document'[at'], page_number')
               /\ seen_cursors' = {CursorOf(document'[at'], i) : i \in 2..page_number'}
    <2>1. document \in Documents /\ Loads(document[at'])
      <3>1. at # "start" /\ at \notin Concluded /\ source = "document"
        BY <1>2, NoPlace, ResourceNames
      <3> QED BY <3>1 DEF FakesGiven, Loaded
    <2>2. document[at'] \in Seq({document[at'][i] : i \in DOMAIN document[at']}) /\ document[at'] # <<>>
      BY <2>1, GitHubReadAssumption DEF Loads, WellFormedPages
    <2>3. 1 \in 1..Len(document[at'])
      BY <2>2
    <2>4. CursorOf(document[at'], 1) = None
      BY DEF CursorOf
    <2> QED BY <1>2, <2>3, <2>4
  <1>3. CASE ReadMetadata
    BY <1>2, <1>3 DEF ReadMetadata, NothingReadYet, fakeVars, pageVars
  <1>4. CASE TakePage
    <2> DEFINE pages == document[at]
    <2>1. /\ at \in Resources /\ source = "document" /\ page_number' = page_number + 1
          /\ UNCHANGED <<at, document>>
      BY <1>4 DEF TakePage, fakeVars, NextPageNumber
    <2>2. PICK page \in Answers(at) :
            /\ PageFailure(page) = None /\ page.next # Last
            /\ seen_cursors' = seen_cursors \cup {page.next} /\ cursor' = page.next
      BY <1>4 DEF TakePage
    <2>3. page = pages[page_number] /\ IsPage(page)
      BY <2>1, <2>2, DocumentAnswers
    <2>4. page.kind = "items"
      BY <2>2, <2>3, TakenPages
    <2>5. WellFormedPages(pages)
      BY <2>1, NoPlace, ResourceNames DEF Loaded, Loads
    <2>6. page_number \in 1..Len(pages) /\ DOMAIN pages = 1..Len(pages) /\ Len(pages) \in Nat
      BY <2>1, DocumentAnswers DEF DocumentFollowed
    <2>7. page_number # Len(pages)
      BY <2>2, <2>3, <2>4, <2>5, <2>6 DEF WellFormedPages
    <2>8. page_number + 1 \in 1..Len(pages) /\ page_number + 1 # 1 /\ page_number + 1 - 1 = page_number
      BY <2>6, <2>7
    <2>9. CursorOf(pages, page_number + 1) = page.next
      <3>1. CursorOf(pages, page_number + 1) = pages[page_number].next
        BY <2>6, NextCursor
      <3> QED BY <2>3, <3>1
    <2>10. seen_cursors = {CursorOf(pages, i) : i \in 2..page_number}
      BY <2>1 DEF DocumentFollowed
    <2>11. 2..page_number + 1 = 2..page_number \cup {page_number + 1}
      BY <2>6
    <2>12. {CursorOf(pages, i) : i \in 2..page_number + 1}
             = {CursorOf(pages, i) : i \in 2..page_number} \cup {CursorOf(pages, page_number + 1)}
      BY <2>11
    <2> HIDE DEF pages
    <2> QED BY <2>1, <2>2, <2>8, <2>9, <2>10, <2>12 DEF pages
  <1>5. CASE TakeLastPage
    BY <1>2, <1>5 DEF TakeLastPage, fakeVars
  <1>6. CASE ~Goes
    <2>1. UNCHANGED <<source, document, at, cursor, page_number, seen_cursors>>
      BY <1>6, OthersStay, NoPlace
    <2> QED BY <2>1 DEF DocumentFollowed
  <1> QED BY <1>1, <1>3, <1>4, <1>5, <1>6 DEF Goes
\* Elements of one commit stay so when the listing is cut into pages and joined.
OfCommit(commit) == {item \in Item : item.commit = commit}

LEMMA FilesOfCommit ==
    ASSUME NEW seq \in Seq(Item), NEW commit
    PROVE  FilesOf(seq, commit) <=> seq \in Seq(OfCommit(commit))
  <1>1. Len(seq) \in Nat /\ seq \in [1..Len(seq) -> Item] /\ DOMAIN seq = 1..Len(seq)
    OBVIOUS
  <1>2. ASSUME FilesOf(seq, commit) PROVE seq \in Seq(OfCommit(commit))
    <2>1. seq \in [1..Len(seq) -> OfCommit(commit)]
      BY <1>1, <1>2 DEF FilesOf, OfCommit
    <2> QED BY <1>1, <2>1
  <1>3. ASSUME seq \in Seq(OfCommit(commit)) PROVE FilesOf(seq, commit)
    <2>1. \A i \in DOMAIN seq : seq[i] \in OfCommit(commit)
      BY <1>3
    <2> QED BY <2>1 DEF FilesOf, OfCommit
  <1> QED BY <1>2, <1>3

LEMMA PushedTyped ==
    ASSUME NEW files \in PushedFiles, NEW commit \in Nat
    PROVE  LET pushed == [i \in DOMAIN files |-> [files[i] EXCEPT !.commit = commit]]
           IN  pushed \in Seq(Item) /\ FilesOf(pushed, commit)
  <1> DEFINE pushed == [i \in DOMAIN files |-> [files[i] EXCEPT !.commit = commit]]
  <1>1. files \in Seq(Item) /\ DOMAIN files = 1..Len(files) /\ Len(files) \in Nat
    BY GitHubReadAssumption
  <1>2. \A i \in 1..Len(files) :
            /\ [files[i] EXCEPT !.commit = commit] \in Item
            /\ [files[i] EXCEPT !.commit = commit].commit = commit
    <2> SUFFICES ASSUME NEW i \in 1..Len(files)
                 PROVE  /\ [files[i] EXCEPT !.commit = commit] \in Item
                        /\ [files[i] EXCEPT !.commit = commit].commit = commit
      OBVIOUS
    <2>1. files[i] \in Item
      BY <1>1
    <2> QED BY <2>1 DEF Item
  <1>3. pushed \in [1..Len(files) -> Item]
    BY <1>1, <1>2
  <1>4. pushed \in Seq(Item)
    BY <1>1, <1>3
  <1>5. FilesOf(pushed, commit)
    BY <1>1, <1>2 DEF FilesOf
  <1> QED BY <1>4, <1>5

LEMMA TargetStep == ReadInv /\ [Next]_vars => ReadOfTheTarget'
  <1> SUFFICES ASSUME ReadInv, [Next]_vars PROVE ReadOfTheTarget'
    OBVIOUS
  <1> USE DEF ReadInv
  <1>0. head \in Nat /\ items \in [Resources -> Seq(Item)] /\ listing \in [Listed -> Seq(Item)]
    BY DEF TypeOK
  <1>1. CASE Start
    BY <1>1 DEF Start, worldVars, fakeVars, ReadOfTheTarget
  <1>2. CASE ReadMetadata
    <2>1. items'["files"] = <<>> /\ target' = head /\ UNCHANGED <<head, listing, source>>
      BY <1>2, ResourceNames DEF ReadMetadata, worldVars, fakeVars, NothingReadYet
    <2> QED BY <1>0, <2>1 DEF ReadOfTheTarget, FilesOf
  <1>3. CASE TakePage \/ TakeLastPage
    <2>1. /\ UNCHANGED <<head, listing, target, source>> /\ at \in Resources
          /\ at \notin {"start", "metadata"} /\ at \notin Concluded
      BY <1>3, NoPlace, ResourceNames DEF TakePage, TakeLastPage, worldVars, fakeVars
    <2>2. target \in Nat
      BY <2>1 DEF ReadOfTheTarget
    <2>3. PICK page \in Answers(at) :
            PageFailure(page) = None /\ items' = [items EXCEPT ![at] = @ \o page.items]
      BY <1>3 DEF TakePage, TakeLastPage
    <2>4. IsPage(page) /\ page.kind = "items" /\ page.items \in Seq(Item)
      BY <2>1, <2>3, AnswersArePages, TakenPages
    <2>5. ASSUME source = "live", head = target, at = "files"
          PROVE  FilesOf(items'["files"], target)
      <3>1. items["files"] \in Seq(OfCommit(target))
        BY <1>0, <2>1, <2>2, <2>5, FilesOfCommit DEF ReadOfTheTarget
      <3>2. listing["files"] \in Seq(OfCommit(target))
        BY <1>0, <2>1, <2>5, FilesOfCommit, ResourceNames DEF ReadOfTheTarget
      <3>3. page.items \in Seq(OfCommit(target))
        BY <2>1, <2>3, <2>4, <2>5, <3>2, AnswersArePages, ResourceNames
      <3>4. items'["files"] = items["files"] \o page.items
        BY <1>0, <2>1, <2>3, <2>5
      <3>5. items["files"] \o page.items \in Seq(OfCommit(target))
        BY <3>1, <3>3
      <3>6. items["files"] \o page.items \in Seq(Item)
        BY <1>0, <2>1, <2>4, <2>5
      <3> QED BY <3>4, <3>5, <3>6, FilesOfCommit
    <2>6. at # "files" => items'["files"] = items["files"]
      BY <1>0, <2>1, <2>3, ResourceNames
    <2> QED BY <2>1, <2>2, <2>5, <2>6 DEF ReadOfTheTarget
  <1>4. CASE Read /\ ~Goes
    <2>1. UNCHANGED <<head, listing, target, source, items>>
      BY <1>4 DEF Goes, worldVars, fakeVars, Read, RejectDocument, BlockLiveRead, FailMetadata,
         RejectMetadata, FailPage, RejectItems, FailOnOrphans, Complete, Report
    <2> QED BY <1>4, <2>1, OthersStay DEF ReadOfTheTarget
  <1>5. ASSUME NEW r \in Listed \ {"files"}, UNCHANGED <<head, target, source, items, at>>,
               listing' = [listing EXCEPT ![r] = listing'[r]]
        PROVE  ReadOfTheTarget'
    <2>1. listing'["files"] = listing["files"]
      BY <1>0, <1>5, ResourceNames
    <2> QED BY <1>5, <2>1 DEF ReadOfTheTarget
  <1>6. ASSUME NEW r \in Listed, NEW thread \in Threads \cup {None}, AddItem(r, thread)
        PROVE  ReadOfTheTarget'
    <2>1. r \in Listed \ {"files"} /\ UNCHANGED <<head, target, source, items, at>>
      BY <1>6 DEF AddItem, fakeVars
    <2>2. listing' = [listing EXCEPT ![r] = listing'[r]]
      BY <1>0, <1>6, <2>1 DEF AddItem
    <2> QED BY <1>5, <2>1, <2>2
  <1>7. ASSUME NEW r \in Listed, NEW i \in DOMAIN listing[r], RemoveItem(r, i)
        PROVE  ReadOfTheTarget'
    <2>1. r \in Listed \ {"files"} /\ UNCHANGED <<head, target, source, items, at>>
      BY <1>7 DEF RemoveItem, fakeVars
    <2>2. listing' = [listing EXCEPT ![r] = listing'[r]]
      BY <1>0, <1>7, <2>1 DEF RemoveItem
    <2> QED BY <1>5, <2>1, <2>2
  <1>8. ASSUME NEW files \in PushedFiles, Push(files)
        PROVE  ReadOfTheTarget'
    <2>1. /\ UNCHANGED <<target, source, items, at>> /\ head' = head + 1
          /\ listing' = [listing EXCEPT !["files"] =
                [i \in DOMAIN files |-> [files[i] EXCEPT !.commit = head + 1]]]
      BY <1>8 DEF Push, fakeVars
    <2>2. FilesOf(listing'["files"], head')
      <3> DEFINE pushed == [i \in DOMAIN files |-> [files[i] EXCEPT !.commit = head + 1]]
      <3>1. head + 1 \in Nat
        BY <1>0
      <3>2. FilesOf(pushed, head + 1)
        BY <3>1, PushedTyped
      <3>3. listing'["files"] = pushed
        BY <1>0, <2>1, ResourceNames
      <3> HIDE DEF pushed
      <3> QED BY <2>1, <3>2, <3>3
    <2>3. ASSUME target \in Nat, source = "live"
          PROVE  target <= head' /\ head' # target
      BY <1>0, <2>1, <2>3 DEF ReadOfTheTarget
    <2> QED BY <2>1, <2>2, <2>3 DEF ReadOfTheTarget
  <1>9. CASE UNCHANGED vars
    BY <1>9 DEF ReadOfTheTarget, vars, worldVars, fakeVars
  <1> QED BY <1>1, <1>2, <1>3, <1>4, <1>6, <1>7, <1>8, <1>9 DEF Next, People, Goes
-----------------------------------------------------------------------------
(***************************************************************************)
(* Types: what is concluded is a gap of the four kinds; listings stay      *)
(* sequences of elements whatever people do.                               *)
(***************************************************************************)
LEMMA GapsTyped ==
    /\ \A r \in Resources \cup {"metadata"} : \A reason : GapOf(r, reason) \in Gap
    /\ \A r \in Resources \cup {"metadata"} : \A reason, page :
        /\ FailClosed(r, reason, page).kind = "fail_closed"
        /\ FailClosed(r, reason, page).gap \in Gap
  <1>1. \A reason : Classified(reason) \in Reasons
    BY ReasonsAndPlaceholders DEF Classified
  <1>2. ASSUME NEW r \in Resources \cup {"metadata"}, NEW reason PROVE GapOf(r, reason) \in Gap
    <2>1. (Classified(reason) \in RetryableReasons) \in BOOLEAN
      OBVIOUS
    <2> QED BY <1>1, <2>1 DEF GapOf, Gap
  <1> QED BY <1>2 DEF FailClosed

OutcomeTyped(result) ==
    \/ result = None
    \/ result.kind \in {"complete", "error"}
    \/ result.kind = "fail_closed" /\ result.gap \in Gap

LEMMA RaisedTyped == \A error : OutcomeTyped(Raised(error))
  BY GapsTyped DEF Raised, OutcomeTyped

LEMMA ListingTyped ==
    ASSUME NEW l \in [Listed -> Seq(Item)], NEW r \in Listed, NEW changed \in Seq(Item)
    PROVE  [l EXCEPT ![r] = changed] \in [Listed -> Seq(Item)]
  OBVIOUS

LEMMA RemovedTyped ==
    ASSUME NEW seq \in Seq(Item), NEW i \in DOMAIN seq
    PROVE  SubSeq(seq, 1, i - 1) \o SubSeq(seq, i + 1, Len(seq)) \in Seq(Item)
  <1>1. i \in 1..Len(seq) /\ Len(seq) \in Nat
    OBVIOUS
  <1>2. /\ \A j \in 1..i - 1 : seq[j] \in Item
        /\ \A j \in i + 1..Len(seq) : seq[j] \in Item
    BY <1>1
  <1>3. 1 \in Int /\ i - 1 \in Int /\ i + 1 \in Int /\ Len(seq) \in Int
    BY <1>1
  <1>4. SubSeq(seq, 1, i - 1) \in Seq(Item) /\ SubSeq(seq, i + 1, Len(seq)) \in Seq(Item)
    BY <1>2, <1>3, SubSeqProperties, Zenon
  <1> QED BY <1>4

LEMMA TypeStep == ReadInv /\ [Next]_vars => TypeOK'
  <1> SUFFICES ASSUME ReadInv, [Next]_vars PROVE TypeOK'
    OBVIOUS
  <1>0. TypeOK
    BY DEF ReadInv
  <1>1. CASE Start \/ RejectDocument \/ BlockLiveRead \/ ReadMetadata \/ RejectMetadata
    <2>1. at' \in Steps
      BY <1>1, ResourceNames DEF Start, RejectDocument, BlockLiveRead, ReadMetadata, RejectMetadata,
         Conclude, Steps
    <2>2. UNCHANGED <<worldVars, source, page_number, items, requests, disturbed, last_error>>
      BY <1>1 DEF Start, RejectDocument, BlockLiveRead, ReadMetadata, RejectMetadata, fakeVars, pageVars
    <2>3. target' \in Nat \cup {None}
      BY <1>0, <1>1 DEF Start, RejectDocument, BlockLiveRead, ReadMetadata, RejectMetadata, TypeOK
    <2>4. OutcomeTyped(outcome')
      BY <1>0, <1>1, RaisedTyped DEF Start, RejectDocument, BlockLiveRead, ReadMetadata, RejectMetadata,
         Conclude, TypeOK, OutcomeTyped
    <2>5. report' \in {report, "blocked"}
      BY <1>1 DEF Start, RejectDocument, BlockLiveRead, ReadMetadata, RejectMetadata
    <2> QED BY <1>0, <2>1, <2>2, <2>3, <2>4, <2>5 DEF TypeOK, OutcomeTyped, worldVars
  <1>2. CASE FailMetadata
    <2>1. PICK reason \in GhFailures : last_error' = reason /\ outcome' = Raised(reason)
      BY <1>2 DEF FailMetadata, Conclude
    <2>2. last_error' \in Reasons \cup {None} /\ OutcomeTyped(outcome') /\ at' \in Steps
      BY <1>2, <2>1, ReasonsAndPlaceholders, RaisedTyped DEF FailMetadata, Conclude, Steps
    <2> QED BY <1>0, <1>2, <2>2 DEF FailMetadata, TypeOK, OutcomeTyped, worldVars, fakeVars, pageVars
  <1>3. CASE FailPage
    <2>1. PICK page \in Answers(at) :
            /\ outcome' = FailClosed(at, PageFailure(page), page_number)
            /\ last_error' = IF source = "live" /\ page.kind = "error" /\ page # LivePage(at, PageOfCursor)
                             THEN page.reason ELSE last_error
      BY <1>3 DEF FailPage, Conclude
    <2>2. at \in Resources /\ at' \in Steps
      BY <1>3 DEF FailPage, Conclude, Steps
    <2>3. last_error' \in Reasons \cup {None}
      BY <1>0, <2>1, <2>2, AnswersArePages DEF TypeOK
    <2>4. OutcomeTyped(outcome')
      BY <2>1, <2>2, GapsTyped DEF OutcomeTyped
    <2>5. requests' \in [Resources -> Nat]
      BY <1>0, <1>3 DEF FailPage, Ask, TypeOK
    <2> QED BY <1>0, <1>3, <2>2, <2>3, <2>4, <2>5 DEF FailPage, TypeOK, OutcomeTyped, worldVars, fakeVars,
               pageVars
  <1>4. CASE TakePage \/ TakeLastPage
    <2>1. PICK page \in Answers(at) :
            PageFailure(page) = None /\ items' = [items EXCEPT ![at] = @ \o page.items]
      BY <1>4 DEF TakePage, TakeLastPage
    <2>2. at \in Resources
      BY <1>4 DEF TakePage, TakeLastPage
    <2>3. page.items \in Seq(Item)
      BY <2>1, <2>2, AnswersArePages, TakenPages
    <2>4. items[at] \o page.items \in Seq(Item)
      BY <1>0, <2>2, <2>3 DEF TypeOK
    <2>5. items' \in [Resources -> Seq(Item)]
      BY <1>0, <2>1, <2>4 DEF TypeOK
    <2>6. at' \in Steps
      BY <1>4, <2>2, ResourceNames, Followings DEF TakePage, TakeLastPage, Steps
    <2>7. requests' = [requests EXCEPT ![at] = @ + 1] /\ page_number' \in {1, page_number + 1}
      BY <1>4 DEF TakePage, TakeLastPage, Ask, NextPageNumber
    <2>8. requests' \in [Resources -> Nat] /\ page_number' \in Nat
      BY <1>0, <2>2, <2>7 DEF TypeOK
    <2> QED BY <1>0, <1>4, <2>5, <2>6, <2>8 DEF TakePage, TakeLastPage, TypeOK, worldVars, fakeVars
  <1>5. CASE RejectItems \/ FailOnOrphans \/ Complete
    <2>1. at' \in Steps
      BY <1>5 DEF RejectItems, FailOnOrphans, Complete, Conclude, Steps
    <2>2. OutcomeTyped(outcome')
      <3>1. CASE RejectItems
        BY <3>1, RaisedTyped DEF RejectItems, Conclude
      <3>2. CASE FailOnOrphans
        BY <3>2, GapsTyped, ResourceNames DEF FailOnOrphans, Conclude, OutcomeTyped
      <3>3. CASE Complete
        BY <3>3 DEF Complete, Conclude, OutcomeTyped
      <3> QED BY <1>5, <3>1, <3>2, <3>3
    <2>3. UNCHANGED <<worldVars, fakeVars, pageVars, target, items, requests, disturbed, last_error, report>>
      BY <1>5 DEF RejectItems, FailOnOrphans, Complete
    <2> QED BY <1>0, <2>1, <2>2, <2>3 DEF TypeOK, OutcomeTyped, worldVars, fakeVars, pageVars
  <1>6. CASE Report
    <2>1. report' \in {"blocked", "succeeded", "fail_closed", "reviewed", "input_error"}
      BY <1>6 DEF Report, LiveReport, DryRunReport
    <2> QED BY <1>0, <1>6, <2>1 DEF Report, TypeOK, Steps, worldVars, fakeVars, pageVars
  <1>7. ASSUME NEW r \in Listed, NEW thread \in Threads \cup {None}, AddItem(r, thread)
        PROVE  TypeOK'
    <2> DEFINE item == [id |-> NextId, shape |-> "object", thread |-> thread, commit |-> head]
    <2>1. item \in Item /\ added + 1 \in 0..MaxAdded
      BY <1>0, <1>7, GitHubReadAssumption DEF AddItem, Item, Shapes, NextId, TypeOK
    <2>2. Append(listing[r], item) \in Seq(Item)
      BY <1>0, <2>1 DEF TypeOK
    <2>3. listing' = [listing EXCEPT ![r] = Append(listing[r], item)]
      BY <1>7 DEF AddItem
    <2> HIDE DEF item
    <2>4. listing' \in [Listed -> Seq(Item)]
      BY <1>0, <2>2, <2>3, ListingTyped DEF TypeOK
    <2> QED BY <1>0, <1>7, <2>1, <2>4 DEF AddItem, TypeOK, fakeVars, pageVars
  <1>8. ASSUME NEW r \in Listed, NEW i \in DOMAIN listing[r], RemoveItem(r, i)
        PROVE  TypeOK'
    <2>1. removed + 1 \in 0..MaxRemoved
      BY <1>0, <1>8, GitHubReadAssumption DEF RemoveItem, TypeOK
    <2>2. SubSeq(listing[r], 1, i - 1) \o SubSeq(listing[r], i + 1, Len(listing[r])) \in Seq(Item)
      BY <1>0, RemovedTyped DEF TypeOK
    <2>3. listing' = [listing EXCEPT ![r] =
                        SubSeq(listing[r], 1, i - 1) \o SubSeq(listing[r], i + 1, Len(listing[r]))]
      BY <1>8 DEF RemoveItem
    <2>4. listing' \in [Listed -> Seq(Item)]
      BY <1>0, <2>2, <2>3, ListingTyped DEF TypeOK
    <2>5. disturbed' \subseteq Listed
      BY <1>0, <1>8 DEF RemoveItem, TypeOK
    <2> QED BY <1>0, <1>8, <2>1, <2>4, <2>5 DEF RemoveItem, TypeOK, fakeVars, pageVars
  <1>9. ASSUME NEW files \in PushedFiles, Push(files)
        PROVE  TypeOK'
    <2> DEFINE pushed == [i \in DOMAIN files |-> [files[i] EXCEPT !.commit = head + 1]]
    <2>1. head + 1 \in Nat
      BY <1>0 DEF TypeOK
    <2>2. pushed \in Seq(Item)
      BY <2>1, PushedTyped
    <2>3. listing' = [listing EXCEPT !["files"] = pushed] /\ head' = head + 1
      BY <1>9 DEF Push
    <2> HIDE DEF pushed
    <2>4. listing' \in [Listed -> Seq(Item)]
      BY <1>0, <2>2, <2>3, ListingTyped, ResourceNames DEF TypeOK
    <2>5. disturbed' \subseteq Listed
      BY <1>0, <1>9, ResourceNames DEF Push, TypeOK
    <2> QED BY <1>0, <1>9, <2>1, <2>3, <2>4, <2>5 DEF Push, TypeOK, fakeVars, pageVars
  <1>10. CASE UNCHANGED vars
    BY <1>0, <1>10 DEF TypeOK, vars, worldVars, fakeVars, pageVars
  <1> QED BY <1>1, <1>2, <1>3, <1>4, <1>5, <1>6, <1>7, <1>8, <1>9, <1>10 DEF Next, Read, People
-----------------------------------------------------------------------------
(***************************************************************************)
(* What is concluded.                                                      *)
(***************************************************************************)
\* A loaded document stops the reader at an error page only, and that is its last.
LEMMA DocumentFailsAtItsEnd ==
    ASSUME ReadInv, source = "document", at \in Resources,
           NEW page \in Answers(at), PageFailure(page) # None
    PROVE  page_number = Len(document[at]) /\ document[at][Len(document[at])].kind = "error"
  <1> DEFINE pages == document[at]
  <1>1. pages \in Seq({pages[i] : i \in DOMAIN pages}) /\ page = pages[page_number]
    BY DocumentAnswers
  <1>2. Loads(pages)
    BY NoPlace, ResourceNames DEF ReadInv, Loaded
  <1>3. /\ page_number \in 1..Len(pages)
        /\ seen_cursors = {CursorOf(pages, i) : i \in 2..page_number}
    BY DEF ReadInv, DocumentFollowed
  <1> HIDE DEF pages
  <1>4. DOMAIN pages = 1..Len(pages) /\ Len(pages) \in Nat
    BY <1>1
  <1>5. /\ page.kind \in {"items", "error"}
        /\ page.kind = "error" => page_number = Len(pages)
        /\ page.kind = "items" => page.next # Malformed /\ (page.next = Last <=> page_number = Len(pages))
    BY <1>1, <1>2, <1>3, <1>4 DEF Loads, WellFormedPages
  <1>6. ASSUME page.kind = "items" PROVE FALSE
    <2>1. page.next \in seen_cursors
      BY <1>5, <1>6 DEF PageFailure, Followed
    <2>2. PICK i \in 2..page_number : page.next = CursorOf(pages, i)
      BY <1>3, <2>1
    <2>3. i \in 2..page_number /\ i \in DOMAIN pages /\ i - 1 \in 1..Len(pages) /\ i - 1 # Len(pages) /\ i # 1
      BY <1>3, <1>4, <2>2
    <2>4. CursorOf(pages, i) = pages[i - 1].next
      BY <2>3 DEF CursorOf
    <2>5. pages[i - 1].kind = "items" /\ pages[i - 1].next # Last
      <3>1. i - 1 \in DOMAIN pages
        BY <1>4, <2>3
      <3> QED BY <1>2, <2>3, <3>1 DEF Loads, WellFormedPages
    <2>6. page_number # Len(pages)
      BY <1>5, <1>6, <2>2, <2>4, <2>5
    <2>7. page_number + 1 \in DOMAIN pages /\ page_number + 1 # i /\ page_number \in Nat \ {0}
      <3>1. page_number \in Nat \ {0} /\ page_number <= Len(pages) /\ i <= page_number /\ i \in Nat
        BY <1>3, <1>4, <2>3
      <3>2. page_number + 1 \in 1..Len(pages) /\ page_number + 1 # i
        <4>1. \A k, n, j \in Nat : k <= n /\ k # n /\ j <= k => k + 1 \in 1..n /\ k + 1 # j
          OBVIOUS
        <4> QED BY <1>4, <2>6, <3>1, <4>1, Zenon
      <3> QED BY <1>4, <3>1, <3>2
    <2>8. CursorOf(pages, page_number + 1) = page.next
      BY <1>1, <2>7, NextCursor
    <2> QED BY <1>2, <2>2, <2>3, <2>7, <2>8 DEF Loads
  <1>7. page.kind = "error" /\ page_number = Len(pages)
    BY <1>5, <1>6
  <1> QED BY <1>1, <1>7 DEF pages

LEMMA FrozenOnceConcluded ==
    ASSUME [Next]_vars, at \in Concluded
    PROVE  UNCHANGED <<outcome, items, requests, head, source, document>>
  <1>1. CASE Read
    BY <1>1, NoPlace DEF Concluded, worldVars, fakeVars, Read, Start, RejectDocument, BlockLiveRead, ReadMetadata,
       FailMetadata, RejectMetadata, FailPage, TakePage, TakeLastPage, RejectItems, FailOnOrphans,
       Complete, Report
  <1>2. CASE People
    BY <1>2 DEF Concluded, People, AddItem, RemoveItem, Push, IsBeingRead
  <1>3. CASE UNCHANGED vars
    BY <1>3 DEF vars, worldVars, fakeVars
  <1> QED BY <1>1, <1>2, <1>3 DEF Next

Concludes == RejectDocument \/ FailMetadata \/ RejectMetadata \/ FailPage \/ RejectItems \/ FailOnOrphans \/ Complete

LEMMA OthersConcludeNothing ==
    ASSUME [Next]_vars, ~Concludes
    PROVE  UNCHANGED outcome
  <1>1. CASE Read
    BY <1>1 DEF Concludes, Read, Start, BlockLiveRead, ReadMetadata, TakePage, TakeLastPage, Report
  <1>2. CASE People
    BY <1>2 DEF People, AddItem, RemoveItem, Push
  <1>3. CASE UNCHANGED vars
    BY <1>3 DEF vars
  <1> QED BY <1>1, <1>2, <1>3 DEF Next

\* An exception is an error, or live a gap of the metadata, and says nothing of a page.
LEMMA RaisedJustified ==
    ASSUME NEW error, outcome' = Raised(error), UNCHANGED source
    PROVE  ResultJustified'
  <1>1. \/ (outcome.kind = "error")'
        \/ (outcome.kind = "fail_closed")' /\ (outcome.gap.resource = "metadata")' /\ source' = "live"
    BY DEF Raised, FailClosed, GapOf
  <1> QED BY <1>1 DEF ResultJustified, ThreadsKnown, MixedReadIsStale, GapNamesTheMissingPage,
             LoadedDocumentsReadThrough

LEMMA ResultStep == ReadInv /\ [Next]_vars => ResultJustified'
  <1> SUFFICES ASSUME ReadInv, [Next]_vars PROVE ResultJustified'
    OBVIOUS
  <1> USE DEF ReadInv
  <1>1. CASE at \in Concluded
    BY <1>1, FrozenOnceConcluded DEF ResultJustified, ThreadsKnown, MixedReadIsStale,
       GapNamesTheMissingPage, LoadedDocumentsReadThrough, ThreadsOf
  <1>2. CASE at \notin Concluded /\ ~Concludes
    <2>1. outcome' = None
      BY <1>2, OthersConcludeNothing DEF NoneConcluded
    <2> QED BY <2>1 DEF ResultJustified, ThreadsKnown, MixedReadIsStale, GapNamesTheMissingPage,
               LoadedDocumentsReadThrough
  <1>3. CASE RejectDocument
    <2>1. (outcome.kind = "error")'
      BY <1>3 DEF RejectDocument, Conclude
    <2> QED BY <2>1 DEF ResultJustified, ThreadsKnown, MixedReadIsStale, GapNamesTheMissingPage,
               LoadedDocumentsReadThrough
  <1>4. CASE FailMetadata \/ RejectMetadata \/ RejectItems
    <2>1. UNCHANGED source /\ \E error : outcome' = Raised(error)
      BY <1>4 DEF FailMetadata, RejectMetadata, RejectItems, Conclude, fakeVars
    <2> QED BY <2>1, RaisedJustified
  <1>5. CASE FailPage
    <2>1. PICK page \in Answers(at) :
            PageFailure(page) # None /\ outcome' = FailClosed(at, PageFailure(page), page_number)
      BY <1>5 DEF FailPage, Conclude
    <2>2. /\ at \in Resources /\ UNCHANGED <<source, document>>
          /\ requests' = [requests EXCEPT ![at] = @ + 1]
      BY <1>5 DEF FailPage, Ask, fakeVars
    <2>3. /\ outcome'.kind = "fail_closed" /\ outcome'.page = page_number
          /\ outcome'.gap.resource = at
      BY <2>1 DEF FailClosed, GapOf
    <2>4. /\ page_number \in Nat \ {0} /\ requests[at] = page_number - 1
          /\ \A r \in Resources : Position(r) > Position(at) => requests[r] = 0
          /\ source = "live" => page_number <= MaxPages
      BY <2>2 DEF ReadInOrder, LivePageCounted
    <2>5. requests'[at] = page_number
      BY <2>2, <2>4 DEF TypeOK
    <2>6. \A r \in Resources : Position(r) > Position(at) => requests'[r] = 0
      <3>1. Position(at) \in Nat
        BY <2>2, ResourceNames, Positions
      <3>2. \A r \in Resources : Position(r) > Position(at) => r # at
        BY <3>1
      <3> QED BY <2>2, <2>4, <3>2 DEF TypeOK
    <2>7. GapNamesTheMissingPage'
      BY <2>2, <2>3, <2>4, <2>5, <2>6 DEF GapNamesTheMissingPage
    <2>8. LoadedDocumentsReadThrough'
      BY <2>1, <2>2, <2>3, DocumentFailsAtItsEnd DEF LoadedDocumentsReadThrough
    <2> QED BY <2>3, <2>7, <2>8 DEF ResultJustified, ThreadsKnown, MixedReadIsStale
  <1>6. CASE FailOnOrphans
    <2>1. outcome' = FailClosed("thread_state", "thread_state_unknown", 1)
      BY <1>6 DEF FailOnOrphans, Conclude
    <2>2. /\ outcome'.kind = "fail_closed"
          /\ outcome'.gap = GapOf("thread_state", "thread_state_unknown")
          /\ outcome'.gap.reason = "thread_state_unknown"
      BY <2>1 DEF FailClosed, GapOf, Classified, Reasons, FinalReasons
    <2> QED BY <2>2 DEF ResultJustified, ThreadsKnown, MixedReadIsStale, GapNamesTheMissingPage,
               LoadedDocumentsReadThrough, GapOf, Classified
  <1>7. CASE Complete
    <2>1. /\ outcome' = [kind |-> "complete", target |-> target,
                         threads |-> ThreadsOf("thread_state") \cap ThreadsOf("review_comments")]
          /\ at = "build" /\ Orphans = {}
          /\ UNCHANGED <<head, source, items, requests>>
      BY <1>7 DEF Complete, Conclude, worldVars, fakeVars
    <2>2. /\ outcome'.kind = "complete" /\ outcome'.target = target
          /\ outcome'.threads = ThreadsOf("review_comments")
      BY <2>1 DEF Orphans
    <2>3. ThreadsKnown'
      BY <2>1, <2>2 DEF ThreadsKnown, ThreadsOf, ReadInOrder
    <2>4. at \notin {"start", "metadata"} /\ at \notin Concluded
      BY <2>1, NoPlace
    <2>5. MixedReadIsStale'
      BY <2>1, <2>2, <2>4 DEF MixedReadIsStale, ReadOfTheTarget, FilesOf
    <2> QED BY <2>2, <2>3, <2>5 DEF ResultJustified, GapNamesTheMissingPage, LoadedDocumentsReadThrough
  <1> QED BY <1>1, <1>2, <1>3, <1>4, <1>5, <1>6, <1>7 DEF Concludes

LEMMA ReadInvStep == ReadInv /\ [Next]_vars => ReadInv'
  BY TypeStep, ConcludedStep, FakesStep, UnreadStep, InOrderStep, LiveCountedStep, TargetStep, LoadedStep,
     FollowedStep, ResultStep DEF ReadInv

LEMMA AlwaysReadInv == Spec => []ReadInv
  BY ReadInvInit, ReadInvStep, PTL DEF Spec

\* The types of the read: a gap is of a known resource and reason, whatever
\* reason an answer gives, and listings and what was read stay sequences of
\* elements whatever people do meanwhile (read_gaps.py:93-149, 221-230).
THEOREM ReadTypeCorrect == Spec => []TypeOK
  <1>1. ReadInv => TypeOK
    BY DEF ReadInv
  <1> QED BY <1>1, AlwaysReadInv, PTL

\* What a read concludes is justified, for every page size, page cap, listing,
\* document and map of pages, and whatever people add, remove and push while it
\* runs: a complete read knows the state of every thread it has comments of and
\* tells when it mixes two heads; a failed one names the page it failed at; a
\* loaded document fails at its own error page only (github.py:447-570, 617-660,
\* 827-900).
THEOREM ResultAlwaysJustified == Spec => []ResultJustified
  <1>1. ReadInv => ResultJustified
    BY DEF ReadInv
  <1> QED BY <1>1, AlwaysReadInv, PTL
-----------------------------------------------------------------------------
(***************************************************************************)
(* What was read so far.  Live, and undisturbed: what is left of the       *)
(* first pages of the listing, which only grows at its end.  Otherwise:    *)
(* the items of the pages along the cursors followed, all of them          *)
(* different, so that no walk is longer than the map is large.             *)
(***************************************************************************)
StartsEmpty ==
    at \in Resources =>
        /\ page_number = 1 => items[at] = <<>> /\ cursor = None /\ seen_cursors = {}
        /\ \A r \in Resources : Position(r) > Position(at) => items[r] = <<>>

PrefixRead ==
    source = "live" =>
        /\ at = "thread_state" => page_number = 1
        /\ at \in Listed /\ at \notin disturbed =>
            /\ (page_number - 1) * PerPage <= Len(listing[at])
            /\ items[at] = Objects(SubSeq(listing[at], 1, (page_number - 1) * PerPage))

PartsAlong(pages, path, n) == [i \in 1..n |-> pages[path[i]].items]

Walked(pages, path, n, c, got) ==
    /\ path[1] = None /\ path[n] = c
    /\ \A i \in 1..n - 1 :
        /\ path[i] \in DOMAIN pages /\ pages[path[i]].kind = "items"
        /\ pages[path[i]].next = path[i + 1]
    /\ \A i, j \in 1..n : path[i] = path[j] => i = j
    /\ got = SeqExt!FlattenSeq(PartsAlong(pages, path, n - 1))

WalkRead ==
    source # "live" /\ at \in Resources =>
        \E path \in [1..page_number -> {None} \cup seen_cursors] : Walked(book[at], path, page_number, cursor, items[at])

WholeInv == StartsEmpty /\ PrefixRead /\ WalkRead

LEMMA LiveAnswer ==
    ASSUME ReadInv, source = "live", at \in Listed, NEW page \in Answers(at), PageFailure(page) = None
    PROVE  /\ page.items = Objects(Segment(listing[at], page_number))
           /\ page.next # Last <=> IsFull(Segment(listing[at], page_number))
  <1>1. at \in Resources /\ at # "thread_state"
    BY ResourceNames
  <1>2. IsPage(page) /\ page.kind = "items"
    BY <1>1, AnswersArePages, TakenPages
  <1>3. page_number \in Nat \ {0} /\ PageOfCursor = page_number /\ MaxPages \in Nat
    BY <1>1, ReasonsAndPlaceholders, GitHubReadAssumption DEF ReadInv, ReadInOrder, LivePageCounted, PageOfCursor
  <1>4. \A reason : ErrorPage(reason).kind # "items"
    BY DEF ErrorPage
  <1>5. page = LivePage(at, page_number)
    BY <1>1, <1>2, <1>3, <1>4 DEF Answers, FailedCalls
  <1>6. RaisedError.kind # "items"
    BY DEF RaisedError
  <1> DEFINE payload == Segment(listing[at], page_number)
  <1>7. \/ ~IsFull(payload) /\ page = ItemsPage(Objects(payload), Last)
        \/ IsFull(payload) /\ page = ItemsPage(Objects(payload), page_number + 1)
    BY <1>2, <1>3, <1>4, <1>5, <1>6 DEF LivePage
  <1>8. page_number + 1 # Last
    BY <1>3, ReasonsAndPlaceholders
  <1> HIDE DEF payload
  <1>9. /\ page.items = Objects(payload)
        /\ page.next # Last <=> IsFull(payload)
    BY <1>7, <1>8 DEF ItemsPage
  <1> QED BY <1>9 DEF payload

\* A page adds the next PerPage elements, or all that are left if it is not full.
LEMMA SegmentExtends ==
    ASSUME NEW S, NEW seq \in Seq(S), NEW page \in Nat \ {0}, (page - 1) * PerPage <= Len(seq)
    PROVE  LET before == SubSeq(seq, 1, (page - 1) * PerPage)
               segment == Segment(seq, page)
           IN  /\ before \in Seq(S) /\ segment \in Seq(S)
               /\ IsFull(segment) =>
                    page * PerPage <= Len(seq) /\ SubSeq(seq, 1, page * PerPage) = before \o segment
               /\ ~IsFull(segment) => seq = before \o segment
  <1> DEFINE m == (page - 1) * PerPage
             last == IF m + PerPage < Len(seq) THEN m + PerPage ELSE Len(seq)
  <1>1. PerPage \in Nat \ {0} /\ Len(seq) \in Nat
    BY GitHubReadAssumption
  <1>2. m \in Nat /\ page * PerPage = m + PerPage /\ m <= Len(seq)
    BY <1>1
  <1>3. Segment(seq, page) = SubSeq(seq, m + 1, last)
    BY <1>2 DEF Segment
  <1> HIDE DEF m
  <1>4. last \in Nat /\ m <= last /\ last <= Len(seq)
    BY <1>1, <1>2
  <1> HIDE DEF last
  <1>5. SubSeq(seq, 1, m) \in Seq(S) /\ SubSeq(seq, m + 1, last) \in Seq(S)
    <2>1. (\A i \in 1..m : seq[i] \in S) /\ (\A i \in m + 1..last : seq[i] \in S)
      BY <1>1, <1>2, <1>4
    <2>2. m \in Int /\ 1 \in Int /\ m + 1 \in Int /\ last \in Int
      BY <1>2, <1>4
    <2> QED BY <2>1, <2>2, SubSeqProperties, Zenon
  <1>6. Len(SubSeq(seq, m + 1, last)) = last - m
    <2>1. m + 1 \in Int /\ last \in Int /\ \A i \in m + 1..last : seq[i] \in S
      BY <1>1, <1>2, <1>4
    <2>2. Len(SubSeq(seq, m + 1, last)) = IF m + 1 <= last THEN last - (m + 1) + 1 ELSE 0
      BY <2>1, SubSeqProperties
    <2> QED BY <1>2, <1>4, <2>2
  <1>7. SubSeq(seq, 1, m) \o SubSeq(seq, m + 1, last) = SubSeq(seq, 1, last)
    <2>1. 1 \in 1..Len(seq) + 1 /\ m \in 1 - 1..Len(seq) /\ last \in m..Len(seq)
      BY <1>1, <1>2, <1>4
    <2> QED BY <2>1, ConcatAdjacentSubSeq
  <1>8. last = m + PerPage \/ last = Len(seq)
    BY DEF last
  <1>9. ASSUME Len(SubSeq(seq, m + 1, last)) = PerPage PROVE last = m + PerPage
    BY <1>1, <1>2, <1>4, <1>6, <1>9
  <1>10. ASSUME Len(SubSeq(seq, m + 1, last)) # PerPage PROVE last = Len(seq)
    BY <1>1, <1>2, <1>4, <1>6, <1>8, <1>10
  <1>11. SubSeq(seq, 1, Len(seq)) = seq
    BY SubSeqFull
  <1>12. /\ IsFull(Segment(seq, page)) =>
                page * PerPage <= Len(seq) /\ SubSeq(seq, 1, page * PerPage) = SubSeq(seq, 1, m) \o Segment(seq, page)
         /\ ~IsFull(Segment(seq, page)) => seq = SubSeq(seq, 1, m) \o Segment(seq, page)
    BY <1>2, <1>3, <1>4, <1>7, <1>9, <1>10, <1>11 DEF IsFull
  <1> QED BY <1>3, <1>5, <1>12 DEF m

LEMMA StartsEmptyStep == ReadInv /\ StartsEmpty /\ [Next]_vars => StartsEmpty'
  <1> SUFFICES ASSUME ReadInv, StartsEmpty, [Next]_vars, at' \in Resources
               PROVE  /\ page_number' = 1 => items'[at'] = <<>> /\ cursor' = None /\ seen_cursors' = {}
                      /\ \A r \in Resources : Position(r) > Position(at') => items'[r] = <<>>
    BY DEF StartsEmpty, Position
  <1>0. items \in [Resources -> Seq(Item)] /\ \A r \in Resources : Position(r) \in Nat
    <2>1. items \in [Resources -> Seq(Item)]
      BY DEF ReadInv, TypeOK
    <2>2. \A r \in Resources : Position(r) \in Nat
      BY ResourceNames, Positions
    <2> QED BY <2>1, <2>2
  <1>1. CASE Start
    BY <1>1, ResourceNames DEF Start
  <1>2. CASE ReadMetadata
    BY <1>2 DEF ReadMetadata, ReadInv, NothingReadYet, pageVars
  <1>3. ASSUME TakePage \/ TakeLastPage
        PROVE  at \in Resources /\ \A r \in Resources : r # at => items'[r] = items[r]
    BY <1>0, <1>3 DEF TakePage, TakeLastPage
  <1>4. CASE TakePage
    <2>1. at' = at /\ page_number' = page_number + 1 /\ page_number \in Nat \ {0}
      BY <1>3, <1>4 DEF TakePage, NextPageNumber, ReadInv, ReadInOrder
    <2>2. \A r \in Resources : Position(r) > Position(at) => r # at /\ items[r] = <<>>
      BY <1>0, <1>3, <1>4 DEF StartsEmpty
    <2> QED BY <1>3, <1>4, <2>1, <2>2
  <1>5. CASE TakeLastPage
    <2>1. at' = Following(at) /\ cursor' = None /\ seen_cursors' = {}
      BY <1>5 DEF TakeLastPage
    <2>2. Position(at') = Position(at) + 1
      BY <1>3, <1>5, <2>1, ResourceNames, Positions, Followings
    <2>3. \A r \in Resources : Position(r) > Position(at) => r # at /\ items[r] = <<>>
      BY <1>0, <1>3, <1>5 DEF StartsEmpty
    <2>4. \A r \in Resources : Position(r) >= Position(at') => items'[r] = <<>>
      BY <1>0, <1>3, <1>5, <2>2, <2>3
    <2> QED BY <1>0, <2>1, <2>4
  <1>6. CASE ~Goes
    BY <1>6, OthersStay, NoPlace DEF StartsEmpty
  <1> QED BY <1>1, <1>2, <1>4, <1>5, <1>6 DEF Goes
LEMMA AppendKeepsPrefix ==
    ASSUME NEW S, NEW seq \in Seq(S), NEW item, NEW m \in Nat, m <= Len(seq)
    PROVE  SubSeq(Append(seq, item), 1, m) = SubSeq(seq, 1, m)
  <1> DEFINE T == S \cup {item}
  <1>1. seq \in Seq(T) /\ Append(seq, item) \in Seq(T) /\ Len(seq) \in Nat
    BY SeqMonotonic
  <1>2. \A i \in 1..m : seq[i] \in T /\ Append(seq, item)[i] = seq[i]
    BY <1>1
  <1> HIDE DEF T
  <1>3. /\ SubSeq(seq, 1, m) \in Seq(T) /\ Len(SubSeq(seq, 1, m)) = m
        /\ \A i \in 1..m : SubSeq(seq, 1, m)[i] = seq[i]
    <2>1. \A i \in 1..m : seq[i] \in T
      BY <1>2
    <2> QED BY <2>1, SubSeqProperties
  <1>4. /\ SubSeq(Append(seq, item), 1, m) \in Seq(T) /\ Len(SubSeq(Append(seq, item), 1, m)) = m
        /\ \A i \in 1..m : SubSeq(Append(seq, item), 1, m)[i] = Append(seq, item)[i]
    <2>1. \A i \in 1..m : Append(seq, item)[i] \in T
      BY <1>2
    <2> QED BY <2>1, SubSeqProperties
  <1> QED BY <1>2, <1>3, <1>4, SeqEqual

\* Where a resource begins to be read nothing of it was read.
LEMMA BeginningRead ==
    ASSUME ReadInv, StartsEmpty, [Next]_vars, ReadMetadata \/ TakeLastPage
    PROVE  /\ at' \in Resources \cup {"build"} /\ page_number' = 1 /\ cursor' = None
           /\ at' \in Resources => items'[at'] = <<>>
           /\ UNCHANGED <<source, listing, disturbed, book>>
  <1>1. CASE ReadMetadata
    BY <1>1, ResourceNames DEF ReadMetadata, ReadInv, NothingReadYet, pageVars, fakeVars, worldVars
  <1>2. CASE TakeLastPage
    <2>1. /\ at \in Resources /\ at' = Following(at) /\ page_number' = 1 /\ cursor' = None
          /\ UNCHANGED <<source, listing, disturbed, book>>
      BY <1>2 DEF TakeLastPage, fakeVars, worldVars
    <2>2. at' \in Resources \cup {"build"}
      BY <2>1, ResourceNames, Followings
    <2>3. StartsEmpty'
      BY StartsEmptyStep
    <2> QED BY <2>1, <2>2, <2>3 DEF StartsEmpty
  <1> QED BY <1>1, <1>2

LEMMA NoObjects ==
    /\ Objects(<<>>) = <<>>
    /\ \A seq : Objects(SubSeq(seq, 1, 0)) = <<>>
  <1>1. Objects(<<>>) = <<>>
    <2>1. ObjectParts(<<>>) \in Seq(Seq(Item)) /\ Len(ObjectParts(<<>>)) = 0
      BY ObjectPartsTyped, EmptySeq
    <2>2. ObjectParts(<<>>) = <<>>
      BY <2>1
    <2>3. Objects(<<>>) = SeqExt!FlattenSeq(ObjectParts(<<>>))
      BY DEF Objects, ObjectParts
    <2> QED BY <2>2, <2>3, FlattenNone
  <1>2. \A seq : SubSeq(seq, 1, 0) = <<>>
    BY SubSeqEmpty
  <1> QED BY <1>1, <1>2

LEMMA PrefixStep == ReadInv /\ StartsEmpty /\ PrefixRead /\ [Next]_vars => PrefixRead'
  <1> SUFFICES ASSUME ReadInv, StartsEmpty, PrefixRead, [Next]_vars, source' = "live"
               PROVE  /\ at' = "thread_state" => page_number' = 1
                      /\ at' \in Listed /\ at' \notin disturbed' =>
                          /\ (page_number' - 1) * PerPage <= Len(listing'[at'])
                          /\ items'[at'] = Objects(SubSeq(listing'[at'], 1, (page_number' - 1) * PerPage))
    BY DEF PrefixRead, Objects
  <1>0. /\ items \in [Resources -> Seq(Item)] /\ listing \in [Listed -> Seq(Item)]
        /\ page_number \in Nat
    BY DEF ReadInv, TypeOK
  <1>1. CASE Start
    BY <1>1, ResourceNames DEF Start
  <1>2. CASE ReadMetadata \/ TakeLastPage
    <2>1. /\ page_number' = 1 /\ listing' = listing
          /\ at' \in Resources => items'[at'] = <<>>
      BY <1>2, BeginningRead
    <2>2. (page_number' - 1) * PerPage = 0
      BY <2>1, GitHubReadAssumption
    <2>3. ASSUME at' \in Listed
          PROVE  0 <= Len(listing'[at']) /\ items'[at'] = Objects(SubSeq(listing'[at'], 1, 0))
      BY <1>0, <2>1, <2>3, NoObjects, ResourceNames
    <2> QED BY <2>1, <2>2, <2>3
  <1>3. CASE TakePage
    <2>1. /\ at \in Resources /\ UNCHANGED <<at, listing, disturbed, source>>
          /\ page_number' = page_number + 1
      BY <1>3 DEF TakePage, worldVars, fakeVars, NextPageNumber
    <2>2. PICK page \in Answers(at) :
            /\ PageFailure(page) = None /\ page.next # Last
            /\ items' = [items EXCEPT ![at] = @ \o page.items]
      BY <1>3 DEF TakePage
    <2>3. at # "thread_state"
      <3>1. at = "thread_state" => page = ItemsPage(<<>>, Last)
        BY <2>1, <2>2 DEF Answers
      <3> QED BY <2>2, <3>1 DEF ItemsPage
    <2>4. at \in Listed
      BY <2>1, <2>3, ResourceNames
    <2> DEFINE seq == listing[at]
               segment == Segment(seq, page_number)
    <2>5. page_number \in Nat \ {0} /\ seq \in Seq(Item)
      BY <1>0, <2>1, <2>4 DEF ReadInv, ReadInOrder
    <2>6. page.items = Objects(segment) /\ IsFull(segment)
      BY <2>1, <2>2, <2>4, LiveAnswer
    <2>7. ASSUME at \notin disturbed
          PROVE  /\ (page_number' - 1) * PerPage <= Len(listing'[at'])
                 /\ items'[at'] = Objects(SubSeq(listing'[at'], 1, (page_number' - 1) * PerPage))
      <3>1. /\ (page_number - 1) * PerPage <= Len(seq)
            /\ items[at] = Objects(SubSeq(seq, 1, (page_number - 1) * PerPage))
        BY <2>1, <2>4, <2>7 DEF PrefixRead
      <3> DEFINE before == SubSeq(seq, 1, (page_number - 1) * PerPage)
      <3>2. /\ before \in Seq(Item) /\ segment \in Seq(Item)
            /\ page_number * PerPage <= Len(seq)
            /\ SubSeq(seq, 1, page_number * PerPage) = before \o segment
        BY <2>5, <2>6, <3>1, SegmentExtends
      <3>3. Objects(before \o segment) = Objects(before) \o Objects(segment)
        BY <3>2, ObjectsJoin
      <3>4. items'[at] = items[at] \o page.items
        BY <1>0, <2>1, <2>2
      <3>5. page_number' - 1 = page_number
        BY <1>0, <2>1
      <3> HIDE DEF before, segment
      <3>6. items'[at] = Objects(SubSeq(seq, 1, page_number * PerPage))
        BY <2>6, <3>1, <3>2, <3>3, <3>4 DEF before
      <3> HIDE DEF seq
      <3>7. listing'[at'] = seq /\ at' = at
        BY <2>1 DEF seq
      <3> QED BY <3>2, <3>5, <3>6, <3>7
    <2> QED BY <2>1, <2>3, <2>7
  <1>4. CASE Read /\ ~Goes
    <2>1. UNCHANGED <<listing, disturbed, source, items>>
      BY <1>4 DEF Goes, worldVars, fakeVars, Read, RejectDocument, BlockLiveRead, FailMetadata,
         RejectMetadata, FailPage, RejectItems, FailOnOrphans, Complete, Report
    <2>2. at' \in Concluded \/ UNCHANGED <<at, page_number>>
      BY <1>4, OthersStay
    <2>3. Concluded \cap (Listed \cup {"thread_state"}) = {}
      BY NoPlace, ResourceNames
    <2> QED BY <2>1, <2>2, <2>3 DEF PrefixRead
  <1>5. ASSUME NEW r \in Listed, NEW thread \in Threads \cup {None}, AddItem(r, thread)
        PROVE  /\ at' = "thread_state" => page_number' = 1
               /\ at' \in Listed /\ at' \notin disturbed' =>
                   /\ (page_number' - 1) * PerPage <= Len(listing'[at'])
                   /\ items'[at'] = Objects(SubSeq(listing'[at'], 1, (page_number' - 1) * PerPage))
    <2>1. UNCHANGED <<disturbed, source, items, at, page_number>>
      BY <1>5 DEF AddItem, fakeVars, pageVars
    <2>2. PICK item : listing' = [listing EXCEPT ![r] = Append(@, item)]
      BY <1>5 DEF AddItem
    <2>3. ASSUME at \in Listed, at \notin disturbed
          PROVE  /\ (page_number - 1) * PerPage <= Len(listing'[at])
                 /\ items[at] = Objects(SubSeq(listing'[at], 1, (page_number - 1) * PerPage))
      <3> DEFINE m == (page_number - 1) * PerPage
      <3>1. m \in Nat /\ m <= Len(listing[at]) /\ items[at] = Objects(SubSeq(listing[at], 1, m))
        <4>1. page_number - 1 \in Nat /\ PerPage \in Nat
          BY <2>3, ResourceNames, GitHubReadAssumption DEF ReadInv, ReadInOrder
        <4>2. m \in Nat
          BY <4>1
        <4> QED BY <2>1, <2>3, <4>2 DEF PrefixRead
      <3> SUFFICES m <= Len(listing'[at]) /\ items[at] = Objects(SubSeq(listing'[at], 1, m))
        OBVIOUS
      <3> HIDE DEF m
      <3>2. CASE at = r
        <4>1. listing'[at] = Append(listing[at], item)
          BY <1>0, <2>2, <2>3, <3>2
        <4>2. listing[at] \in Seq(Item)
          BY <1>0, <2>3
        <4>3. Len(listing[at]) \in Nat /\ Len(listing'[at]) = Len(listing[at]) + 1
          BY <4>1, <4>2
        <4>4. SubSeq(listing'[at], 1, m) = SubSeq(listing[at], 1, m)
          BY <3>1, <4>1, <4>2, AppendKeepsPrefix
        <4>5. m <= Len(listing'[at])
          BY <3>1, <4>3
        <4>6. items[at] = Objects(SubSeq(listing'[at], 1, m))
          BY <3>1, <4>4, Zenon
        <4> QED BY <4>5, <4>6
      <3>3. CASE at # r
        <4>1. listing'[at] = listing[at]
          BY <1>0, <2>2, <2>3, <3>3
        <4> QED BY <3>1, <4>1
      <3> QED BY <3>2, <3>3
    <2> QED BY <2>1, <2>3 DEF PrefixRead
  <1>6. ASSUME NEW r, listing' = [listing EXCEPT ![r] = listing'[r]], UNCHANGED <<source, items, at, page_number>>,
               disturbed' = IF at = r THEN disturbed \cup {r} ELSE disturbed
        PROVE  /\ at' = "thread_state" => page_number' = 1
               /\ at' \in Listed /\ at' \notin disturbed' =>
                   /\ (page_number' - 1) * PerPage <= Len(listing'[at'])
                   /\ items'[at'] = Objects(SubSeq(listing'[at'], 1, (page_number' - 1) * PerPage))
    <2>1. at \in Listed /\ at \notin disturbed' => at \notin disturbed /\ listing'[at] = listing[at]
      BY <1>0, <1>6
    <2> QED BY <1>6, <2>1 DEF PrefixRead
  <1>7. ASSUME NEW r \in Listed, NEW i \in DOMAIN listing[r], RemoveItem(r, i)
        PROVE  /\ listing' = [listing EXCEPT ![r] = listing'[r]] /\ UNCHANGED <<source, items, at, page_number>>
               /\ disturbed' = IF at = r THEN disturbed \cup {r} ELSE disturbed
    BY <1>0, <1>7 DEF RemoveItem, fakeVars, pageVars
  <1>8. ASSUME NEW files \in PushedFiles, Push(files)
        PROVE  /\ listing' = [listing EXCEPT !["files"] = listing'["files"]]
               /\ UNCHANGED <<source, items, at, page_number>>
               /\ disturbed' = IF at = "files" THEN disturbed \cup {"files"} ELSE disturbed
    BY <1>0, <1>8, ResourceNames DEF Push, fakeVars, pageVars
  <1>9. CASE UNCHANGED vars
    BY <1>9 DEF PrefixRead, vars, worldVars, fakeVars, pageVars
  <1> QED BY <1>1, <1>2, <1>3, <1>4, <1>5, <1>6, <1>7, <1>8, <1>9 DEF Next, People, Goes
\* The pages that a fake transport can answer, and how many there are.
LEMMA BookPages ==
    ASSUME ReadInv, source # "live", at \in Resources
    PROVE  IsFiniteSet(DOMAIN book[at]) /\ \A c \in DOMAIN book[at] : IsPage(book[at][c])
  <1>1. source \in {"document", "caller"}
    BY DEF ReadInv, TypeOK
  <1>2. CASE source = "caller"
    <2>1. book \in Books
      BY <1>2 DEF ReadInv, FakesGiven
    <2> QED BY <2>1, GitHubReadAssumption
  <1>3. CASE source = "document"
    <2> DEFINE pages == document[at]
    <2>1. document \in Documents /\ book[at] = PageMap(pages)
      BY <1>3, NoPlace, ResourceNames DEF ReadInv, FakesGiven, Loaded
    <2>2. pages \in Seq({pages[i] : i \in DOMAIN pages}) /\ \A i \in DOMAIN pages : IsPage(pages[i])
      BY <2>1, GitHubReadAssumption
    <2> HIDE DEF pages
    <2>3. DOMAIN pages = 1..Len(pages) /\ Len(pages) \in Nat
      BY <2>2
    <2>4. IsFiniteSet(DOMAIN pages)
      BY <2>3, FS_Interval
    <2>5. DOMAIN PageMap(pages) = {CursorOf(pages, i) : i \in DOMAIN pages}
      BY DEF PageMap
    <2>6. IsFiniteSet({CursorOf(pages, i) : i \in DOMAIN pages})
      <3> DEFINE cursors == {CursorOf(pages, i) : i \in DOMAIN pages}
                 at_page == [i \in DOMAIN pages |-> CursorOf(pages, i)]
      <3>1. at_page \in Surjection(DOMAIN pages, cursors)
        BY DEF Surjection
      <3> QED BY <2>4, <3>1, FS_Surjection
    <2>7. ASSUME NEW c \in {CursorOf(pages, i) : i \in DOMAIN pages}
          PROVE  IsPage(PageMap(pages)[c])
      <3>1. \E i \in DOMAIN pages : CursorOf(pages, i) = c
        OBVIOUS
      <3>2. (CHOOSE i \in DOMAIN pages : CursorOf(pages, i) = c) \in DOMAIN pages
        BY <3>1
      <3>3. PageMap(pages)[c] = pages[CHOOSE i \in DOMAIN pages : CursorOf(pages, i) = c]
        BY DEF PageMap
      <3> QED BY <2>2, <3>2, <3>3
    <2> QED BY <2>1, <2>5, <2>6, <2>7
  <1> QED BY <1>1, <1>2, <1>3

\* One page more on a walk.
Longer(path, n, c) == [i \in 1..n + 1 |-> IF i <= n THEN path[i] ELSE c]

LEMMA WalkTakes ==
    ASSUME ReadInv, source # "live", at \in Resources,
           NEW path \in [1..page_number -> {None} \cup seen_cursors],
           Walked(book[at], path, page_number, cursor, items[at]),
           NEW page \in Answers(at), PageFailure(page) = None
    PROVE  /\ cursor \in DOMAIN book[at] /\ page = book[at][cursor] /\ page.kind = "items"
           /\ path \in [1..page_number -> DOMAIN book[at]]
           /\ items[at] \o page.items = SeqExt!FlattenSeq(PartsAlong(book[at], path, page_number))
  <1>1. page_number \in Nat \ {0}
    BY DEF ReadInv, ReadInOrder
  <1>2. IsPage(page) /\ page.kind = "items" /\ page.next # Malformed /\ page.next \notin seen_cursors
    BY AnswersArePages, TakenPages
  <1>3. cursor \in DOMAIN book[at] /\ page = book[at][cursor]
    BY <1>2 DEF Answers, RaisedError
  <1>4. \A i \in 1..page_number : path[i] \in DOMAIN book[at] /\ book[at][path[i]].kind = "items"
    <2>1. \A i \in 1..page_number - 1 : path[i] \in DOMAIN book[at] /\ book[at][path[i]].kind = "items"
      BY DEF Walked
    <2>2. path[page_number] \in DOMAIN book[at] /\ book[at][path[page_number]].kind = "items"
      BY <1>2, <1>3 DEF Walked
    <2>3. \A i \in 1..page_number : i = page_number \/ i \in 1..page_number - 1
      BY <1>1
    <2> QED BY <2>1, <2>2, <2>3
  <1>5. path \in [1..page_number -> DOMAIN book[at]]
    BY <1>4
  <1>6. \A i \in 1..page_number : book[at][path[i]].items \in Seq(Item)
    BY <1>4, BookPages DEF IsPage
  <1> DEFINE before == PartsAlong(book[at], path, page_number - 1)
             parts == PartsAlong(book[at], path, page_number)
  <1>7. before \in Seq(Seq(Item)) /\ Len(before) = page_number - 1
    <2>1. page_number - 1 \in Nat /\ \A i \in 1..page_number - 1 : i \in 1..page_number
      BY <1>1
    <2>2. before \in [1..page_number - 1 -> Seq(Item)]
      BY <1>6, <2>1 DEF PartsAlong
    <2> HIDE DEF before
    <2> QED BY <2>1, <2>2
  <1>8. parts \in Seq(Seq(Item)) /\ Len(parts) = page_number
    <2>1. parts \in [1..page_number -> Seq(Item)]
      BY <1>6 DEF PartsAlong
    <2> HIDE DEF parts
    <2> QED BY <1>1, <2>1
  <1>9. page.items \in Seq(Item)
    BY <1>2 DEF IsPage
  <1>10. parts = Append(before, page.items)
    <2>1. \A i \in 1..page_number - 1 : parts[i] = before[i]
      BY <1>1 DEF PartsAlong
    <2>2. parts[page_number] = page.items
      BY <1>1, <1>3 DEF PartsAlong, Walked
    <2> HIDE DEF parts, before
    <2>3. /\ Append(before, page.items) \in Seq(Seq(Item))
          /\ Len(Append(before, page.items)) = page_number
          /\ \A i \in 1..page_number - 1 : Append(before, page.items)[i] = before[i]
          /\ Append(before, page.items)[page_number] = page.items
      <3>1. /\ Append(before, page.items) \in Seq(Seq(Item))
            /\ Len(Append(before, page.items)) = Len(before) + 1
            /\ \A i \in 1..Len(before) : Append(before, page.items)[i] = before[i]
            /\ Append(before, page.items)[Len(before) + 1] = page.items
        BY <1>7, <1>9, AppendProperties
      <3>2. page_number = Len(before) + 1
        BY <1>1, <1>7
      <3> QED BY <1>7, <3>1, <3>2
    <2>4. \A i \in 1..page_number : parts[i] = Append(before, page.items)[i]
      <3>1. \A i \in 1..page_number : i = page_number \/ i \in 1..page_number - 1
        BY <1>1
      <3> QED BY <2>1, <2>2, <2>3, <3>1
    <2> QED BY <1>8, <2>3, <2>4, SeqEqual
  <1>11. items[at] = SeqExt!FlattenSeq(before)
    BY DEF Walked
  <1> HIDE DEF before, parts
  <1>12. SeqExt!FlattenSeq(parts) = items[at] \o page.items
    BY <1>7, <1>9, <1>10, <1>11, FlattenAppend
  <1> QED BY <1>2, <1>3, <1>5, <1>12 DEF parts

LEMMA WalkStep == ReadInv /\ StartsEmpty /\ WalkRead /\ [Next]_vars => WalkRead'
  <1> SUFFICES ASSUME ReadInv, StartsEmpty, WalkRead, [Next]_vars, source' # "live", at' \in Resources
               PROVE  \E path \in [1..page_number' -> {None} \cup seen_cursors'] :
                            Walked(book'[at'], path, page_number', cursor', items'[at'])
    BY DEF WalkRead
  <1>0. items \in [Resources -> Seq(Item)]
    BY DEF ReadInv, TypeOK
  <1>1. CASE Start
    BY <1>1, ResourceNames DEF Start
  <1>2. CASE ReadMetadata \/ TakeLastPage
    <2>1. page_number' = 1 /\ cursor' = None /\ items'[at'] = <<>>
      BY <1>2, BeginningRead
    <2> DEFINE path == [i \in 1..1 |-> None]
    <2>2. path \in [1..page_number' -> {None} \cup seen_cursors'] /\ path[1] = None
      BY <2>1
    <2>3. 1..page_number' - 1 = {} /\ \A i, j \in 1..page_number' : i = j
      BY <2>1
    <2>4. SeqExt!FlattenSeq(PartsAlong(book'[at'], path, page_number' - 1)) = <<>>
      <3>1. PartsAlong(book'[at'], path, page_number' - 1) = <<>>
        BY <2>3 DEF PartsAlong
      <3> QED BY <3>1, FlattenNone
    <2> HIDE DEF path
    <2>5. Walked(book'[at'], path, page_number', cursor', items'[at'])
      BY <2>1, <2>2, <2>3, <2>4 DEF Walked, PartsAlong
    <2> QED BY <2>2, <2>5
  <1>3. CASE TakePage
    <2>1. /\ at \in Resources /\ UNCHANGED <<at, book, source>> /\ source # "live"
          /\ page_number' = page_number + 1 /\ page_number \in Nat \ {0}
      BY <1>3 DEF TakePage, fakeVars, NextPageNumber, ReadInv, ReadInOrder
    <2>2. PICK page \in Answers(at) :
            /\ PageFailure(page) = None
            /\ items' = [items EXCEPT ![at] = @ \o page.items]
            /\ seen_cursors' = seen_cursors \cup {page.next} /\ cursor' = page.next
      BY <1>3 DEF TakePage
    <2>3. PICK path \in [1..page_number -> {None} \cup seen_cursors] : Walked(book[at], path, page_number, cursor, items[at])
      BY <2>1 DEF WalkRead
    <2>4. /\ cursor \in DOMAIN book[at] /\ page = book[at][cursor] /\ page.kind = "items"
          /\ items[at] \o page.items = SeqExt!FlattenSeq(PartsAlong(book[at], path, page_number))
      BY <2>1, <2>2, <2>3, WalkTakes
    <2>5. page.next # None /\ page.next \notin seen_cursors
      BY <2>1, <2>2, <2>4, AnswersArePages, TakenPages DEF IsPage
    <2> DEFINE longer == Longer(path, page_number, page.next)
    <2>6. /\ longer \in [1..page_number + 1 -> {None} \cup seen_cursors']
          /\ \A i \in 1..page_number : longer[i] = path[i]
          /\ longer[page_number + 1] = page.next
      BY <2>1, <2>2, <2>3 DEF Longer
    <2> HIDE DEF longer
    <2>7. longer[1] = None /\ longer[page_number + 1] = cursor'
      BY <2>1, <2>2, <2>3, <2>6 DEF Walked
    <2>8. \A i \in 1..page_number :
            /\ longer[i] \in DOMAIN book[at] /\ book[at][longer[i]].kind = "items"
            /\ book[at][longer[i]].next = longer[i + 1]
      <3> SUFFICES ASSUME NEW i \in 1..page_number
                   PROVE  /\ longer[i] \in DOMAIN book[at] /\ book[at][longer[i]].kind = "items"
                          /\ book[at][longer[i]].next = longer[i + 1]
        OBVIOUS
      <3>1. CASE i = page_number
        BY <2>3, <2>4, <2>6, <3>1 DEF Walked
      <3>2. CASE i # page_number
        <4>1. i \in 1..page_number - 1 /\ i + 1 \in 1..page_number
          BY <2>1, <3>2
        <4> QED BY <2>3, <2>6, <4>1 DEF Walked
      <3> QED BY <3>1, <3>2
    <2>9. ASSUME NEW i \in 1..page_number + 1, NEW j \in 1..page_number + 1, longer[i] = longer[j]
          PROVE  i = j
      <3>1. \A k \in 1..page_number : longer[k] # page.next
        BY <2>3, <2>5, <2>6
      <3>2. \A k \in 1..page_number + 1 : k = page_number + 1 \/ k \in 1..page_number
        BY <2>1
      <3>3. i \in 1..page_number /\ j \in 1..page_number => i = j
        BY <2>3, <2>6, <2>9 DEF Walked
      <3> QED BY <2>6, <2>9, <3>1, <3>2, <3>3
    <2>10. items'[at] = SeqExt!FlattenSeq(PartsAlong(book[at], longer, page_number))
      <3>1. PartsAlong(book[at], longer, page_number) = PartsAlong(book[at], path, page_number)
        BY <2>6 DEF PartsAlong
      <3> QED BY <1>0, <2>1, <2>2, <2>4, <3>1
    <2>11. page_number' - 1 = page_number
      BY <2>1
    <2>12. Walked(book'[at'], longer, page_number', cursor', items'[at'])
      BY <2>1, <2>7, <2>8, <2>9, <2>10, <2>11 DEF Walked, PartsAlong
    <2> QED BY <2>1, <2>6, <2>12
  <1>4. CASE ~Goes
    <2>1. UNCHANGED <<source, items, at, book, cursor, page_number, seen_cursors>>
      BY <1>4, OthersStay, NoPlace
    <2> QED BY <2>1 DEF WalkRead, Walked, PartsAlong
  <1> QED BY <1>1, <1>2, <1>3, <1>4 DEF Goes
-----------------------------------------------------------------------------
(***************************************************************************)
(* With its last page a resource is whole.                                 *)
(***************************************************************************)
LEMMA WholeInvInit == Init => WholeInv
  BY ResourceNames DEF Init, WholeInv, StartsEmpty, PrefixRead, WalkRead

LEMMA WholeInvStep == ReadInv /\ WholeInv /\ [Next]_vars => WholeInv'
  BY StartsEmptyStep, PrefixStep, WalkStep DEF WholeInv

LEMMA OnlyTheLastPageEndsIt ==
    ASSUME [Next]_vars, at \in Resources, at' = Following(at)
    PROVE  TakeLastPage
  <1>1. Following(at) # at /\ Following(at) \in Resources \cup {"build"}
    BY ResourceNames, Followings
  <1>2. at' # at /\ at' \notin Concluded
    BY <1>1, NoPlace
  <1>3. CASE ~Goes
    BY <1>2, <1>3, OthersStay
  <1>4. CASE Start \/ ReadMetadata
    BY <1>4, NoPlace, ResourceNames DEF Start, ReadMetadata
  <1>5. CASE TakePage
    BY <1>2, <1>5 DEF TakePage
  <1> QED BY <1>3, <1>4, <1>5 DEF Goes

LEMMA LiveWhole ==
    ASSUME ReadInv, StartsEmpty, PrefixRead, source = "live", TakeLastPage, at \notin disturbed
    PROVE  items'[at] \in WholeOf(at)
  <1>1. at \in Resources /\ page_number \in Nat \ {0}
    BY DEF TakeLastPage, ReadInv, ReadInOrder
  <1>2. PICK page \in Answers(at) :
            /\ PageFailure(page) = None /\ page.next = Last
            /\ items' = [items EXCEPT ![at] = @ \o page.items]
    BY DEF TakeLastPage
  <1>3. items \in [Resources -> Seq(Item)] /\ listing \in [Listed -> Seq(Item)]
    BY DEF ReadInv, TypeOK
  <1>4. items'[at] = items[at] \o page.items
    BY <1>1, <1>2, <1>3
  <1>5. CASE at = "thread_state"
    <2>1. page.items = <<>>
      BY <1>2, <1>5 DEF Answers, ItemsPage
    <2>2. items[at] = <<>>
      BY <1>1, <1>5 DEF StartsEmpty, PrefixRead
    <2>3. items'[at] = <<>>
      BY <1>4, <2>1, <2>2
    <2> QED BY <1>5, <2>3 DEF WholeOf
  <1>6. CASE at \in Listed
    <2> DEFINE seq == listing[at]
               segment == Segment(seq, page_number)
               before == SubSeq(seq, 1, (page_number - 1) * PerPage)
    <2>1. page.items = Objects(segment) /\ ~IsFull(segment)
      BY <1>2, <1>6, LiveAnswer
    <2>2. (page_number - 1) * PerPage <= Len(seq) /\ items[at] = Objects(before)
      BY <1>6 DEF PrefixRead
    <2>3. before \in Seq(Item) /\ segment \in Seq(Item) /\ seq = before \o segment
      <3>1. seq \in Seq(Item)
        BY <1>3, <1>6
      <3> QED BY <1>1, <2>1, <2>2, <3>1, SegmentExtends
    <2> HIDE DEF before, segment, seq
    <2>4. Objects(seq) = Objects(before) \o Objects(segment)
      BY <2>3, ObjectsJoin, Zenon
    <2>5. items'[at] = Objects(seq)
      BY <1>4, <2>1, <2>2, <2>4, Zenon
    <2> QED BY <1>6, <2>5, ResourceNames DEF WholeOf, seq
  <1> QED BY <1>1, <1>5, <1>6, ResourceNames

LEMMA FakeWhole ==
    ASSUME ReadInv, WalkRead, source # "live", TakeLastPage
    PROVE  items'[at] \in WholeOf(at)
  <1>1. at \in Resources /\ page_number \in Nat \ {0}
    BY DEF TakeLastPage, ReadInv, ReadInOrder
  <1>2. PICK page \in Answers(at) :
            /\ PageFailure(page) = None /\ page.next = Last
            /\ items' = [items EXCEPT ![at] = @ \o page.items]
    BY DEF TakeLastPage
  <1>3. PICK path \in [1..page_number -> {None} \cup seen_cursors] :
            Walked(book[at], path, page_number, cursor, items[at])
    BY <1>1 DEF WalkRead
  <1> DEFINE pages == book[at]
             n == page_number
  <1>4. /\ cursor \in DOMAIN pages /\ page = pages[cursor] /\ page.kind = "items"
        /\ path \in [1..n -> DOMAIN pages]
        /\ items[at] \o page.items = SeqExt!FlattenSeq(PartsAlong(pages, path, n))
    BY <1>1, <1>2, <1>3, WalkTakes
  <1>5. items'[at] = items[at] \o page.items
    BY <1>1, <1>2 DEF ReadInv, TypeOK
  <1>6. IsFiniteSet(DOMAIN pages)
    BY <1>1, BookPages
  <1>7. n \in 1..Cardinality(DOMAIN pages)
    <2>1. path \in Injection(1..n, DOMAIN pages)
      BY <1>3, <1>4 DEF Walked, Injection, IsInjective
    <2>2. Cardinality(1..n) <= Cardinality(DOMAIN pages)
      BY <1>6, <2>1, FS_Injection
    <2>3. Cardinality(1..n) = n
      BY <1>1, FS_Interval
    <2>4. Cardinality(DOMAIN pages) \in Nat
      BY <1>6, FS_CardinalityType
    <2> HIDE DEF pages
    <2> QED BY <1>1, <2>2, <2>3, <2>4
  <1>8. DOMAIN path = 1..n /\ Len(path) = n
    <2>1. path \in [1..n -> DOMAIN pages] /\ n \in Nat
      BY <1>1, <1>4
    <2> HIDE DEF pages, n
    <2> QED BY <2>1
  <1>9. FollowsCursors(pages, path)
    <2>1. path[1] = None /\ path[n] = cursor
      BY <1>3 DEF Walked
    <2>2. \A i \in 1..n - 1 : pages[path[i]].kind = "items" /\ pages[path[i]].next = path[i + 1]
      BY <1>3 DEF Walked
    <2>3. pages[path[n]].kind = "items" /\ pages[path[n]].next = Last
      BY <1>2, <1>4, <2>1
    <2>4. \A i \in 1..n : i = n \/ i \in 1..n - 1
      BY <1>1
    <2> HIDE DEF pages, n
    <2> QED BY <1>8, <2>1, <2>2, <2>3, <2>4 DEF FollowsCursors
  <1>10. items'[at] = ItemsAlong(pages, path)
    BY <1>4, <1>5, <1>8 DEF ItemsAlong, PartsAlong
  <1>11. path \in UNION {[1..m -> DOMAIN pages] : m \in 1..Cardinality(DOMAIN pages)}
    BY <1>4, <1>7
  <1> HIDE DEF n
  <1> QED BY <1>9, <1>10, <1>11 DEF WholeOf

LEMMA LastPageMakesWhole ==
    ASSUME ReadInv, WholeInv, [Next]_vars
    PROVE  \A r \in Resources :
                at = r /\ at' = Following(r) /\ r \notin disturbed => items'[r] \in WholeOf(r)
  <1> SUFFICES ASSUME at \in Resources, at' = Following(at), at \notin disturbed
               PROVE  items'[at] \in WholeOf(at)
    OBVIOUS
  <1>1. TakeLastPage
    BY OnlyTheLastPageEndsIt
  <1> QED BY <1>1, LiveWhole, FakeWhole DEF WholeInv

\* What passes for a read resource is all of it: whatever a transport answers in
\* which order, and however often people write, a resource is left behind only
\* with every element it holds, in order and once (_collect_pages).
THEOREM ResourcesAlwaysReadWhole == Spec => ReadsWhole
  <1>1. Init => WholeInv
    BY WholeInvInit
  <1>2. ReadInv /\ WholeInv /\ [Next]_vars => WholeInv'
    BY WholeInvStep
  <1>3. ReadInv /\ WholeInv /\ [Next]_vars =>
            [\A r \in Resources :
                at = r /\ at' = Following(r) /\ r \notin disturbed => items'[r] \in WholeOf(r)]_vars
    BY LastPageMakesWhole
  <1> QED BY <1>1, <1>2, <1>3, AlwaysReadInv, PTL DEF Spec, ReadsWhole
=============================================================================
