-------------------------- MODULE MCReviewFixture --------------------------
(***************************************************************************)
(* Fixture-mode runs: two reviewers over three stages, and every           *)
(* combination of the raw outputs below.                                   *)
(***************************************************************************)
EXTENDS ReviewStages

CONSTANTS r1, r2, c1, c2, f1, f2

MCSelection == [initial_triage |-> <<r1>>, specialized_review |-> <<r2>>,
                logic_review |-> <<r1>>]

Completed(fs, rs) == [kind |-> "completed", findings |-> fs, requests |-> rs]
Nothing == Completed(<<>>, <<>>)
Finds(f, strong) == Completed(<<[id |-> f, strong |-> strong]>>, <<>>)
Asks(c) == Completed(<<>>, <<[id |-> c, blocks_verdict |-> TRUE]>>)
AsksBoth == Completed(<<>>, <<[id |-> c1, blocks_verdict |-> TRUE],
                              [id |-> c2, blocks_verdict |-> TRUE]>>)
Wonders(c, f) == Completed(<<[id |-> f, strong |-> FALSE]>>,
                           <<[id |-> c, blocks_verdict |-> FALSE]>>)
Fails == [kind |-> "failed", findings |-> <<>>, requests |-> <<>>]
Garbles == [kind |-> "malformed", findings |-> <<>>, requests |-> <<>>]
Missing == [kind |-> "missing"]

Choices == <<
    <<<<r1, "initial_triage">>, {Finds(f1, TRUE), Asks(c1), AsksBoth, Fails, Missing}>>,
    <<<<r2, "specialized_review">>, {Nothing, Wonders(c1, f2), Asks(c2), Garbles, Missing}>>,
    <<<<r1, "logic_review">>, {Finds(f2, FALSE), Asks(c2), Fails, Garbles, Nothing}>>,
    <<<<r1, "clarification_review">>, {Finds(f2, FALSE), Fails, Asks(c2), Missing}>>,
    <<<<r2, "clarification_review">>, {Nothing, Missing}>> >>

Chosen(pick) ==
    [k \in {Choices[i][1] : i \in {j \in 1..5 : pick[j] # Missing}} |->
        LET i == CHOOSE j \in 1..5 : Choices[j][1] = k IN pick[i]]

MCRawInputs ==
    {Chosen(<<a, b, c, d, e>>) : a \in Choices[1][2], b \in Choices[2][2],
                                 c \in Choices[3][2], d \in Choices[4][2],
                                 e \in Choices[5][2]}
=============================================================================
