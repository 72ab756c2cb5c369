---------------------------- MODULE MCReviewLive ----------------------------
(***************************************************************************)
(* Live runs: any reviewer run may end in any of the outputs below, after  *)
(* one or two provider attempts.                                           *)
(***************************************************************************)
EXTENDS ReviewStages

CONSTANTS r1, r2, c1, c2, f1

MCSelection == [initial_triage |-> <<r1, r2>>, specialized_review |-> <<>>,
                logic_review |-> <<r2>>]

Completed(fs, rs) == [kind |-> "completed", findings |-> fs, requests |-> rs]
Raises(c) == [id |-> c, blocks_verdict |-> TRUE]

MCLiveOutputs ==
    {Completed(<<[id |-> f1, strong |-> TRUE]>>, <<>>),
     Completed(<<>>, <<Raises(c1)>>),
     Completed(<<>>, <<Raises(c1), Raises(c2)>>),
     [kind |-> "failed", findings |-> <<>>, requests |-> <<>>]}
=============================================================================
