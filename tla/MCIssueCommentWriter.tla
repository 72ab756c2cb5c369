------------------------ MODULE MCIssueCommentWriter ------------------------
(***************************************************************************)
(* Two threads with one finalized input on one writer object, a second     *)
(* payload for the same findings on it, a retry in another process, and an *)
(* invalid payload.                                                        *)
(***************************************************************************)
EXTENDS IssueCommentWriter

CONSTANTS first, again, reworded, elsewhere, invalid, w1, w2

MCWriter == [c \in Callers |-> IF c \in {elsewhere, invalid} THEN w2 ELSE w1]
MCRun == [c \in Callers |-> IF c = reworded THEN 2 ELSE 1]
MCFindings == [c \in Callers |-> 1]
MCPayload == [c \in Callers |-> IF c = reworded THEN 2 ELSE 1]
=============================================================================
