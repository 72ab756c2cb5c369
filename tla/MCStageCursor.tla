--------------------------- MODULE MCStageCursor ---------------------------
(***************************************************************************)
(* The stage cursor on its own, driven by every order of calls.            *)
(***************************************************************************)
EXTENDS StageCursor
=============================================================================
