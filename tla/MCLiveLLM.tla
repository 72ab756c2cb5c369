----------------------------- MODULE MCLiveLLM -----------------------------
(***************************************************************************)
(* Two reviewers, two packages and three calls, so that a caller comes     *)
(* back with a used run key, the same request or another, also after an    *)
(* exception took the reservation of the first; two attempts of three, one *)
(* where two fit, and settings that cannot hold; budgets below, at and     *)
(* above the attempts of one reviewer and of two.                          *)
(***************************************************************************)
EXTENDS LiveLLM

MCSettings ==
    {[max_attempts |-> m, timeout_seconds |-> 2, total_timeout_seconds |-> t] :
        m \in {1, 3}, t \in {1, 5}}

Plain ==
    [within_boundary |-> TRUE, opted_in |-> TRUE, provider |-> "openai", model |-> "m1",
     raw |-> FALSE, raw_approved |-> FALSE, raw_source |-> FALSE,
     trace |-> FALSE, trace_approved |-> FALSE, trace_source |-> FALSE]

MCPolicyInputs ==
    {Plain, [Plain EXCEPT !.model = None],
     [Plain EXCEPT !.raw = TRUE, !.raw_approved = TRUE, !.raw_source = TRUE],
     [Plain EXCEPT !.raw = TRUE]}

MCAnswers ==
    {[kind |-> "http", status |-> s] : s \in {404, 429}}
    \cup {[kind |-> k, status |-> 200] : k \in {"timed_out", "raised", "raised_silently", "not_json", "items"}}
=============================================================================
