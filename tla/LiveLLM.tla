------------------------------ MODULE LiveLLM ------------------------------
(***************************************************************************)
(* Live reviewer calls (llm.py, llm_policy.py, llm_http.py): before every  *)
(* attempt the policy approves a request and reserves a call in a ledger   *)
(* that all reviewers of a run share, the adapter compares reservation and *)
(* request once more, the request goes to the provider, and what comes     *)
(* back decides whether there is another attempt.                          *)
(*                                                                         *)
(* Two callers: the review loop (runner.py), which admits a reviewer only  *)
(* if the budget covers all its attempts, and any other caller, which      *)
(* starts with an empty ledger, passes on the one it has, and may come     *)
(* back with a run key that was used before.                               *)
(*                                                                         *)
(* A ledger is never changed in place: a call works on a copy, and its     *)
(* caller has the copy only if the call returns.  An exception leaves the  *)
(* caller with the ledger it passed.                                       *)
(***************************************************************************)
EXTENDS Integers, Sequences, FiniteSets

CONSTANTS
    None,
    Runs,           \* run keys without attempt: target, configuration, stage, reviewer, clarification
    Packages,       \* contents of context packages, by fingerprint
    Budgets,        \* max_live_calls of a package
    Settings,       \* max_attempts, timeout_seconds, total_timeout_seconds of a caller
    PolicyInputs,   \* what callers ask the policy for
    Answers,        \* what a request can come to
    MaxCalls        \* bound: calls of run_live_llm_reviewer_with_retries

\* An answer: an HTTP error, the model's text, or a failure.  "raised" is an
\* exception of another class, "raised_silently" one with no message.
Contents == {"not_json", "not_object", "malformed_item", "items"}
Failures == {"timed_out", "unreachable", "no_content", "raised", "raised_silently"}
Answer == [kind : {"http"}, status : 400..599] \cup [kind : Contents \cup Failures, status : {200}]

\* The policy's view of one call.  raw: full text instead of redacted text.
PolicyInput ==
    [within_boundary : BOOLEAN, opted_in : BOOLEAN, provider : {"openai", None}, model : {"m1", "m2", None},
     raw : BOOLEAN, raw_approved : BOOLEAN, raw_source : BOOLEAN,
     trace : BOOLEAN, trace_approved : BOOLEAN, trace_source : BOOLEAN]

ASSUME LiveLLMAssumption ==
    /\ Settings \subseteq [max_attempts : Nat \ {0}, timeout_seconds : Nat \ {0}, total_timeout_seconds : Nat \ {0}]
    /\ Budgets \subseteq Nat
    /\ PolicyInputs \subseteq PolicyInput
    /\ Answers \subseteq Answer
    /\ MaxCalls \in Nat

VARIABLES
    driver,         \* "runner" or "caller"
    settings,
    budget,         \* max_live_calls: the runner's is the configuration's
    ledger,         \* current_ledger of the call in progress; between calls, the caller's
    held,           \* the caller's ledger: what it passed, or what the last call returned
    admitted,       \* runner: reviewers retained and not yet executed
    seen,           \* runner: reviewers the budget was asked about
    planned_live_calls,
    calls,          \* calls made
    pc,             \* "idle", "attempt" or "provider"
    call,           \* what the caller passed
    attempt,
    attempts,       \* the results of this call, or of the last one; a call that an exception ends returns none
    outcome,        \* None, "completed", "failed", "refused" (ValueError), "escaped" (any exception later)
    lost,           \* history: the calls that an exception ended
    sent            \* history: the requests the provider was sent, each with its call

runnerVars == <<admitted, seen, planned_live_calls>>
callVars == <<calls, call, budget>>
fixed == <<driver, settings>>
ledgerVars == <<ledger, held, lost>>
vars == <<fixed, runnerVars, callVars, ledgerVars, pc, attempt, attempts, outcome, sent>>

BlockedReasons ==
    {"reviewer_adapter_boundary_failed", "missing_live_opt_in", "missing_provider", "missing_model",
     "raw_provider_not_approved", "raw_trace_not_approved",
     "live_call_reservation_conflict", "live_call_budget_exceeded"}
RetryableReasons == {"timeout", "rate_limited", "provider_unavailable"}
ProviderReasons ==
    RetryableReasons \cup {"missing_credentials", "malformed_response", "unknown_provider_error", "retry_exhausted"}

\* None is a value of its own.
ASSUME NoneAssumption ==
    /\ None \notin BlockedReasons \cup ProviderReasons \cup {"openai", "m1", "m2", "refused"}
    /\ None \notin Answers

RunKey == [run : Runs, attempt : Nat]
Request ==
    [key : RunKey, package : Packages \X Budgets, provider : {"openai"}, model : {"m1", "m2"}, raw : BOOLEAN]
Sent == [call : 0..MaxCalls, request : Request]
Call == [run : Runs, package : Packages, input : PolicyInputs]
Result == [attempt : Nat, reason : BlockedReasons \cup ProviderReasons \cup {None}, retryable : BOOLEAN,
           answer : Answer \cup {None}]

TypeOK ==
    /\ driver \in {"runner", "caller"}
    /\ settings \in Settings
    /\ budget \in Budgets
    /\ ledger \in Seq(Request) /\ held \in Seq(Request)
    /\ lost \subseteq 0..MaxCalls /\ sent \in Seq(Sent)
    /\ admitted \subseteq Runs /\ seen \subseteq Runs /\ planned_live_calls \in Nat
    /\ calls \in 0..MaxCalls
    /\ pc \in {"idle", "attempt", "provider"}
    /\ call \in Call \cup {None}
    /\ pc # "idle" => call \in Call
    /\ attempt \in Nat
    /\ attempts \in Seq(Result)
    /\ outcome \in {None, "completed", "failed", "refused", "escaped"}

-----------------------------------------------------------------------------
(***************************************************************************)
(* The number of attempts, and the run key of each: the n-th has its own.  *)
(***************************************************************************)
Fits(s) == s.total_timeout_seconds \div s.timeout_seconds
EffectiveAttempts(s) == IF s.max_attempts <= Fits(s) THEN s.max_attempts ELSE Fits(s)

\* Mutant: a retry keeps the run key of the first attempt.
KeyOfFirstAttempt(run, n) == [run |-> run, attempt |-> 1]
KeyOfAttempt(run, n) == [run |-> run, attempt |-> n]

(***************************************************************************)
(* The policy.  A reservation is as good as its request: its key hashes    *)
(* run key, provider, model and request text, and the fingerprint covers   *)
(* the package with its budget.                                            *)
(***************************************************************************)
RequestOf(c, n) ==
    [key |-> KeyOfAttempt(c.run, n), package |-> <<c.package, budget>>, provider |-> c.input.provider,
     model |-> c.input.model, raw |-> c.input.raw]

NotApproved(asked, approved, source) == (asked /\ ~approved) \/ (approved /\ ~source)

\* What stops a request whatever the ledger says; tested in this order.
InputReason(input) ==
    IF ~input.within_boundary THEN "reviewer_adapter_boundary_failed"
    ELSE IF ~input.opted_in THEN "missing_live_opt_in"
    ELSE IF input.provider = None THEN "missing_provider"
    ELSE IF input.model = None THEN "missing_model"
    ELSE IF NotApproved(input.raw, input.raw_approved, input.raw_source) THEN "raw_provider_not_approved"
    ELSE IF NotApproved(input.trace, input.trace_approved, input.trace_source) THEN "raw_trace_not_approved"
    ELSE None

ReservationsOf(key) == {i \in DOMAIN ledger : ledger[i].key = key}
Existing(key) == ledger[CHOOSE i \in ReservationsOf(key) : \A j \in ReservationsOf(key) : i <= j]

ReservationReason(request) ==
    IF ReservationsOf(request.key) # {}
    THEN IF Existing(request.key) # request THEN "live_call_reservation_conflict"
         ELSE IF Len(ledger) > budget THEN "live_call_budget_exceeded" ELSE None
    ELSE IF Len(ledger) + 1 > budget THEN "live_call_budget_exceeded" ELSE None

PolicyReason(c, n) ==
    IF InputReason(c.input) # None THEN InputReason(c.input) ELSE ReservationReason(RequestOf(c, n))

\* Mutant: every approval reserves a call of its own.
AlwaysReserved(request) == Append(ledger, request)
Reserved(request) == IF ReservationsOf(request.key) # {} THEN ledger ELSE Append(ledger, request)

\* validate_live_policy_adapter_input: the ledger holds the reservation of this request.
AdapterAccepts(reservations, request) ==
    \E i \in DOMAIN reservations :
        /\ reservations[i] = request
        /\ \A j \in 1..(i - 1) : reservations[j].key # request.key

(***************************************************************************)
(* What a request came to.                                                 *)
(***************************************************************************)
StatusReason(status) ==
    CASE status \in {401, 403} -> "missing_credentials"
      [] status = 408 -> "timeout"
      [] status = 429 -> "rate_limited"
      [] status \in 500..599 -> "provider_unavailable"
      [] OTHER -> "unknown_provider_error"

FailureReason(answer) ==
    CASE answer.kind = "http" -> StatusReason(answer.status)
      [] answer.kind = "timed_out" -> "timeout"
      [] answer.kind = "unreachable" -> "provider_unavailable"
      [] answer.kind = "raised" -> "unknown_provider_error"
      [] OTHER -> "malformed_response"

Retryable(reason) == reason \in RetryableReasons

Failed(reason, retryable, answer) ==
    [attempt |-> attempt, reason |-> reason, retryable |-> retryable, answer |-> answer]

-----------------------------------------------------------------------------
Init ==
    /\ driver \in {"runner", "caller"}
    /\ settings \in Settings
    /\ driver = "runner" => settings.total_timeout_seconds >= settings.timeout_seconds
    /\ budget \in Budgets
    /\ ledger = <<>> /\ held = <<>> /\ lost = {} /\ sent = <<>>
    /\ admitted = {} /\ seen = {} /\ planned_live_calls = 0
    /\ calls = 0 /\ pc = "idle" /\ call = None
    /\ attempt = 0 /\ attempts = <<>> /\ outcome = None

(***************************************************************************)
(* The review loop: a reviewer costs all its attempts, or is deferred.     *)
(* It opts in, asks for no raw text, and never repeats a run key; provider *)
(* and model may be missing from the configuration.                        *)
(***************************************************************************)
\* Mutant: a reviewer costs one call.
OneCallEach == 1
LiveCost == EffectiveAttempts(settings)

Admit(run) ==
    /\ driver = "runner" /\ pc = "idle" /\ outcome \notin {"escaped", "refused"}
    /\ run \notin seen
    /\ seen' = seen \cup {run}
    /\ IF planned_live_calls + LiveCost > budget
       THEN UNCHANGED <<admitted, planned_live_calls>>
       ELSE /\ admitted' = admitted \cup {run}
            /\ planned_live_calls' = planned_live_calls + LiveCost
    /\ UNCHANGED <<fixed, callVars, ledgerVars, pc, attempt, attempts, outcome, sent>>

RunnerInputs ==
    {input \in PolicyInputs :
        /\ input.within_boundary /\ input.opted_in
        /\ ~input.raw /\ ~input.raw_approved /\ ~input.trace /\ ~input.trace_approved}

(***************************************************************************)
(* run_live_llm_reviewer_with_retries.  It refuses settings that cannot    *)
(* hold and a package whose budget does not cover all attempts.            *)
(***************************************************************************)
Refuses(limit) ==
    \/ settings.total_timeout_seconds < settings.timeout_seconds
    \/ limit < EffectiveAttempts(settings)

Begin(run, package, input, limit) ==
    /\ pc = "idle" /\ calls < MaxCalls
    /\ calls' = calls + 1
    /\ call' = [run |-> run, package |-> package, input |-> input] /\ budget' = limit
    /\ attempts' = <<>>
    /\ IF Refuses(limit)
       THEN /\ outcome' = "refused" /\ attempt' = 0 /\ UNCHANGED pc
       ELSE /\ outcome' = None /\ attempt' = 1 /\ pc' = "attempt"
    /\ UNCHANGED <<fixed, seen, planned_live_calls, ledgerVars, sent>>

RunnerCalls ==
    /\ driver = "runner" /\ outcome \notin {"escaped", "refused"}
    /\ \E run \in admitted, package \in Packages, input \in RunnerInputs :
        /\ Begin(run, package, input, budget)
        /\ admitted' = admitted \ {run}

CallerCalls ==
    /\ driver = "caller"
    /\ \E run \in Runs, package \in Packages, input \in PolicyInputs, limit \in Budgets :
        Begin(run, package, input, limit)
    /\ UNCHANGED admitted

\* The caller gets the ledger with what the call reserved.
Return(how) == pc' = "idle" /\ outcome' = how /\ held' = ledger /\ UNCHANGED <<ledger, lost, attempt>>

\* An exception passes by the result: the caller keeps the ledger it passed.
Raise ==
    /\ pc' = "idle" /\ outcome' = "escaped"
    /\ ledger' = held /\ lost' = lost \cup {calls}
    /\ UNCHANGED <<held, attempt>>

Block ==
    /\ pc = "attempt"
    /\ PolicyReason(call, attempt) # None
    /\ attempts' = Append(attempts, Failed(PolicyReason(call, attempt), FALSE, None))
    /\ Return("failed")
    /\ UNCHANGED <<fixed, runnerVars, callVars, sent>>

Send ==
    /\ pc = "attempt"
    /\ PolicyReason(call, attempt) = None
    /\ LET request == RequestOf(call, attempt)
       IN  IF AdapterAccepts(Reserved(request), request)
           THEN /\ ledger' = Reserved(request)
                /\ sent' = Append(sent, [call |-> calls, request |-> request])
                /\ pc' = "provider" /\ UNCHANGED <<held, lost, attempt, outcome>>
           ELSE Raise /\ UNCHANGED sent
    /\ UNCHANGED <<fixed, runnerVars, callVars, attempts>>

Complete ==
    /\ pc = "provider"
    /\ \E answer \in Answers :
        /\ answer.kind = "items"
        /\ attempts' = Append(attempts, Failed(None, FALSE, answer))
    /\ Return("completed")
    /\ UNCHANGED <<fixed, runnerVars, callVars, sent>>

\* summarize_provider_failure insists on a message.
Escape ==
    /\ pc = "provider"
    /\ \E answer \in Answers : answer.kind = "raised_silently"
    /\ Raise
    /\ UNCHANGED <<fixed, runnerVars, callVars, attempts, sent>>

FailFor(answer) ==
    /\ pc = "provider" /\ answer.kind \notin {"items", "raised_silently"}
    /\ ~Retryable(FailureReason(answer))
    /\ attempts' = Append(attempts, Failed(FailureReason(answer), FALSE, answer))
    /\ Return("failed")
    /\ UNCHANGED <<fixed, runnerVars, callVars, sent>>

\* Mutant: the last attempt is the last that was configured.
IsLastConfigured(n) == n = settings.max_attempts
IsLastAttempt(n) == n = EffectiveAttempts(settings)

ScheduleRetry(answer) ==
    /\ pc = "provider" /\ answer.kind \notin {"items", "raised_silently"}
    /\ Retryable(FailureReason(answer)) /\ ~IsLastAttempt(attempt)
    /\ attempts' = Append(attempts, Failed(FailureReason(answer), TRUE, answer))
    /\ IF attempt < EffectiveAttempts(settings)     \* range(1, effective + 1)
       THEN attempt' = attempt + 1 /\ pc' = "attempt" /\ UNCHANGED <<ledgerVars, outcome>>
       ELSE Return("failed")
    /\ UNCHANGED <<fixed, runnerVars, callVars, sent>>

ExhaustRetries(answer) ==
    /\ pc = "provider" /\ answer.kind \notin {"items", "raised_silently"}
    /\ Retryable(FailureReason(answer)) /\ IsLastAttempt(attempt)
    /\ attempts' = Append(attempts, Failed("retry_exhausted", FALSE, answer))
    /\ Return("failed")
    /\ UNCHANGED <<fixed, runnerVars, callVars, sent>>

Receive ==
    \/ Complete \/ Escape
    \/ \E answer \in Answers : FailFor(answer) \/ ScheduleRetry(answer) \/ ExhaustRetries(answer)

Next == (\E run \in Runs : Admit(run)) \/ RunnerCalls \/ CallerCalls \/ Block \/ Send \/ Receive

Spec == Init /\ [][Next]_vars

-----------------------------------------------------------------------------
(***************************************************************************)
(* The budget (llm_policy.py:343-469, reviewers.py:117-127).  The ledger   *)
(* has one reservation for a run key.  Every request that went to the      *)
(* provider has its reservation there, made for this very request, from    *)
(* when it was sent and for as long as its call was not ended by an        *)
(* exception, which loses the reservations of that call and of no other    *)
(* one.  And the different requests that are paid for are, when one of     *)
(* them is sent, no more than its package allows.                          *)
(***************************************************************************)
Kept(i) == sent[i].call \notin lost
PaidFor(n) == {sent[j].request : j \in {k \in 1..n : Kept(k)}}

EveryRequestReserved ==
    /\ \A i, j \in DOMAIN ledger : ledger[i].key = ledger[j].key => i = j
    /\ \A i \in DOMAIN sent : Kept(i) => \E j \in DOMAIN ledger : ledger[j] = sent[i].request
    /\ \A i \in DOMAIN sent : Cardinality(PaidFor(i)) <= sent[i].request.package[2]

(***************************************************************************)
(* What a reservation pays for (llm.py:238-245, context_budget.py:236).  A *)
(* call sends under a run key once, so that a reservation that is there    *)
(* pays for the same request again only in another call.  A review run     *)
(* never sends more requests than its budget allows, retries included,     *)
(* also when an exception ends it, and as long as none has, it has paid    *)
(* for each of them and for nothing else.                                  *)
(***************************************************************************)
EveryRequestPaid ==
    /\ \A i, j \in DOMAIN sent :
           sent[i].call = sent[j].call /\ sent[i].request.key = sent[j].request.key => i = j
    /\ driver = "runner" =>
           /\ Len(sent) <= budget
           /\ outcome # "escaped" => Len(sent) = Len(ledger)

(***************************************************************************)
(* The plan that the budget is kept with (context_budget.py:236) covers    *)
(* what the ledger counts: no reviewer that a run admits is stopped before *)
(* its last attempt because the calls ran out, and none is refused for its *)
(* budget.                                                                 *)
(***************************************************************************)
NeverCutOff ==
    driver = "runner" =>
        /\ \A i \in DOMAIN attempts :
               attempts[i].reason \notin {"live_call_budget_exceeded", "live_call_reservation_conflict"}
        /\ outcome # "refused"

(***************************************************************************)
(* Retries (llm.py:212-276).  There is another attempt only after a time-  *)
(* out, a rate limit or an unavailable provider, at most as many as the    *)
(* total timeout has room for, and the call says that it ran out of them   *)
(* exactly when the last of them ended that way; nothing it returns asks   *)
(* for one more.                                                           *)
(***************************************************************************)
Transient(answer) == answer.kind \in {"timed_out", "unreachable"} \/ answer.status \in {408, 429} \cup 500..599

RetriesAccounted ==
    /\ Len(attempts) * settings.timeout_seconds <= settings.total_timeout_seconds
    /\ \A i \in DOMAIN attempts :
        /\ i < Len(attempts) => attempts[i].answer # None /\ Transient(attempts[i].answer)
        /\ attempts[i].reason = "retry_exhausted" =>
               i = EffectiveAttempts(settings) /\ attempts[i].answer # None /\ Transient(attempts[i].answer)
        /\ pc = "idle" /\ i = Len(attempts) /\ outcome # "escaped" => ~attempts[i].retryable
=============================================================================
