--------------------------- MODULE LiveLLMProofs ---------------------------
(***************************************************************************)
(* Proofs about the ledger of live reviewer calls, for any reviewers,      *)
(* packages, budgets, settings and answers, and any number of calls.       *)
(***************************************************************************)
EXTENDS LiveLLM, FiniteSetTheorems, TLAPS

\* The attempts that the call in progress may still reserve.
Remaining ==
    IF pc = "attempt" THEN EffectiveAttempts(settings) - attempt + 1
    ELSE IF pc = "provider" THEN EffectiveAttempts(settings) - attempt ELSE 0

AttemptBounded == pc # "idle" => attempt >= 1 /\ attempt <= EffectiveAttempts(settings)

KeysUnique == \A i, j \in DOMAIN ledger : ledger[i].key = ledger[j].key => i = j

HeldUnique == \A i, j \in DOMAIN held : held[i].key = held[j].key => i = j

SentReserved == \A i \in DOMAIN sent : Kept(i) => \E j \in DOMAIN ledger : ledger[j] = sent[i].request

\* What the caller falls back to pays for all the earlier calls.
SentHeld ==
    \A i \in DOMAIN sent :
        Kept(i) /\ sent[i].call < calls => \E j \in DOMAIN held : held[j] = sent[i].request

IdleHolds == pc = "idle" => held = ledger

\* The present call has sent its earlier attempts, each under its own key.
CallsPast == \A i \in DOMAIN sent : sent[i].call <= calls

AttemptsPast ==
    pc # "idle" =>
        \A i \in DOMAIN sent : sent[i].call = calls =>
            IF pc = "attempt" THEN sent[i].request.key.attempt < attempt
            ELSE sent[i].request.key.attempt <= attempt

SentOnce ==
    \A i, j \in DOMAIN sent :
        sent[i].call = sent[j].call /\ sent[i].request.key = sent[j].request.key => i = j

WithinRequestBudget == \A i \in DOMAIN sent : Cardinality(PaidFor(i)) <= sent[i].request.package[2]

\* What is reserved, what this call may still reserve and what the admitted
\* reviewers will is all planned for.
PlanCovers ==
    /\ IsFiniteSet(admitted)
    /\ Len(ledger) + Remaining + Cardinality(admitted) * LiveCost <= planned_live_calls
    /\ planned_live_calls <= budget

\* A reviewer that has not begun has reserved nothing, and the one that is
\* being executed has reserved its earlier attempts only.
KeysUsed ==
    /\ admitted \subseteq seen
    /\ \A i \in DOMAIN ledger : ledger[i].key.run \in seen \ admitted
    /\ pc # "idle" =>
          /\ call.run \in seen \ admitted
          /\ \A i \in DOMAIN ledger : ledger[i].key.run = call.run =>
                 IF pc = "attempt" THEN ledger[i].key.attempt < attempt
                 ELSE ledger[i].key.attempt <= attempt

RunnerInv ==
    /\ settings.total_timeout_seconds >= settings.timeout_seconds
    /\ PlanCovers /\ KeysUsed
    /\ Len(sent) = Len(ledger)

\* A run that an exception ended does nothing any more.
RunEnded == outcome = "escaped" /\ pc = "idle" /\ Len(sent) <= budget

PlanInv == driver = "runner" => (RunnerInv \/ RunEnded) /\ NeverCutOff

LEMMA SettingsTyped ==
    ASSUME TypeOK
    PROVE  /\ settings.max_attempts \in Nat \ {0} /\ settings.timeout_seconds \in Nat \ {0}
           /\ settings.total_timeout_seconds \in Nat \ {0}
           /\ budget \in Nat
  BY LiveLLMAssumption DEF TypeOK

LEMMA AttemptsTyped == TypeOK => EffectiveAttempts(settings) \in Nat
  <1> SUFFICES ASSUME TypeOK PROVE EffectiveAttempts(settings) \in Nat
    OBVIOUS
  <1>1. Fits(settings) \in Nat
    BY SettingsTyped DEF Fits
  <1> QED BY <1>1, SettingsTyped DEF EffectiveAttempts

\* Settings that can hold leave room for one attempt.
LEMMA OneAttemptFits ==
    ASSUME TypeOK, settings.total_timeout_seconds >= settings.timeout_seconds
    PROVE  EffectiveAttempts(settings) >= 1
  <1>1. Fits(settings) >= 1
    BY SettingsTyped DEF Fits
  <1> QED BY <1>1, SettingsTyped DEF EffectiveAttempts

LEMMA RequestTyped ==
    ASSUME TypeOK, call \in Call, PolicyReason(call, attempt) = None
    PROVE  RequestOf(call, attempt) \in Request
  <1>1. InputReason(call.input) = None
    BY DEF PolicyReason
  <1>2. call.input \in PolicyInput /\ call.run \in Runs /\ call.package \in Packages
    BY LiveLLMAssumption DEF Call
  <1>3. call.input.provider # None /\ call.input.model # None
    BY <1>1, NoneAssumption DEF InputReason, BlockedReasons
  <1>4. call.input.provider = "openai" /\ call.input.model \in {"m1", "m2"} /\ call.input.raw \in BOOLEAN
    BY <1>2, <1>3 DEF PolicyInput
  <1> QED BY <1>2, <1>4 DEF TypeOK, RequestOf, Request, RunKey, KeyOfAttempt

\* The budget never speaks before the input does.
LEMMA InputReasons ==
    ASSUME NEW input \in PolicyInput
    PROVE  InputReason(input) \in BlockedReasons \cup {None}
           /\ InputReason(input) \notin {"live_call_budget_exceeded", "live_call_reservation_conflict"} \ {None}
  BY DEF InputReason, BlockedReasons

LEMMA ReasonsTyped ==
    ASSUME TypeOK, call \in Call
    PROVE  PolicyReason(call, attempt) \in BlockedReasons \cup {None}
  <1>1. call.input \in PolicyInput
    BY LiveLLMAssumption DEF Call
  <1>2. ReservationReason(RequestOf(call, attempt)) \in BlockedReasons \cup {None}
    BY DEF ReservationReason, BlockedReasons
  <1> QED BY <1>1, <1>2, InputReasons DEF PolicyReason

LEMMA FailureReasons ==
    ASSUME NEW answer \in Answer
    PROVE  FailureReason(answer) \in ProviderReasons
  BY DEF FailureReason, StatusReason, ProviderReasons, RetryableReasons

LEMMA FailedTyped ==
    ASSUME TypeOK, NEW reason \in BlockedReasons \cup ProviderReasons \cup {None},
           NEW retryable \in BOOLEAN, NEW answer \in Answer \cup {None}
    PROVE  Append(attempts, Failed(reason, retryable, answer)) \in Seq(Result)
  <1>1. Failed(reason, retryable, answer) \in Result
    BY DEF Failed, Result, TypeOK
  <1>2. attempts \in Seq(Result)
    BY DEF TypeOK
  <1> QED BY <1>1, <1>2

-----------------------------------------------------------------------------
(***************************************************************************)
(* Types, and the attempts within the bound                                *)
(***************************************************************************)
TypeInv == TypeOK /\ AttemptBounded

LEMMA TypeInvInit == Init => TypeInv
  BY LiveLLMAssumption DEF Init, TypeInv, TypeOK, AttemptBounded

LEMMA BeginTyped ==
    ASSUME TypeInv, NEW run \in Runs, NEW package \in Packages, NEW input \in PolicyInputs,
           NEW limit \in Budgets, Begin(run, package, input, limit), admitted' \subseteq Runs
    PROVE  TypeInv'
  <1>1. call' \in Call
    BY DEF Begin, Call
  <1>2. calls' \in 0..MaxCalls
    BY LiveLLMAssumption DEF Begin, TypeInv, TypeOK
  <1>3. attempts' \in Seq(Result)
    BY DEF Begin
  <1>4. AttemptBounded'
    <2>1. CASE Refuses(limit)
      BY <2>1 DEF Begin, AttemptBounded, TypeInv
    <2>2. CASE ~Refuses(limit)
      <3>1. settings.total_timeout_seconds >= settings.timeout_seconds
        BY <2>2, SettingsTyped DEF Refuses, TypeInv
      <3>2. EffectiveAttempts(settings) >= 1
        BY <3>1, OneAttemptFits DEF TypeInv
      <3> QED BY <2>2, <3>2 DEF Begin, AttemptBounded, fixed
    <2> QED BY <2>1, <2>2
  <1> QED BY <1>1, <1>2, <1>3, <1>4 DEF Begin, TypeInv, TypeOK, fixed, ledgerVars

LEMMA SendTyped ==
    ASSUME TypeInv, Send
    PROVE  TypeInv'
  <1> DEFINE request == RequestOf(call, attempt)
             entry == [call |-> calls, request |-> request]
  <1>1. request \in Request /\ Reserved(request) \in Seq(Request)
    <2>1. request \in Request
      BY RequestTyped DEF TypeInv, TypeOK, Send
    <2> QED BY <2>1 DEF Reserved, TypeInv, TypeOK
  <1>2. entry \in Sent
    <2> HIDE DEF request
    <2> QED BY <1>1 DEF Sent, TypeInv, TypeOK
  <1>3. UNCHANGED <<fixed, runnerVars, callVars, attempts, attempt, held>> /\ pc = "attempt"
    BY DEF Send, Raise
  <1>4. CASE ~AdapterAccepts(Reserved(request), request)
    BY <1>3, <1>4 DEF Send, Raise, TypeInv, TypeOK, AttemptBounded, fixed, runnerVars, callVars
  <1>5. CASE AdapterAccepts(Reserved(request), request)
    <2>1. /\ ledger' = Reserved(request) /\ sent' = Append(sent, entry)
          /\ pc' = "provider" /\ UNCHANGED <<lost, outcome>>
      BY <1>5 DEF Send
    <2> HIDE DEF request, entry
    <2>2. ledger' \in Seq(Request) /\ sent' \in Seq(Sent)
      BY <1>1, <1>2, <2>1 DEF TypeInv, TypeOK
    <2> QED BY <1>3, <2>1, <2>2 DEF TypeInv, TypeOK, AttemptBounded, fixed, runnerVars, callVars
  <1> QED BY <1>4, <1>5

LEMMA ReceiveTyped ==
    ASSUME TypeInv, Receive
    PROVE  TypeInv'
  <1>1. UNCHANGED <<fixed, runnerVars, callVars, sent>> /\ pc = "provider"
    BY DEF Receive, Complete, Escape, FailFor, ScheduleRetry, ExhaustRetries
  <1>2. attempts' \in Seq(Result)
    <2>1. CASE Complete
      BY <2>1, FailedTyped, LiveLLMAssumption DEF Complete, TypeInv
    <2>2. CASE Escape
      BY <2>2 DEF Escape, TypeInv, TypeOK
    <2>3. ASSUME NEW answer \in Answers, FailFor(answer) \/ ScheduleRetry(answer) \/ ExhaustRetries(answer)
          PROVE  attempts' \in Seq(Result)
      <3>1. answer \in Answer /\ FailureReason(answer) \in ProviderReasons
        BY FailureReasons, LiveLLMAssumption
      <3>2. "retry_exhausted" \in ProviderReasons
        BY DEF ProviderReasons
      <3> QED BY <2>3, <3>1, <3>2, FailedTyped DEF FailFor, ScheduleRetry, ExhaustRetries, TypeInv
    <2> QED BY <2>1, <2>2, <2>3 DEF Receive
  <1>3. \/ /\ pc' = "idle" /\ attempt' = attempt
           /\ outcome' \in {None, "completed", "failed", "refused", "escaped"}
        \/ /\ pc' = "attempt" /\ attempt' = attempt + 1 /\ attempt < EffectiveAttempts(settings)
           /\ outcome' = outcome
    BY DEF Receive, Complete, Escape, FailFor, ScheduleRetry, ExhaustRetries, Return, Raise
  <1>4. attempt \in Nat /\ attempt >= 1 /\ EffectiveAttempts(settings) \in Nat
    BY <1>1, AttemptsTyped DEF TypeInv, TypeOK, AttemptBounded
  <1>5. EffectiveAttempts(settings)' = EffectiveAttempts(settings)
    BY <1>1 DEF fixed
  <1>6. AttemptBounded'
    BY <1>3, <1>4, <1>5 DEF AttemptBounded, TypeInv
  <1>7. ledger' \in {ledger, held} /\ held' \in {ledger, held} /\ lost' \in {lost, lost \cup {calls}}
    BY DEF Receive, Complete, Escape, FailFor, ScheduleRetry, ExhaustRetries, Return, Raise, ledgerVars
  <1> QED BY <1>1, <1>2, <1>3, <1>4, <1>6, <1>7 DEF TypeInv, TypeOK, fixed, runnerVars, callVars

LEMMA TypeInvStep == TypeInv /\ [Next]_vars => TypeInv'
  <1> SUFFICES ASSUME TypeInv, [Next]_vars PROVE TypeInv'
    OBVIOUS
  <1>1. ASSUME NEW run \in Runs, Admit(run) PROVE TypeInv'
    <2>1. planned_live_calls' \in Nat /\ admitted' \subseteq Runs /\ seen' \subseteq Runs
      BY <1>1, AttemptsTyped DEF Admit, LiveCost, TypeInv, TypeOK
    <2> QED BY <1>1, <2>1 DEF Admit, TypeInv, TypeOK, AttemptBounded, fixed, callVars, ledgerVars
  <1>2. CASE RunnerCalls
    <2>1. PICK run \in admitted, package \in Packages, input \in RunnerInputs :
              Begin(run, package, input, budget) /\ admitted' = admitted \ {run}
      BY <1>2 DEF RunnerCalls
    <2>2. run \in Runs /\ input \in PolicyInputs /\ budget \in Budgets /\ admitted' \subseteq Runs
      BY <2>1 DEF TypeInv, TypeOK, RunnerInputs
    <2> QED BY <2>1, <2>2, BeginTyped
  <1>3. CASE CallerCalls
    <2>1. PICK run \in Runs, package \in Packages, input \in PolicyInputs, limit \in Budgets :
              Begin(run, package, input, limit)
      BY <1>3 DEF CallerCalls
    <2>2. admitted' \subseteq Runs
      BY <1>3 DEF CallerCalls, TypeInv, TypeOK
    <2> QED BY <2>1, <2>2, BeginTyped
  <1>4. CASE Block
    <2>1. PolicyReason(call, attempt) \in BlockedReasons
      BY <1>4, ReasonsTyped DEF Block, TypeInv, TypeOK
    <2>2. attempts' \in Seq(Result)
      BY <1>4, <2>1, FailedTyped DEF Block, TypeInv
    <2> QED BY <1>4, <2>2 DEF Block, Return, TypeInv, TypeOK, AttemptBounded, fixed, runnerVars, callVars
  <1>5. CASE Send
    BY <1>5, SendTyped
  <1>6. CASE Receive
    BY <1>6, ReceiveTyped
  <1>7. CASE UNCHANGED vars
    BY <1>7 DEF vars, fixed, runnerVars, callVars, TypeInv, TypeOK, AttemptBounded, ledgerVars
  <1> QED BY <1>1, <1>2, <1>3, <1>4, <1>5, <1>6, <1>7 DEF Next

(***************************************************************************)
(* The state of every run keeps its type, for any settings and answers     *)
(* (llm.py:202-300).                                                       *)
(***************************************************************************)
THEOREM LiveLLMTypeCorrect == Spec => []TypeOK
  <1>1. TypeInv => TypeOK
    BY DEF TypeInv
  <1> QED BY TypeInvInit, TypeInvStep, <1>1, PTL DEF Spec

-----------------------------------------------------------------------------
(***************************************************************************)
(* The ledger                                                              *)
(***************************************************************************)
LEMMA ElementsBounded ==
    ASSUME NEW S, NEW s \in Seq(S), NEW T, T \subseteq {s[k] : k \in DOMAIN s}
    PROVE  IsFiniteSet(T) /\ Cardinality(T) \in Nat /\ Cardinality(T) <= Len(s)
  <1> DEFINE range == {s[k] : k \in 1..Len(s)}
  <1>1. DOMAIN s = 1..Len(s) /\ Len(s) \in Nat
    OBVIOUS
  <1>2. IsFiniteSet(1..Len(s)) /\ Cardinality(1..Len(s)) = Len(s)
    <2>1. 1 \in Int /\ Len(s) \in Int
      BY <1>1
    <2>2. /\ IsFiniteSet(1..Len(s))
          /\ Cardinality(1..Len(s)) = IF 1 > Len(s) THEN 0 ELSE Len(s) - 1 + 1
      BY <2>1, FS_Interval, Zenon
    <2> QED BY <1>1, <2>2
  <1>3. PICK f : f \in Surjection(1..Len(s), range)
    <2>1. [k \in 1..Len(s) |-> s[k]] \in Surjection(1..Len(s), range)
      BY DEF Surjection
    <2> QED BY <2>1
  <1>4. IsFiniteSet(range) /\ Cardinality(range) <= Len(s)
    <2> DEFINE positions == 1..Len(s)
    <2>1. f \in Surjection(positions, range) /\ IsFiniteSet(positions) /\ Cardinality(positions) = Len(s)
      BY <1>2, <1>3
    <2> HIDE DEF positions, range
    <2>2. IsFiniteSet(range) /\ Cardinality(range) <= Cardinality(positions)
      BY <2>1, FS_Surjection
    <2> QED BY <2>1, <2>2
  <1> QED BY <1>1, <1>4, FS_Subset, FS_CardinalityType

LEMMA AppendElements ==
    ASSUME NEW S, NEW s \in Seq(S), NEW e \in S
    PROVE  /\ Append(s, e) \in Seq(S) /\ Len(Append(s, e)) = Len(s) + 1 /\ Len(s) \in Nat
           /\ DOMAIN Append(s, e) = DOMAIN s \cup {Len(s) + 1} /\ Len(s) + 1 \notin DOMAIN s
           /\ \A i \in DOMAIN s : Append(s, e)[i] = s[i] /\ i \in Nat /\ i <= Len(s)
           /\ Append(s, e)[Len(s) + 1] = e
  OBVIOUS

\* What is paid for at all is in the ledger.
LEMMA PaidIsReserved ==
    ASSUME TypeInv, SentReserved, NEW n \in Nat, n <= Len(sent)
    PROVE  IsFiniteSet(PaidFor(n)) /\ Cardinality(PaidFor(n)) \in Nat /\ Cardinality(PaidFor(n)) <= Len(ledger)
  <1>1. ledger \in Seq(Request) /\ sent \in Seq(Sent)
    BY DEF TypeInv, TypeOK
  <1>2. 1..n \subseteq DOMAIN sent
    BY <1>1
  <1>3. PaidFor(n) \subseteq {ledger[k] : k \in DOMAIN ledger}
    BY <1>2 DEF PaidFor, SentReserved
  <1> QED BY <1>1, <1>3, ElementsBounded

\* A request is approved as a new reservation within the budget, or it has one.
LEMMA SendReserves ==
    ASSUME TypeInv, Send, NEW request, request = RequestOf(call, attempt)
    PROVE  /\ request \in Request /\ request.package[2] = budget
           /\ request.key = [run |-> call.run, attempt |-> attempt]
           /\ \/ /\ \A i \in DOMAIN ledger : ledger[i].key # request.key
                 /\ Reserved(request) = Append(ledger, request)
                 /\ Len(ledger) + 1 <= budget
              \/ Reserved(request) = ledger /\ Len(ledger) <= budget
           /\ \/ /\ AdapterAccepts(Reserved(request), request)
                 /\ ledger' = Reserved(request)
                 /\ sent' = Append(sent, [call |-> calls, request |-> request])
                 /\ pc' = "provider" /\ UNCHANGED <<held, lost, attempt, outcome>>
              \/ ~AdapterAccepts(Reserved(request), request) /\ Raise /\ UNCHANGED sent
  <1>1. request \in Request
    BY RequestTyped DEF TypeInv, TypeOK, Send
  <1>2. request.package[2] = budget /\ request.key = [run |-> call.run, attempt |-> attempt]
    BY DEF RequestOf, KeyOfAttempt
  <1>3. ReservationReason(request) = None
    BY NoneAssumption DEF Send, PolicyReason
  <1>4. Len(ledger) \in Nat /\ budget \in Nat
    BY SettingsTyped DEF TypeInv, TypeOK
  <1>5. \/ /\ AdapterAccepts(Reserved(request), request)
           /\ ledger' = Reserved(request)
           /\ sent' = Append(sent, [call |-> calls, request |-> request])
           /\ pc' = "provider" /\ UNCHANGED <<held, lost, attempt, outcome>>
        \/ ~AdapterAccepts(Reserved(request), request) /\ Raise /\ UNCHANGED sent
    BY DEF Send
  <1>6. CASE ReservationsOf(request.key) = {}
    <2>1. Len(ledger) + 1 <= budget
      BY <1>3, <1>4, <1>6, NoneAssumption DEF ReservationReason, BlockedReasons
    <2>2. Reserved(request) = Append(ledger, request)
      BY <1>6 DEF Reserved
    <2>3. \A i \in DOMAIN ledger : ledger[i].key # request.key
      BY <1>6 DEF ReservationsOf
    <2> QED BY <1>1, <1>2, <1>5, <2>1, <2>2, <2>3
  <1>7. CASE ReservationsOf(request.key) # {}
    <2>1. Len(ledger) <= budget
      BY <1>3, <1>4, <1>7, NoneAssumption DEF ReservationReason, BlockedReasons
    <2>2. Reserved(request) = ledger
      BY <1>7 DEF Reserved
    <2> QED BY <1>1, <1>2, <1>5, <2>1, <2>2
  <1> QED BY <1>6, <1>7

LedgerFacts ==
    /\ KeysUnique /\ HeldUnique /\ IdleHolds
    /\ SentReserved /\ SentHeld /\ WithinRequestBudget
    /\ CallsPast /\ AttemptsPast /\ SentOnce

LEMMA LedgerInit == Init => LedgerFacts
  BY DEF Init, LedgerFacts, KeysUnique, HeldUnique, IdleHolds, SentReserved, SentHeld, WithinRequestBudget,
         CallsPast, AttemptsPast, SentOnce

\* What a step does to the ledger: nothing, or it begins a call, returns the
\* copy, goes on to the next attempt, leaves the copy behind, or reserves.
LEMMA StepKinds ==
    ASSUME [Next]_vars
    PROVE  \/ UNCHANGED <<ledgerVars, sent, pc, attempt, calls>>
           \/ /\ pc = "idle" /\ calls' = calls + 1 /\ UNCHANGED <<ledgerVars, sent>>
              /\ pc' = "idle" \/ (pc' = "attempt" /\ attempt' = 1)
           \/ /\ pc # "idle" /\ pc' = "idle" /\ held' = ledger
              /\ UNCHANGED <<ledger, lost, sent, calls>>
           \/ /\ pc = "provider" /\ pc' = "attempt" /\ attempt' = attempt + 1
              /\ UNCHANGED <<ledgerVars, sent, calls>>
           \/ pc # "idle" /\ Raise /\ UNCHANGED <<sent, calls>>
           \/ Send
  <1>1. ASSUME NEW run \in Runs, Admit(run)
        PROVE  UNCHANGED <<ledgerVars, sent, pc, attempt, calls>>
    BY <1>1 DEF Admit, callVars
  <1>2. ASSUME NEW run, NEW package, NEW input, NEW limit, Begin(run, package, input, limit)
        PROVE  /\ pc = "idle" /\ calls' = calls + 1 /\ UNCHANGED <<ledgerVars, sent>>
               /\ pc' = "idle" \/ (pc' = "attempt" /\ attempt' = 1)
    BY <1>2 DEF Begin
  <1>3. CASE Block
    BY <1>3 DEF Block, Return, callVars
  <1>4. CASE Complete
    BY <1>4 DEF Complete, Return, callVars
  <1>5. CASE Escape
    BY <1>5 DEF Escape, callVars
  <1>6. ASSUME NEW answer \in Answers, FailFor(answer) \/ ExhaustRetries(answer)
        PROVE  /\ pc # "idle" /\ pc' = "idle" /\ held' = ledger
               /\ UNCHANGED <<ledger, lost, sent, calls>>
    BY <1>6 DEF FailFor, ExhaustRetries, Return, callVars
  <1>7. ASSUME NEW answer \in Answers, ScheduleRetry(answer)
        PROVE  \/ /\ pc # "idle" /\ pc' = "idle" /\ held' = ledger
                  /\ UNCHANGED <<ledger, lost, sent, calls>>
               \/ /\ pc = "provider" /\ pc' = "attempt" /\ attempt' = attempt + 1
                  /\ UNCHANGED <<ledgerVars, sent, calls>>
    BY <1>7 DEF ScheduleRetry, Return, callVars
  <1>8. CASE UNCHANGED vars
    BY <1>8 DEF vars, callVars
  <1> QED BY <1>1, <1>2, <1>3, <1>4, <1>5, <1>6, <1>7, <1>8 DEF Next, RunnerCalls, CallerCalls, Receive

\* A new call has sent nothing, and falls back to all that is reserved.
LEMMA BeginKeeps ==
    ASSUME TypeInv, LedgerFacts, pc = "idle", calls' = calls + 1, UNCHANGED <<ledgerVars, sent>>,
           pc' = "idle" \/ (pc' = "attempt" /\ attempt' = 1)
    PROVE  LedgerFacts'
  <1>1. calls \in Nat /\ ledger = held
    BY DEF TypeInv, TypeOK, LedgerFacts, IdleHolds
  <1>2. \A i \in DOMAIN sent : sent[i].call <= calls /\ sent[i].call \in Nat
    <2>1. sent \in Seq(Sent)
      BY DEF TypeInv, TypeOK
    <2>2. \A i \in DOMAIN sent : sent[i] \in Sent
      BY <2>1
    <2> QED BY <2>2 DEF Sent, LedgerFacts, CallsPast
  <1>3. CallsPast' /\ AttemptsPast' /\ SentOnce'
    BY <1>1, <1>2 DEF CallsPast, AttemptsPast, SentOnce, LedgerFacts
  <1>4. KeysUnique' /\ HeldUnique' /\ IdleHolds' /\ SentReserved' /\ WithinRequestBudget'
    BY <1>1 DEF LedgerFacts, KeysUnique, HeldUnique, IdleHolds, SentReserved, WithinRequestBudget, Kept,
       PaidFor, ledgerVars
  <1>5. SentHeld'
    BY <1>1 DEF LedgerFacts, SentReserved, SentHeld, Kept, ledgerVars
  <1> QED BY <1>3, <1>4, <1>5 DEF LedgerFacts

\* An exception takes what its own call has reserved, and nothing else.
LEMMA RaiseKeeps ==
    ASSUME TypeInv, LedgerFacts, pc # "idle", Raise, UNCHANGED <<sent, calls>>
    PROVE  LedgerFacts'
  <1>1. ledger' = held /\ held' = held /\ lost' = lost \cup {calls} /\ pc' = "idle"
    BY DEF Raise
  <1>2. sent \in Seq(Sent) /\ calls \in Nat
    BY DEF TypeInv, TypeOK
  <1>3. ASSUME NEW i \in DOMAIN sent, Kept(i)'
        PROVE  Kept(i) /\ sent[i].call < calls
    <2>1. sent[i].call \in Nat
      <3>1. sent[i] \in Sent
        BY <1>2
      <3> QED BY <3>1 DEF Sent
    <2>2. sent[i].call # calls /\ Kept(i) /\ sent[i].call <= calls
      BY <1>1, <1>3 DEF Kept, LedgerFacts, CallsPast
    <2> QED BY <1>2, <2>1, <2>2
  <1>4. SentReserved' /\ SentHeld'
    BY <1>1, <1>3 DEF LedgerFacts, SentHeld, SentReserved
  <1>5. WithinRequestBudget'
    <2> SUFFICES ASSUME NEW i \in DOMAIN sent
                 PROVE  Cardinality(PaidFor(i)') <= sent[i].request.package[2]
      BY DEF WithinRequestBudget
    <2>1. i \in Nat /\ i <= Len(sent) /\ 1..i \subseteq DOMAIN sent
      BY <1>2
    <2>2. PaidFor(i)' \subseteq PaidFor(i)
      BY <1>3, <2>1 DEF PaidFor
    <2>3. IsFiniteSet(PaidFor(i)) /\ Cardinality(PaidFor(i)) \in Nat
      BY <2>1, PaidIsReserved DEF LedgerFacts
    <2>4. Cardinality(PaidFor(i)') \in Nat /\ Cardinality(PaidFor(i)') <= Cardinality(PaidFor(i))
      BY <2>2, <2>3, FS_Subset, FS_CardinalityType
    <2>5. Cardinality(PaidFor(i)) <= sent[i].request.package[2] /\ sent[i].request.package[2] \in Nat
      <3>1. sent[i] \in Sent
        BY <1>2
      <3>2. sent[i].request.package[2] \in Budgets
        BY <3>1 DEF Sent, Request
      <3> QED BY <3>2, LiveLLMAssumption DEF LedgerFacts, WithinRequestBudget
    <2> QED BY <2>3, <2>4, <2>5
  <1>6. KeysUnique' /\ HeldUnique' /\ IdleHolds' /\ CallsPast' /\ AttemptsPast' /\ SentOnce'
    BY <1>1 DEF LedgerFacts, KeysUnique, HeldUnique, IdleHolds, CallsPast, AttemptsPast, SentOnce
  <1> QED BY <1>4, <1>5, <1>6 DEF LedgerFacts

LEMMA SendKeeps ==
    ASSUME TypeInv, TypeInv', LedgerFacts, Send,
           NEW request, request = RequestOf(call, attempt), AdapterAccepts(Reserved(request), request)
    PROVE  LedgerFacts'
  <1> DEFINE entry == [call |-> calls, request |-> request]
  <1>1. /\ request \in Request /\ request.package[2] = budget /\ request.key.attempt = attempt
        /\ \/ /\ \A i \in DOMAIN ledger : ledger[i].key # request.key
              /\ ledger' = Append(ledger, request) /\ Len(ledger) + 1 <= budget
           \/ ledger' = ledger /\ Len(ledger) <= budget
        /\ sent' = Append(sent, entry)
        /\ pc' = "provider" /\ UNCHANGED <<held, lost, attempt>>
        /\ AdapterAccepts(ledger', request)
    BY SendReserves
  <1>2. pc = "attempt" /\ calls' = calls
    BY DEF Send, callVars
  <1>3. /\ ledger \in Seq(Request) /\ sent \in Seq(Sent) /\ sent' \in Seq(Sent) /\ ledger' \in Seq(Request)
        /\ budget \in Nat /\ calls \in Nat /\ attempt \in Nat
    BY SettingsTyped DEF TypeInv, TypeOK
  <1>4. entry \in Sent /\ entry.call = calls /\ entry.request = request
    BY <1>1 DEF Sent, TypeInv, TypeOK
  <1> HIDE DEF entry
  <1>5. /\ DOMAIN sent' = DOMAIN sent \cup {Len(sent) + 1} /\ Len(sent) + 1 \notin DOMAIN sent
        /\ \A i \in DOMAIN sent : sent'[i] = sent[i] /\ i \in Nat /\ i <= Len(sent)
        /\ sent'[Len(sent) + 1] = entry /\ Len(sent') = Len(sent) + 1 /\ Len(sent) \in Nat
    BY <1>1, <1>3, <1>4, AppendElements
  <1>6. /\ KeysUnique' /\ DOMAIN ledger \subseteq DOMAIN ledger'
        /\ \A i \in DOMAIN ledger : ledger'[i] = ledger[i]
    <2>1. CASE /\ \A i \in DOMAIN ledger : ledger[i].key # request.key
               /\ ledger' = Append(ledger, request)
      <3>1. /\ DOMAIN ledger' = DOMAIN ledger \cup {Len(ledger) + 1}
            /\ \A i \in DOMAIN ledger : ledger'[i] = ledger[i]
            /\ ledger'[Len(ledger) + 1] = request
        BY <1>1, <1>3, <2>1, AppendElements
      <3> QED BY <2>1, <3>1 DEF LedgerFacts, KeysUnique
    <2>2. CASE ledger' = ledger
      BY <2>2 DEF LedgerFacts, KeysUnique
    <2> QED BY <1>1, <2>1, <2>2
  <1>7. SentReserved'
    <2>1. \E j \in DOMAIN ledger' : ledger'[j] = request
      BY <1>1 DEF AdapterAccepts
    <2>2. ASSUME NEW i \in DOMAIN sent, Kept(i)'
          PROVE  \E j \in DOMAIN ledger' : ledger'[j] = sent'[i].request
      BY <1>1, <1>5, <1>6, <2>2 DEF LedgerFacts, SentReserved, Kept
    <2> QED BY <1>4, <1>5, <2>1, <2>2 DEF SentReserved
  <1>8. SentHeld'
    <2>1. ~(entry.call < calls)
      BY <1>3, <1>4
    <2> QED BY <1>1, <1>2, <1>5, <2>1 DEF LedgerFacts, SentHeld, Kept
  <1>9. WithinRequestBudget'
    <2>1. ASSUME NEW i \in DOMAIN sent
          PROVE  Cardinality(PaidFor(i)') <= sent'[i].request.package[2]
      <3>1. 1..i \subseteq DOMAIN sent
        BY <1>3
      <3>2. PaidFor(i)' = PaidFor(i)
        BY <1>1, <1>5, <3>1 DEF PaidFor, Kept
      <3> QED BY <1>5, <3>2 DEF LedgerFacts, WithinRequestBudget
    <2>2. ASSUME NEW n \in Nat, n = Len(sent) + 1
          PROVE  Cardinality(PaidFor(n)') <= budget
      <3>1. PaidFor(n)' \subseteq {ledger'[k] : k \in DOMAIN ledger'}
        <4>1. 1..n = DOMAIN sent'
          BY <1>3, <1>5, <2>2
        <4> QED BY <1>7, <4>1 DEF PaidFor, SentReserved
      <3>2. Cardinality(PaidFor(n)') \in Nat /\ Cardinality(PaidFor(n)') <= Len(ledger')
        BY <1>3, <3>1, ElementsBounded
      <3>3. Len(ledger') <= budget /\ Len(ledger') \in Nat
        BY <1>1, <1>3
      <3> QED BY <1>3, <3>2, <3>3
    <2>3. ASSUME NEW n \in DOMAIN sent'
          PROVE  Cardinality(PaidFor(n)') <= sent'[n].request.package[2]
      <3>1. CASE n \in DOMAIN sent
        BY <2>1, <3>1
      <3>2. CASE n = Len(sent) + 1
        BY <1>1, <1>4, <1>5, <2>2, <3>2
      <3> QED BY <1>5, <3>1, <3>2
    <2> QED BY <2>3 DEF WithinRequestBudget
  <1>10. ASSUME NEW i \in DOMAIN sent, sent[i].call = calls
         PROVE  sent[i].request.key.attempt <= attempt /\ sent[i].request.key # request.key
    <2>1. sent[i].request.key.attempt < attempt
      BY <1>2, <1>10 DEF LedgerFacts, AttemptsPast
    <2>2. sent[i].request.key.attempt \in Nat
      <3>1. sent[i] \in Sent
        BY <1>3
      <3> QED BY <3>1 DEF Sent, Request, RunKey
    <2>3. request.key.attempt = attempt /\ attempt \in Nat
      BY <1>1, <1>3
    <2>4. sent[i].request.key.attempt # attempt /\ sent[i].request.key.attempt <= attempt
      BY <2>1, <2>2, <2>3
    <2> QED BY <2>3, <2>4
  <1>11. CallsPast'
    BY <1>2, <1>3, <1>4, <1>5 DEF LedgerFacts, CallsPast
  <1>12. AttemptsPast'
    <2>1. ASSUME NEW i \in DOMAIN sent', sent'[i].call = calls
          PROVE  sent'[i].request.key.attempt <= attempt
      <3>1. CASE i \in DOMAIN sent
        BY <1>5, <1>10, <2>1, <3>1
      <3>2. CASE i = Len(sent) + 1
        BY <1>1, <1>3, <1>4, <1>5, <3>2
      <3> QED BY <1>5, <3>1, <3>2
    <2> QED BY <1>1, <1>2, <2>1 DEF AttemptsPast
  <1>13. SentOnce'
    BY <1>4, <1>5, <1>10 DEF LedgerFacts, SentOnce
  <1>14. HeldUnique' /\ IdleHolds'
    BY <1>1 DEF LedgerFacts, HeldUnique, IdleHolds
  <1> QED BY <1>6, <1>7, <1>8, <1>9, <1>11, <1>12, <1>13, <1>14 DEF LedgerFacts

LEMMA LedgerStep == TypeInv /\ LedgerFacts /\ [Next]_vars => LedgerFacts'
  <1> SUFFICES ASSUME TypeInv, LedgerFacts, [Next]_vars PROVE LedgerFacts'
    OBVIOUS
  <1>1. CASE UNCHANGED <<ledgerVars, sent, pc, attempt, calls>>
    BY <1>1 DEF LedgerFacts, KeysUnique, HeldUnique, IdleHolds, SentReserved, SentHeld,
       WithinRequestBudget, CallsPast, AttemptsPast, SentOnce, Kept, PaidFor, ledgerVars
  <1>2. CASE /\ pc = "idle" /\ calls' = calls + 1 /\ UNCHANGED <<ledgerVars, sent>>
             /\ pc' = "idle" \/ (pc' = "attempt" /\ attempt' = 1)
    BY <1>2, BeginKeeps
  <1>3. CASE /\ pc # "idle" /\ pc' = "idle" /\ held' = ledger
             /\ UNCHANGED <<ledger, lost, sent, calls>>
    BY <1>3 DEF LedgerFacts, KeysUnique, HeldUnique, IdleHolds, SentReserved, SentHeld,
       WithinRequestBudget, CallsPast, AttemptsPast, SentOnce, Kept, PaidFor
  <1>4. CASE /\ pc = "provider" /\ pc' = "attempt" /\ attempt' = attempt + 1
             /\ UNCHANGED <<ledgerVars, sent, calls>>
    <2>1. AttemptsPast'
      <3>1. ASSUME NEW i \in DOMAIN sent, sent[i].call = calls
            PROVE  sent[i].request.key.attempt < attempt + 1
        <4>1. sent \in Seq(Sent) /\ attempt \in Nat
          BY DEF TypeInv, TypeOK
        <4>2. sent[i] \in Sent
          BY <4>1
        <4>3. sent[i].request.key.attempt \in Nat
          BY <4>2 DEF Sent, Request, RunKey
        <4>4. sent[i].request.key.attempt <= attempt
          BY <1>4, <3>1 DEF LedgerFacts, AttemptsPast
        <4> QED BY <4>1, <4>3, <4>4
      <3> QED BY <1>4, <3>1 DEF AttemptsPast
    <2> QED BY <1>4, <2>1 DEF LedgerFacts, KeysUnique, HeldUnique, IdleHolds, SentReserved, SentHeld,
       WithinRequestBudget, CallsPast, SentOnce, Kept, PaidFor, ledgerVars
  <1>5. CASE pc # "idle" /\ Raise /\ UNCHANGED <<sent, calls>>
    BY <1>5, RaiseKeeps
  <1>6. CASE Send
    <2>1. PICK request : request = RequestOf(call, attempt)
      OBVIOUS
    <2>2. CASE AdapterAccepts(Reserved(request), request)
      BY <1>6, <2>1, <2>2, SendKeeps, TypeInvStep
    <2>3. CASE ~AdapterAccepts(Reserved(request), request)
      <3>1. Raise /\ UNCHANGED <<sent, calls>> /\ pc # "idle"
        BY <1>6, <2>1, <2>3 DEF Send, callVars
      <3> QED BY <3>1, RaiseKeeps
    <2> QED BY <2>2, <2>3
  <1> QED BY <1>1, <1>2, <1>3, <1>4, <1>5, <1>6, StepKinds

LEMMA LedgerInvariant == Spec => []LedgerFacts
  BY TypeInvInit, TypeInvStep, LedgerInit, LedgerStep, PTL DEF Spec

(***************************************************************************)
(* For every caller that starts with an empty ledger and passes on the one *)
(* it has: no run key is reserved twice, a request is sent only with its   *)
(* reservation in the ledger, which stays there unless an exception ends   *)
(* the call that sent it, and the different requests that are paid for are *)
(* no more than the package that is sent allows (llm.py:174-178,296,       *)
(* llm_policy.py:376-469, reviewers.py:98-136).                            *)
(***************************************************************************)
THEOREM LedgerKeepsAccount == Spec => []EveryRequestReserved
  <1>1. LedgerFacts => EveryRequestReserved
    BY DEF LedgerFacts, KeysUnique, SentReserved, WithinRequestBudget, EveryRequestReserved
  <1> QED BY LedgerInvariant, <1>1, PTL

-----------------------------------------------------------------------------
(***************************************************************************)
(* The plan of the review loop.  It covers the reservations because each   *)
(* of its parts passes from one place to the next: from the admitted       *)
(* reviewers to the attempts of the current call, and from there to the    *)
(* ledger.                                                                 *)
(***************************************************************************)
CutOffReasons == {"live_call_budget_exceeded", "live_call_reservation_conflict"}

NoneCutOff ==
    /\ \A i \in DOMAIN attempts : attempts[i].reason \notin CutOffReasons
    /\ outcome # "refused"

LEMMA NeverCutOffIs == NeverCutOff <=> (driver = "runner" => NoneCutOff)
  BY DEF NeverCutOff, NoneCutOff, CutOffReasons

LEMMA Times ==
    ASSUME NEW k \in Nat, NEW c \in Nat
    PROVE  k * c \in Nat /\ (k + 1) * c = k * c + c
  OBVIOUS

LEMMA PlanInit == Init => PlanInv
  <1> SUFFICES ASSUME Init, driver = "runner" PROVE RunnerInv /\ NeverCutOff
    BY DEF PlanInv
  <1>1. Cardinality(admitted) = 0 /\ IsFiniteSet(admitted)
    BY FS_EmptySet DEF Init
  <1>2. TypeOK
    BY TypeInvInit DEF TypeInv
  <1>3. LiveCost \in Nat /\ budget \in Nat
    BY <1>2, AttemptsTyped, SettingsTyped DEF LiveCost
  <1>4. Len(ledger) = 0 /\ Remaining = 0 /\ planned_live_calls = 0
    BY DEF Init, Remaining
  <1>5. PlanCovers
    BY <1>1, <1>3, <1>4, Times DEF PlanCovers
  <1>6. KeysUsed
    BY DEF Init, KeysUsed
  <1> QED BY <1>5, <1>6, NoneAssumption DEF Init, RunnerInv, NeverCutOff

LEMMA AttemptAppended ==
    ASSUME TypeInv, NoneCutOff, NEW result \in Result, attempts' = Append(attempts, result),
           result.reason \notin CutOffReasons, outcome' # "refused"
    PROVE  NoneCutOff'
  <1>1. attempts \in Seq(Result)
    BY DEF TypeInv, TypeOK
  <1>2. /\ DOMAIN attempts' = DOMAIN attempts \cup {Len(attempts) + 1}
        /\ \A i \in DOMAIN attempts : attempts'[i] = attempts[i]
        /\ attempts'[Len(attempts) + 1] = result
    BY <1>1, AppendElements
  <1> QED BY <1>2 DEF NoneCutOff

LEMMA AdmitPlanned ==
    ASSUME TypeInv, RunnerInv, NoneCutOff, NEW run \in Runs, Admit(run)
    PROVE  RunnerInv' /\ NoneCutOff'
  <1>1. /\ UNCHANGED <<fixed, budget, ledger, pc, call, attempt, attempts, outcome, sent>>
        /\ pc = "idle" /\ run \notin seen /\ seen' = seen \cup {run}
    BY DEF Admit, callVars, ledgerVars
  <1>2. Remaining = 0 /\ Remaining' = 0 /\ LiveCost' = LiveCost
    BY <1>1 DEF Remaining, LiveCost, fixed
  <1>3. KeysUsed'
    BY <1>1 DEF Admit, RunnerInv, KeysUsed
  <1>4. PlanCovers'
    <2>1. /\ Len(ledger) \in Nat /\ LiveCost \in Nat /\ budget \in Nat /\ planned_live_calls \in Nat
          /\ Cardinality(admitted) \in Nat
      BY AttemptsTyped, SettingsTyped, FS_CardinalityType
         DEF LiveCost, TypeInv, TypeOK, RunnerInv, PlanCovers
    <2>2. CASE UNCHANGED <<admitted, planned_live_calls>>
      BY <1>1, <1>2, <2>2 DEF RunnerInv, PlanCovers
    <2>3. CASE /\ planned_live_calls + LiveCost <= budget
               /\ admitted' = admitted \cup {run}
               /\ planned_live_calls' = planned_live_calls + LiveCost
      <3>1. run \notin admitted
        BY <1>1 DEF RunnerInv, KeysUsed
      <3>2. IsFiniteSet(admitted') /\ Cardinality(admitted') = Cardinality(admitted) + 1
        BY <2>3, <3>1, FS_AddElement DEF RunnerInv, PlanCovers
      <3>3. /\ Cardinality(admitted') * LiveCost = Cardinality(admitted) * LiveCost + LiveCost
            /\ Cardinality(admitted) * LiveCost \in Nat
        BY <2>1, <3>2, Times
      <3>4. Len(ledger) + Cardinality(admitted) * LiveCost <= planned_live_calls
        BY <1>2, <2>1, <3>3 DEF RunnerInv, PlanCovers
      <3> DEFINE owed == Cardinality(admitted) * LiveCost
                 owes == Cardinality(admitted') * LiveCost
      <3>5. Len(ledger) + owes <= planned_live_calls' /\ planned_live_calls' <= budget
        <4>1. owes = owed + LiveCost /\ owed \in Nat /\ Len(ledger) + owed <= planned_live_calls
          BY <3>3, <3>4
        <4> HIDE DEF owed, owes
        <4> QED BY <2>1, <2>3, <4>1
      <3> QED BY <1>1, <1>2, <2>1, <3>2, <3>3, <3>5 DEF PlanCovers
    <2>4. ~(planned_live_calls + LiveCost > budget) <=> planned_live_calls + LiveCost <= budget
      BY <2>1
    <2> QED BY <2>2, <2>3, <2>4 DEF Admit
  <1>5. NoneCutOff'
    BY <1>1 DEF NoneCutOff
  <1> QED BY <1>1, <1>3, <1>4, <1>5 DEF RunnerInv, fixed

LEMMA RunnerCallsPlanned ==
    ASSUME TypeInv, RunnerInv, RunnerCalls
    PROVE  RunnerInv' /\ NoneCutOff'
  <1>1. PICK run \in admitted, package \in Packages, input \in RunnerInputs :
            Begin(run, package, input, budget) /\ admitted' = admitted \ {run}
    BY DEF RunnerCalls
  <1>2. /\ UNCHANGED <<fixed, seen, planned_live_calls, ledger, sent, budget>> /\ pc = "idle"
        /\ call' = [run |-> run, package |-> package, input |-> input] /\ attempts' = <<>>
    BY <1>1 DEF Begin, ledgerVars
  <1>3. /\ Len(ledger) \in Nat /\ LiveCost \in Nat /\ budget \in Nat /\ planned_live_calls \in Nat
        /\ Cardinality(admitted) \in Nat
    BY AttemptsTyped, SettingsTyped, FS_CardinalityType
       DEF LiveCost, TypeInv, TypeOK, RunnerInv, PlanCovers
  <1>4. /\ IsFiniteSet(admitted') /\ Cardinality(admitted') \in Nat
        /\ Cardinality(admitted) = Cardinality(admitted') + 1
    <2>1. IsFiniteSet(admitted') /\ Cardinality(admitted') = Cardinality(admitted) - 1
      BY <1>1, FS_RemoveElement DEF RunnerInv, PlanCovers
    <2> QED BY <1>3, <2>1, FS_CardinalityType
  <1> DEFINE owed == Cardinality(admitted) * LiveCost
             owes == Cardinality(admitted') * LiveCost
  <1>5. owed = owes + LiveCost /\ owes \in Nat
    BY <1>3, <1>4, Times
  <1>6. Len(ledger) + owed <= planned_live_calls /\ planned_live_calls <= budget
    <2>1. Len(ledger) + 0 + owed <= planned_live_calls /\ planned_live_calls <= budget
      BY <1>2 DEF RunnerInv, PlanCovers, Remaining
    <2> QED BY <1>3, <2>1
  <1> HIDE DEF owed, owes
  <1>7. LiveCost <= budget
    BY <1>3, <1>5, <1>6
  <1>8. ~Refuses(budget)
    BY <1>3, <1>7, SettingsTyped DEF Refuses, LiveCost, RunnerInv, TypeInv
  <1>9. pc' = "attempt" /\ attempt' = 1 /\ outcome' = None
    BY <1>1, <1>8 DEF Begin
  <1>10. LiveCost' = LiveCost /\ Remaining' = LiveCost
    BY <1>2, <1>3, <1>9 DEF Remaining, LiveCost, fixed
  <1>11. PlanCovers'
    <2>1. Len(ledger) + LiveCost + owes <= planned_live_calls
      BY <1>3, <1>5, <1>6
    <2> QED BY <1>2, <1>4, <1>6, <1>10, <2>1 DEF PlanCovers, owes
  <1>12. KeysUsed'
    BY <1>1, <1>2, <1>9 DEF KeysUsed, RunnerInv
  <1>13. NoneCutOff'
    BY <1>2, <1>9, NoneAssumption DEF NoneCutOff
  <1> QED BY <1>2, <1>11, <1>12, <1>13 DEF RunnerInv, fixed

\* No reservation has the run key of the attempt that is about to be made,
\* and there is a call left for it.
LEMMA AttemptIsFree ==
    ASSUME TypeInv, RunnerInv, pc = "attempt"
    PROVE  /\ \A i \in DOMAIN ledger : ledger[i].key # RequestOf(call, attempt).key
           /\ Len(ledger) + 1 <= budget
  <1>1. RequestOf(call, attempt).key = [run |-> call.run, attempt |-> attempt]
    BY DEF RequestOf, KeyOfAttempt
  <1>2. attempt \in Nat /\ ledger \in Seq(Request)
    BY DEF TypeInv, TypeOK
  <1>3. \A i \in DOMAIN ledger : ledger[i].key # RequestOf(call, attempt).key
    <2> SUFFICES ASSUME NEW i \in DOMAIN ledger, ledger[i].key = RequestOf(call, attempt).key
                 PROVE  FALSE
      OBVIOUS
    <2>1. ledger[i].key.run = call.run /\ ledger[i].key.attempt = attempt
      BY <1>1
    <2>2. ledger[i].key.attempt < attempt
      BY <2>1 DEF RunnerInv, KeysUsed
    <2> QED BY <1>2, <2>1, <2>2
  <1> DEFINE owed == Cardinality(admitted) * LiveCost
  <1>4. owed \in Nat /\ Len(ledger) \in Nat /\ budget \in Nat /\ planned_live_calls \in Nat
        /\ EffectiveAttempts(settings) \in Nat
    BY <1>2, AttemptsTyped, SettingsTyped, FS_CardinalityType, Times
       DEF LiveCost, TypeInv, TypeOK, RunnerInv, PlanCovers
  <1>5. Len(ledger) + Remaining + owed <= planned_live_calls /\ planned_live_calls <= budget
    BY DEF RunnerInv, PlanCovers
  <1>6. Remaining \in Nat /\ Remaining >= 1
    BY <1>2, <1>4 DEF Remaining, TypeInv, AttemptBounded
  <1> HIDE DEF owed
  <1> QED BY <1>3, <1>4, <1>5, <1>6

LEMMA BlockPlanned ==
    ASSUME TypeInv, RunnerInv, NoneCutOff, Block
    PROVE  RunnerInv' /\ NoneCutOff'
  <1> DEFINE reason == PolicyReason(call, attempt)
  <1>1. /\ UNCHANGED <<fixed, runnerVars, callVars, ledger, sent>>
        /\ pc = "attempt" /\ pc' = "idle" /\ outcome' = "failed"
        /\ reason # None /\ attempts' = Append(attempts, Failed(reason, FALSE, None))
    BY DEF Block, Return, callVars
  <1>2. ReservationReason(RequestOf(call, attempt)) = None
    <2>1. ReservationsOf(RequestOf(call, attempt).key) = {} /\ ~(Len(ledger) + 1 > budget)
      <3>1. Len(ledger) \in Nat /\ budget \in Nat
        BY SettingsTyped DEF TypeInv, TypeOK
      <3> QED BY <1>1, <3>1, AttemptIsFree DEF ReservationsOf
    <2> QED BY <2>1 DEF ReservationReason
  <1>3. reason = InputReason(call.input)
    BY <1>1, <1>2 DEF PolicyReason
  <1>4. call.input \in PolicyInput /\ call \in Call
    BY <1>1, LiveLLMAssumption DEF TypeInv, TypeOK, Call
  <1>5. reason \in BlockedReasons /\ reason \notin CutOffReasons
    BY <1>1, <1>3, <1>4, InputReasons DEF CutOffReasons
  <1>6. Failed(reason, FALSE, None) \in Result /\ Failed(reason, FALSE, None).reason = reason
    <2> HIDE DEF reason
    <2> QED BY <1>5 DEF Failed, Result, TypeInv, TypeOK
  <1>7. NoneCutOff'
    <2> HIDE DEF reason
    <2> QED BY <1>1, <1>5, <1>6, AttemptAppended
  <1>8. KeysUsed'
    BY <1>1 DEF RunnerInv, KeysUsed, runnerVars
  <1>9. PlanCovers'
    <2>1. Remaining' = 0 /\ LiveCost' = LiveCost
      BY <1>1 DEF Remaining, LiveCost, fixed
    <2> DEFINE owed == Cardinality(admitted) * LiveCost
    <2>2. Len(ledger) + Remaining + owed <= planned_live_calls /\ planned_live_calls <= budget
      BY DEF RunnerInv, PlanCovers
    <2>3. Remaining \in Nat /\ Len(ledger) \in Nat /\ owed \in Nat /\ planned_live_calls \in Nat
      BY <1>1, AttemptsTyped, FS_CardinalityType, Times
         DEF Remaining, LiveCost, TypeInv, TypeOK, AttemptBounded, RunnerInv, PlanCovers
    <2>4. Len(ledger) + 0 + owed <= planned_live_calls
      <3> HIDE DEF owed
      <3> QED BY <2>2, <2>3
    <2> QED BY <1>1, <2>1, <2>2, <2>4 DEF PlanCovers, RunnerInv, runnerVars, callVars
  <1> QED BY <1>1, <1>7, <1>8, <1>9 DEF RunnerInv, fixed

LEMMA KeysTyped == TypeOK => \A i \in DOMAIN ledger : ledger[i].key.attempt \in Nat
  <1> SUFFICES ASSUME TypeOK, NEW i \in DOMAIN ledger PROVE ledger[i].key.attempt \in Nat
    OBVIOUS
  <1>1. ledger[i] \in Request
    <2>1. ledger \in Seq(Request)
      BY DEF TypeOK
    <2> QED BY <2>1
  <1>2. ledger[i].key \in RunKey
    BY <1>1 DEF Request
  <1> QED BY <1>2 DEF RunKey

LEMMA SendPlanned ==
    ASSUME TypeInv, RunnerInv, NoneCutOff, Send
    PROVE  RunnerInv' /\ NoneCutOff'
  <1>1. PICK request : request = RequestOf(call, attempt)
    OBVIOUS
  <1>2. UNCHANGED <<fixed, runnerVars, callVars, attempts>> /\ pc = "attempt"
    BY DEF Send
  <1>3. /\ request \in Request
        /\ \A i \in DOMAIN ledger : ledger[i].key # request.key
        /\ request.key = [run |-> call.run, attempt |-> attempt]
    BY <1>1, <1>2, SendReserves, AttemptIsFree
  <1>4. Reserved(request) = Append(ledger, request)
    <2>1. ReservationsOf(request.key) = {}
      BY <1>3 DEF ReservationsOf
    <2> QED BY <2>1 DEF Reserved
  <1>5. /\ ledger \in Seq(Request) /\ sent \in Seq(Sent) /\ attempt \in Nat
        /\ [call |-> calls, request |-> request] \in Sent
    BY <1>3 DEF TypeInv, TypeOK, Sent
  <1> DEFINE reserved == Append(ledger, request)
  <1>6. /\ DOMAIN reserved = DOMAIN ledger \cup {Len(ledger) + 1}
        /\ Len(reserved) = Len(ledger) + 1 /\ Len(ledger) \in Nat
        /\ \A i \in DOMAIN ledger : reserved[i] = ledger[i] /\ i \in Nat /\ i <= Len(ledger)
        /\ reserved[Len(ledger) + 1] = request
    BY <1>3, <1>5, AppendElements
  <1> HIDE DEF reserved
  <1>7. AdapterAccepts(reserved, request)
    <2>1. \A j \in 1..(Len(ledger) + 1 - 1) : reserved[j].key # request.key
      BY <1>3, <1>5, <1>6
    <2> QED BY <1>6, <2>1 DEF AdapterAccepts
  <1>8. /\ ledger' = reserved /\ sent' = Append(sent, [call |-> calls, request |-> request])
        /\ pc' = "provider" /\ attempt' = attempt /\ outcome' = outcome
    BY <1>1, <1>4, <1>7, SendReserves DEF reserved
  <1>9. Len(sent') = Len(ledger')
    <2>1. Len(sent') = Len(sent) + 1
      BY <1>5, <1>8, AppendElements
    <2> QED BY <1>6, <1>8, <2>1 DEF RunnerInv
  <1>10. KeysUsed'
    <2>1. call.run \in seen \ admitted /\ admitted \subseteq seen
      BY <1>2 DEF RunnerInv, KeysUsed
    <2>2. \A i \in DOMAIN ledger' : ledger'[i].key.run \in seen \ admitted
      BY <1>3, <1>6, <1>8, <2>1 DEF RunnerInv, KeysUsed
    <2>3. ASSUME NEW i \in DOMAIN ledger', ledger'[i].key.run = call.run
          PROVE  ledger'[i].key.attempt <= attempt
      <3>1. CASE i \in DOMAIN ledger
        <4>1. ledger[i].key.attempt < attempt
          BY <1>2, <1>6, <1>8, <2>3, <3>1 DEF RunnerInv, KeysUsed
        <4>2. ledger[i].key.attempt \in Nat
          BY <3>1, KeysTyped DEF TypeInv
        <4>3. ledger'[i].key.attempt = ledger[i].key.attempt
          BY <1>6, <1>8, <3>1
        <4> QED BY <1>5, <4>1, <4>2, <4>3
      <3>2. CASE i = Len(ledger) + 1
        BY <1>3, <1>5, <1>6, <1>8, <3>2
      <3> QED BY <1>6, <1>8, <3>1, <3>2
    <2> QED BY <1>2, <1>8, <2>1, <2>2, <2>3 DEF KeysUsed, runnerVars, callVars
  <1>11. PlanCovers'
    <2>1. EffectiveAttempts(settings) \in Nat /\ planned_live_calls \in Nat
      BY AttemptsTyped DEF TypeInv, TypeOK
    <2>2. Remaining = EffectiveAttempts(settings) - attempt + 1
          /\ Remaining' = EffectiveAttempts(settings) - attempt /\ LiveCost' = LiveCost
      BY <1>2, <1>8 DEF Remaining, LiveCost, fixed
    <2> DEFINE owed == Cardinality(admitted) * LiveCost
    <2>3. Len(ledger) + Remaining + owed <= planned_live_calls /\ planned_live_calls <= budget
      BY DEF RunnerInv, PlanCovers
    <2>4. owed \in Nat
      BY <2>1, FS_CardinalityType, Times DEF LiveCost, RunnerInv, PlanCovers
    <2>5. Len(ledger') + Remaining' + owed <= planned_live_calls
      <3> HIDE DEF owed
      <3>1. Len(ledger') = Len(ledger) + 1 /\ Len(ledger) \in Nat
        BY <1>6, <1>8
      <3> QED BY <1>5, <2>1, <2>2, <2>3, <2>4, <3>1
    <2> QED BY <1>2, <2>2, <2>3, <2>5 DEF PlanCovers, RunnerInv, runnerVars, callVars
  <1>12. NoneCutOff'
    BY <1>2, <1>8 DEF NoneCutOff
  <1> QED BY <1>2, <1>9, <1>10, <1>11, <1>12 DEF RunnerInv, fixed

LEMMA ReceivePlanned ==
    ASSUME TypeInv, RunnerInv, NoneCutOff, Receive, ~Escape
    PROVE  RunnerInv' /\ NoneCutOff'
  <1>1. UNCHANGED <<fixed, runnerVars, callVars, ledger, sent>> /\ pc = "provider"
    BY DEF Receive, Complete, FailFor, ScheduleRetry, ExhaustRetries, Return, ledgerVars
  <1>2. \/ pc' = "idle" /\ attempt' = attempt /\ outcome' \in {"completed", "failed"}
        \/ /\ pc' = "attempt" /\ attempt' = attempt + 1 /\ attempt < EffectiveAttempts(settings)
           /\ outcome' = outcome
    BY DEF Receive, Complete, FailFor, ScheduleRetry, ExhaustRetries, Return
  <1>3. /\ attempt \in Nat /\ attempt <= EffectiveAttempts(settings)
        /\ EffectiveAttempts(settings) \in Nat
    BY <1>1, AttemptsTyped DEF TypeInv, TypeOK, AttemptBounded
  <1>4. NoneCutOff'
    <2>1. outcome' # "refused"
      BY <1>2 DEF NoneCutOff
    <2>2. ASSUME NEW reason \in ProviderReasons \cup {None}, NEW retryable \in BOOLEAN,
                 NEW answer \in Answers, attempts' = Append(attempts, Failed(reason, retryable, answer))
          PROVE  NoneCutOff'
      <3>1. reason \notin CutOffReasons
        BY NoneAssumption DEF ProviderReasons, RetryableReasons, CutOffReasons, BlockedReasons
      <3>2. Failed(reason, retryable, answer) \in Result
            /\ Failed(reason, retryable, answer).reason = reason
        BY LiveLLMAssumption DEF Failed, Result, TypeInv, TypeOK
      <3> QED BY <2>1, <2>2, <3>1, <3>2, AttemptAppended
    <2>3. CASE Complete
      BY <2>2, <2>3 DEF Complete
    <2>4. ASSUME NEW answer \in Answers, FailFor(answer) \/ ScheduleRetry(answer) \/ ExhaustRetries(answer)
          PROVE  NoneCutOff'
      <3>1. FailureReason(answer) \in ProviderReasons /\ "retry_exhausted" \in ProviderReasons
        BY FailureReasons, LiveLLMAssumption DEF ProviderReasons
      <3> QED BY <2>2, <2>4, <3>1 DEF FailFor, ScheduleRetry, ExhaustRetries
    <2> QED BY <2>3, <2>4 DEF Receive
  <1>5. KeysUsed'
    <2>1. \A i \in DOMAIN ledger : ledger[i].key.attempt \in Nat
      BY KeysTyped DEF TypeInv
    <2>2. \A i \in DOMAIN ledger : ledger[i].key.run = call.run => ledger[i].key.attempt < attempt + 1
      BY <1>1, <1>3, <2>1 DEF RunnerInv, KeysUsed
    <2> QED BY <1>1, <1>2, <2>2 DEF RunnerInv, KeysUsed, runnerVars, callVars
  <1>6. PlanCovers'
    <2>1. Remaining' \in Nat /\ Remaining' <= Remaining /\ Remaining \in Nat
      BY <1>1, <1>2, <1>3 DEF Remaining, fixed
    <2> DEFINE owed == Cardinality(admitted) * LiveCost
    <2>2. owed \in Nat /\ LiveCost' = LiveCost
      BY <1>1, <1>3, FS_CardinalityType, Times DEF LiveCost, RunnerInv, PlanCovers, fixed
    <2>3. Len(ledger) + Remaining + owed <= planned_live_calls /\ planned_live_calls <= budget
      BY DEF RunnerInv, PlanCovers
    <2>4. Len(ledger) \in Nat /\ planned_live_calls \in Nat
      BY DEF TypeInv, TypeOK
    <2>5. Len(ledger) + Remaining' + owed <= planned_live_calls
      <3> HIDE DEF owed
      <3> QED BY <2>1, <2>2, <2>3, <2>4
    <2> QED BY <1>1, <2>2, <2>3, <2>5 DEF PlanCovers, RunnerInv, runnerVars, callVars
  <1> QED BY <1>1, <1>4, <1>5, <1>6 DEF RunnerInv, fixed

LEMMA SentWithinBudget ==
    ASSUME TypeInv, RunnerInv
    PROVE  Len(sent) = Len(ledger) /\ Len(ledger) <= budget
  <1> DEFINE owed == Cardinality(admitted) * LiveCost
  <1>1. /\ Len(sent) = Len(ledger)
        /\ Len(ledger) + Remaining + owed <= planned_live_calls /\ planned_live_calls <= budget
    BY DEF RunnerInv, PlanCovers
  <1>2. Len(ledger) \in Nat /\ planned_live_calls \in Nat /\ budget \in Nat /\ owed \in Nat
    BY AttemptsTyped, SettingsTyped, FS_CardinalityType, Times
       DEF LiveCost, TypeInv, TypeOK, RunnerInv, PlanCovers
  <1>3. Remaining \in Nat
    BY AttemptsTyped DEF Remaining, TypeInv, TypeOK, AttemptBounded
  <1> HIDE DEF owed
  <1> QED BY <1>1, <1>2, <1>3

LEMMA EscapePlanned ==
    ASSUME TypeInv, RunnerInv, NoneCutOff, Escape
    PROVE  RunEnded' /\ NoneCutOff'
  <1>1. outcome' = "escaped" /\ pc' = "idle" /\ UNCHANGED <<budget, sent, attempts>>
    BY DEF Escape, Raise, callVars
  <1> QED BY <1>1, SentWithinBudget DEF RunEnded, NoneCutOff

LEMMA PlanStep == TypeInv /\ PlanInv /\ [Next]_vars => PlanInv'
  <1> SUFFICES ASSUME TypeInv, PlanInv, [Next]_vars, driver' = "runner"
               PROVE  (RunnerInv \/ RunEnded)' /\ NoneCutOff'
    BY NeverCutOffIs DEF PlanInv, NeverCutOff, NoneCutOff, CutOffReasons
  <1>1. driver = "runner" /\ (RunnerInv \/ RunEnded) /\ NoneCutOff
    <2>1. driver' = driver
      BY DEF Next, vars, fixed, Admit, RunnerCalls, CallerCalls, Begin, Block, Send, Receive,
         Complete, Escape, FailFor, ScheduleRetry, ExhaustRetries
    <2> QED BY <2>1, NeverCutOffIs DEF PlanInv
  <1>2. CASE RunEnded /\ Next
    BY <1>1, <1>2 DEF RunEnded, Next, Admit, RunnerCalls, CallerCalls, Block, Send, Receive, Complete,
       Escape, FailFor, ScheduleRetry, ExhaustRetries
  <1>3. ASSUME RunnerInv, NEW run \in Runs, Admit(run) PROVE RunnerInv' /\ NoneCutOff'
    BY <1>1, <1>3, AdmitPlanned
  <1>4. CASE RunnerInv /\ RunnerCalls
    BY <1>1, <1>4, RunnerCallsPlanned
  <1>5. CASE CallerCalls
    BY <1>1, <1>5 DEF CallerCalls
  <1>6. CASE RunnerInv /\ Block
    BY <1>1, <1>6, BlockPlanned
  <1>7. CASE RunnerInv /\ Send
    BY <1>1, <1>7, SendPlanned
  <1>8. CASE RunnerInv /\ Receive
    BY <1>1, <1>8, ReceivePlanned, EscapePlanned
  <1>9. CASE UNCHANGED vars
    BY <1>1, <1>9 DEF vars, fixed, runnerVars, callVars, ledgerVars, RunnerInv, RunEnded, PlanCovers,
       KeysUsed, Remaining, LiveCost, NoneCutOff
  <1> QED BY <1>1, <1>2, <1>3, <1>4, <1>5, <1>6, <1>7, <1>8, <1>9 DEF Next

LEMMA RunInvariant == Spec => [](TypeInv /\ PlanInv)
  BY TypeInvInit, TypeInvStep, PlanInit, PlanStep, PTL DEF Spec

(***************************************************************************)
(* No call sends a request twice under one reservation, whoever makes it.  *)
(* A review run never sends more requests than max_live_calls, whatever    *)
(* the provider answers, however many reviewers are admitted, and also     *)
(* when an exception ends it; and until then it has reserved a call for    *)
(* every request it sent, retries included, and for nothing else           *)
(* (context_budget.py:236-254, llm_policy.py:376-469).                     *)
(***************************************************************************)
THEOREM RunPaysForEveryRequest == Spec => []EveryRequestPaid
  <1>1. TypeInv /\ LedgerFacts /\ PlanInv => EveryRequestPaid
    BY SentWithinBudget DEF PlanInv, RunEnded, LedgerFacts, SentOnce, EveryRequestPaid
  <1> QED BY RunInvariant, LedgerInvariant, <1>1, PTL

(***************************************************************************)
(* No reviewer that a review run admits is stopped by the budget or by a   *)
(* reservation before its last attempt (context_budget.py:236-254,         *)
(* runner.py:517-541, llm_policy.py:376-455).                              *)
(***************************************************************************)
THEOREM AdmittedIsNeverCutOff == Spec => []NeverCutOff
  <1>1. PlanInv => NeverCutOff
    BY DEF PlanInv, NeverCutOff
  <1> QED BY RunInvariant, <1>1, PTL

-----------------------------------------------------------------------------
(***************************************************************************)
(* Retries                                                                 *)
(***************************************************************************)
TransientAt(i) == attempts[i].answer # None /\ Transient(attempts[i].answer)

\* While a call is in progress its results are those of the earlier attempts,
\* and each of them asked for another one.
RetryInv ==
    /\ pc # "idle" => Len(attempts) = attempt - 1
    /\ Len(attempts) <= EffectiveAttempts(settings)
    /\ \A i \in DOMAIN attempts :
        /\ pc # "idle" \/ i < Len(attempts) => TransientAt(i)
        /\ attempts[i].reason = "retry_exhausted" => i = EffectiveAttempts(settings) /\ TransientAt(i)
        /\ pc = "idle" /\ i = Len(attempts) /\ outcome # "escaped" => ~attempts[i].retryable

LEMMA RetryInit == Init => RetryInv
  <1> SUFFICES ASSUME Init PROVE RetryInv
    OBVIOUS
  <1>1. EffectiveAttempts(settings) \in Nat
    BY TypeInvInit, AttemptsTyped DEF TypeInv
  <1> QED BY <1>1 DEF Init, RetryInv

LEMMA RetryBegun ==
    ASSUME TypeInv, TypeInv', UNCHANGED settings,
           attempts' = <<>>, pc' = "idle" \/ (pc' = "attempt" /\ attempt' = 1)
    PROVE  RetryInv'
  <1>1. EffectiveAttempts(settings') \in Nat
    BY AttemptsTyped DEF TypeInv
  <1> QED BY <1>1 DEF RetryInv

\* A result that ends the call.
LEMMA RetryEnded ==
    ASSUME TypeInv, RetryInv, pc # "idle", UNCHANGED settings, pc' = "idle",
           NEW result \in Result, attempts' = Append(attempts, result), ~result.retryable,
           result.reason = "retry_exhausted" =>
               /\ attempt = EffectiveAttempts(settings)
               /\ result.answer # None /\ Transient(result.answer)
    PROVE  RetryInv'
  <1>1. attempts \in Seq(Result) /\ Len(attempts) \in Nat /\ attempt \in Nat
        /\ EffectiveAttempts(settings) \in Nat
    BY AttemptsTyped DEF TypeInv, TypeOK
  <1>2. /\ DOMAIN attempts' = DOMAIN attempts \cup {Len(attempts) + 1}
        /\ \A i \in DOMAIN attempts : attempts'[i] = attempts[i]
        /\ attempts'[Len(attempts) + 1] = result
        /\ Len(attempts') = Len(attempts) + 1
    BY <1>1, AppendElements
  <1>3. attempt = Len(attempts) + 1 /\ attempt <= EffectiveAttempts(settings)
    BY <1>1 DEF RetryInv, TypeInv, AttemptBounded
  <1>4. \A i \in DOMAIN attempts : i \in 1..Len(attempts)
    BY <1>1
  <1>5. ASSUME NEW i \in DOMAIN attempts
        PROVE  /\ TransientAt(i)' /\ i # Len(attempts')
               /\ attempts'[i].reason = "retry_exhausted" => i = EffectiveAttempts(settings)
    BY <1>1, <1>2, <1>4 DEF RetryInv, TransientAt
  <1>6. /\ attempt = Len(attempts') /\ attempts'[attempt] = result
        /\ DOMAIN attempts' = DOMAIN attempts \cup {attempt}
        /\ Len(attempts') <= EffectiveAttempts(settings)
    BY <1>1, <1>2, <1>3
  <1>7. /\ ~(attempt < Len(attempts')) /\ ~attempts'[attempt].retryable
        /\ attempts'[attempt].reason = "retry_exhausted" =>
               /\ attempt = EffectiveAttempts(settings)
               /\ attempts'[attempt].answer # None /\ Transient(attempts'[attempt].answer)
    BY <1>1, <1>6
  <1> QED BY <1>5, <1>6, <1>7 DEF RetryInv, TransientAt

\* A result after which there is another attempt.
LEMMA RetryContinued ==
    ASSUME TypeInv, RetryInv, pc # "idle", UNCHANGED settings,
           pc' = "attempt", attempt' = attempt + 1, attempt < EffectiveAttempts(settings),
           NEW result \in Result, attempts' = Append(attempts, result),
           result.reason # "retry_exhausted", result.answer # None, Transient(result.answer)
    PROVE  RetryInv'
  <1>1. attempts \in Seq(Result) /\ Len(attempts) \in Nat /\ attempt \in Nat
        /\ EffectiveAttempts(settings) \in Nat
    BY AttemptsTyped DEF TypeInv, TypeOK
  <1>2. /\ DOMAIN attempts' = DOMAIN attempts \cup {Len(attempts) + 1}
        /\ \A i \in DOMAIN attempts : attempts'[i] = attempts[i]
        /\ attempts'[Len(attempts) + 1] = result
        /\ Len(attempts') = Len(attempts) + 1
    BY <1>1, AppendElements
  <1>3. Len(attempts') = attempt' - 1 /\ Len(attempts') <= EffectiveAttempts(settings)
    BY <1>1, <1>2 DEF RetryInv
  <1>4. \A i \in DOMAIN attempts' :
            /\ TransientAt(i)'
            /\ attempts'[i].reason = "retry_exhausted" => i = EffectiveAttempts(settings)
    BY <1>2 DEF RetryInv, TransientAt
  <1> QED BY <1>3, <1>4 DEF RetryInv

LEMMA RetryableIsTransient ==
    ASSUME NEW answer \in Answers, Retryable(FailureReason(answer))
    PROVE  answer # None /\ Transient(answer)
  <1>1. answer \in Answer /\ answer # None
    BY LiveLLMAssumption, NoneAssumption
  <1> QED BY <1>1 DEF Answer, Contents, Failures, Retryable, RetryableReasons, FailureReason,
             StatusReason, Transient

LEMMA RetryReceive ==
    ASSUME TypeInv, RetryInv, Receive
    PROVE  RetryInv'
  <1>1. /\ UNCHANGED settings /\ pc # "idle"
        /\ attempt \in Nat /\ attempt <= EffectiveAttempts(settings) /\ EffectiveAttempts(settings) \in Nat
    BY AttemptsTyped DEF Receive, Complete, Escape, FailFor, ScheduleRetry, ExhaustRetries, fixed,
       TypeInv, TypeOK, AttemptBounded
  <1>2. CASE Complete
    <2> PICK answer \in Answers : attempts' = Append(attempts, Failed(None, FALSE, answer))
      BY <1>2 DEF Complete
    <2> DEFINE result == Failed(None, FALSE, answer)
    <2>1. answer \in Answer /\ "retry_exhausted" \in ProviderReasons
      BY LiveLLMAssumption DEF ProviderReasons
    <2>2. result \in Result /\ ~result.retryable /\ result.reason # "retry_exhausted"
      BY <1>1, <2>1, NoneAssumption DEF Failed, Result
    <2>3. pc' = "idle" /\ attempts' = Append(attempts, result)
      BY <1>2 DEF Complete, Return
    <2> HIDE DEF result
    <2> QED BY <1>1, <2>2, <2>3, RetryEnded
  <1>3. CASE Escape
    BY <1>1, <1>3 DEF Escape, Raise, RetryInv, TransientAt
  <1>4. ASSUME NEW answer \in Answers, FailFor(answer)
        PROVE  RetryInv'
    <2>1. FailureReason(answer) \in ProviderReasons /\ answer \in Answer
      BY FailureReasons, LiveLLMAssumption
    <2>2. FailureReason(answer) # "retry_exhausted"
      BY DEF FailureReason, StatusReason
    <2> DEFINE result == Failed(FailureReason(answer), FALSE, answer)
    <2>3. result \in Result /\ ~result.retryable /\ result.reason # "retry_exhausted"
      BY <1>1, <2>1, <2>2 DEF Failed, Result
    <2>4. pc' = "idle" /\ attempts' = Append(attempts, result)
      BY <1>4 DEF FailFor, Return
    <2> HIDE DEF result
    <2> QED BY <1>1, <2>3, <2>4, RetryEnded
  <1>5. ASSUME NEW answer \in Answers, ScheduleRetry(answer)
        PROVE  RetryInv'
    <2>1. FailureReason(answer) \in ProviderReasons /\ answer \in Answer
      BY FailureReasons, LiveLLMAssumption
    <2>2. FailureReason(answer) # "retry_exhausted"
      BY DEF FailureReason, StatusReason
    <2>3. attempt < EffectiveAttempts(settings)
      BY <1>1, <1>5 DEF ScheduleRetry, IsLastAttempt
    <2>4. answer # None /\ Transient(answer)
      BY <1>5, RetryableIsTransient DEF ScheduleRetry
    <2> DEFINE result == Failed(FailureReason(answer), TRUE, answer)
    <2>5. result \in Result /\ result.answer = answer /\ result.reason # "retry_exhausted"
      BY <1>1, <2>1, <2>2 DEF Failed, Result
    <2>6. pc' = "attempt" /\ attempt' = attempt + 1 /\ attempts' = Append(attempts, result)
      BY <1>5, <2>3 DEF ScheduleRetry
    <2> HIDE DEF result
    <2> QED BY <1>1, <2>3, <2>4, <2>5, <2>6, RetryContinued
  <1>6. ASSUME NEW answer \in Answers, ExhaustRetries(answer)
        PROVE  RetryInv'
    <2>1. answer \in Answer /\ "retry_exhausted" \in ProviderReasons
      BY LiveLLMAssumption DEF ProviderReasons
    <2>2. answer # None /\ Transient(answer)
      BY <1>6, RetryableIsTransient DEF ExhaustRetries
    <2>3. attempt = EffectiveAttempts(settings)
      BY <1>6 DEF ExhaustRetries, IsLastAttempt
    <2> DEFINE result == Failed("retry_exhausted", FALSE, answer)
    <2>4. result \in Result /\ ~result.retryable /\ result.answer = answer
      BY <1>1, <2>1 DEF Failed, Result
    <2>5. pc' = "idle" /\ attempts' = Append(attempts, result)
      BY <1>6 DEF ExhaustRetries, Return
    <2> HIDE DEF result
    <2> QED BY <1>1, <2>2, <2>3, <2>4, <2>5, RetryEnded
  <1> QED BY <1>2, <1>3, <1>4, <1>5, <1>6 DEF Receive

LEMMA RetryStep == TypeInv /\ RetryInv /\ [Next]_vars => RetryInv'
  <1> SUFFICES ASSUME TypeInv, RetryInv, [Next]_vars PROVE RetryInv'
    OBVIOUS
  <1>1. TypeInv'
    BY TypeInvStep
  <1>2. ASSUME NEW run \in Runs, Admit(run)
        PROVE  RetryInv'
    BY <1>2 DEF Admit, RetryInv, TransientAt, fixed
  <1>3. ASSUME NEW run, NEW package, NEW input, NEW limit, Begin(run, package, input, limit)
        PROVE  RetryInv'
    <2>1. UNCHANGED settings /\ attempts' = <<>>
      BY <1>3 DEF Begin, fixed
    <2>2. pc' = "idle" \/ (pc' = "attempt" /\ attempt' = 1)
      BY <1>3 DEF Begin
    <2> QED BY <1>1, <2>1, <2>2, RetryBegun
  <1>4. CASE RunnerCalls
    BY <1>3, <1>4 DEF RunnerCalls
  <1>5. CASE CallerCalls
    BY <1>3, <1>5 DEF CallerCalls
  <1>6. CASE Block
    <2> DEFINE result == Failed(PolicyReason(call, attempt), FALSE, None)
    <2>1. PolicyReason(call, attempt) \in BlockedReasons
      BY <1>6, ReasonsTyped DEF Block, TypeInv, TypeOK
    <2>2. result \in Result /\ ~result.retryable /\ result.reason # "retry_exhausted"
      BY <2>1 DEF Failed, Result, TypeInv, TypeOK, BlockedReasons
    <2> QED BY <1>6, <2>2, RetryEnded DEF Block, Return, fixed
  <1>7. CASE Send
    BY <1>7 DEF Send, Raise, RetryInv, TransientAt, fixed
  <1>8. CASE Receive
    BY <1>8, RetryReceive
  <1>9. CASE UNCHANGED vars
    BY <1>9 DEF vars, fixed, RetryInv, TransientAt
  <1> QED BY <1>2, <1>4, <1>5, <1>6, <1>7, <1>8, <1>9 DEF Next

LEMMA AttemptsFit ==
    ASSUME TypeOK, NEW n \in Nat, n <= EffectiveAttempts(settings)
    PROVE  n * settings.timeout_seconds <= settings.total_timeout_seconds
  <1> DEFINE t == settings.timeout_seconds
             total == settings.total_timeout_seconds
  <1>1. t \in Nat \ {0} /\ total \in Nat
    BY SettingsTyped
  <1>2. Fits(settings) \in Nat /\ Fits(settings) * t <= total
    BY <1>1 DEF Fits
  <1>3. n <= Fits(settings)
    BY <1>1, <1>2, SettingsTyped DEF EffectiveAttempts
  <1>4. \A a, b \in Nat : a <= b => a * t <= b * t
    BY <1>1
  <1>5. n * t \in Nat /\ Fits(settings) * t \in Nat
    BY <1>1, <1>2
  <1> HIDE DEF t, total
  <1>6. n * t <= total
    BY <1>1, <1>2, <1>3, <1>4, <1>5
  <1> QED BY <1>6 DEF t, total

(***************************************************************************)
(* A call makes another attempt only after a timeout, a rate limit or an   *)
(* unavailable provider, never more than its total timeout has room for,   *)
(* and reports that it ran out of attempts exactly then (llm.py:212-276),  *)
(* for any settings and any answers.                                       *)
(***************************************************************************)
THEOREM RetriesAlwaysAccounted == Spec => []RetriesAccounted
  <1>1. TypeInv /\ RetryInv => RetriesAccounted
    <2> SUFFICES ASSUME TypeInv, RetryInv PROVE RetriesAccounted
      OBVIOUS
    <2>1. Len(attempts) \in Nat /\ Len(attempts) <= EffectiveAttempts(settings)
      BY DEF TypeInv, TypeOK, RetryInv
    <2>2. Len(attempts) * settings.timeout_seconds <= settings.total_timeout_seconds
      BY <2>1, AttemptsFit DEF TypeInv
    <2> QED BY <2>2 DEF RetriesAccounted, RetryInv, TransientAt
  <1> QED BY TypeInvInit, TypeInvStep, RetryInit, RetryStep, <1>1, PTL DEF Spec
=============================================================================
