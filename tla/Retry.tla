------------------------------- MODULE Retry -------------------------------
(***************************************************************************)
(* withRetry over withTimeout, packages/chain/chain-errors/src/index.ts,   *)
(* as ChainBase.read and submitSigned combine them: an attempt starts an   *)
(* operation on the chain, races it with a timer, classifies a failure and *)
(* either gives up or sleeps.  A timeout abandons the operation, it does   *)
(* not cancel it: it may settle during a later attempt.                    *)
(*                                                                         *)
(* Time is a discrete clock; a due timer fires at most Jitter units late.  *)
(***************************************************************************)
EXTENDS ChainErrors, FiniteSets

CONSTANTS
  Policies,    \* the retry policies to choose from
  OpTimeout,   \* the ms of withTimeout
  Jitter,      \* how late a timer may fire
  MaxNow       \* bound of the clock

ASSUME RetryAssumption ==
  /\ \A policy \in Policies : policy.maxRetries \in Nat /\ policy.baseDelayMs \in Nat
  /\ OpTimeout \in Nat /\ Jitter \in Nat /\ MaxNow \in Nat

\* One of the policies allows the most attempts.
ASSUME PolicyAssumption ==
  \E longest \in Policies : \A policy \in Policies : policy.maxRetries <= longest.maxRetries

VARIABLES
  now,       \* the clock
  policy,    \* the policy of the call
  phase,     \* "idle", "attempting", "sleeping", "resolved" or "rejected"
  attempt,   \* the loop variable
  op,        \* operation of attempt k: "none", "running", "ok" or what it threw
  timerAt,   \* when the pending timer (timeout or sleep) is due
  seen       \* history: how attempt k ended for withRetry

retryVars == <<policy, phase, attempt, op, timerAt, seen>>

MaxAttempts == 1 + CHOOSE n \in {p.maxRetries : p \in Policies} :
                     \A p \in Policies : p.maxRetries <= n
Attempt == 0 .. MaxAttempts - 1

RetryInit ==
  /\ now = 1
  /\ policy \in Policies
  /\ phase = "idle"
  /\ attempt = 0
  /\ op = [k \in Attempt |-> "none"]
  /\ seen = [k \in Attempt |-> "none"]
  /\ timerAt = 0

-----------------------------------------------------------------------------
\* One turn of the loop begins: onAttempt, then op() under its timer.
StartAttempt(k) ==
  /\ phase' = "attempting"
  /\ attempt' = k
  /\ op' = [op EXCEPT ![k] = "running"]
  /\ timerAt' = now + OpTimeout

\* withRetry is called.  With no attempt allowed op is never called and the
\* call rejects with a plain Error.
Call ==
  /\ phase = "idle"
  /\ \/ /\ policy.maxRetries > 0
        /\ StartAttempt(0)
        /\ UNCHANGED <<policy, seen>>
     \/ /\ policy.maxRetries = 0
        /\ phase' = "rejected"
        /\ UNCHANGED <<policy, attempt, op, timerAt, seen>>

\* Fault: every failure is retried.
RetriesAny(error) == attempt # policy.maxRetries - 1

\* The catch block goes on to sleep; otherwise it throws or leaves the loop.
Retries(error) == error = "retryable" /\ attempt # policy.maxRetries - 1

\* The attempt is over, with "ok" or a classified error.
AttemptEnds(outcome) ==
  /\ seen' = [seen EXCEPT ![attempt] = outcome]
  /\ IF outcome = "ok" THEN phase' = "resolved" /\ UNCHANGED timerAt
     ELSE IF Retries(outcome)
     THEN phase' = "sleeping" /\ timerAt' = now + backoffDelayMs(policy, attempt)
     ELSE phase' = "rejected" /\ UNCHANGED timerAt
  /\ UNCHANGED <<policy, attempt>>

\* Fault: a late result is delivered to the attempt under way.
DeliveredLate(k) == phase = "attempting"

\* withTimeout's promise still listens to the operation of attempt k.
Delivered(k) == phase = "attempting" /\ k = attempt

\* The operation of attempt k settles; late ones change nothing else.
OpSettles(k, outcome) ==
  /\ op[k] = "running"
  /\ op' = [op EXCEPT ![k] = outcome]
  /\ IF Delivered(k)
     THEN AttemptEnds(IF outcome = "ok" THEN "ok" ELSE classifyChainError(outcome))
     ELSE UNCHANGED <<policy, phase, attempt, timerAt, seen>>

\* withTimeout's timer rejects with a RetryableError; the operation goes on.
TimeoutFires ==
  /\ phase = "attempting" /\ now >= timerAt
  /\ AttemptEnds("retryable")
  /\ UNCHANGED op

NextAttempt == attempt + 1

\* The backoff sleep is over.
Wakes ==
  /\ phase = "sleeping" /\ now >= timerAt
  /\ StartAttempt(NextAttempt)
  /\ UNCHANGED <<policy, seen>>

Over == phase \in {"resolved", "rejected"}

-----------------------------------------------------------------------------
\* A permanent or unknown failure is surfaced at once: every attempt before
\* the last ended with a retryable error, and the policy bounds them.
OnlyRetryableIsRetried ==
  /\ \A k \in Attempt : k < attempt => seen[k] = "retryable"
  /\ Cardinality({k \in Attempt : op[k] # "none"}) <= policy.maxRetries

\* The call resolves with the result of its last attempt, whatever abandoned
\* operations do later, and gives up on a retryable error only when the
\* policy is exhausted.
OutcomeIsLastAttempts ==
  /\ phase = "resolved" => op[attempt] = "ok" /\ seen[attempt] = "ok"
  /\ phase = "rejected" =>
       \/ policy.maxRetries = 0
       \/ seen[attempt] \in {"permanent", "unknown"}
       \/ seen[attempt] = "retryable" /\ attempt = policy.maxRetries - 1

RetryTypeOK ==
  /\ now \in Nat \ {0} /\ policy \in Policies /\ attempt \in Attempt /\ timerAt \in Nat
  /\ phase \in {"idle", "attempting", "sleeping", "resolved", "rejected"}
  /\ op \in [Attempt -> {"none", "running", "ok"} \cup Thrown]
  /\ seen \in [Attempt -> {"none", "ok"} \cup Classified]

\* What the steps preserve: no attempt beyond the policy, and a sleep only with
\* an attempt left.
RetryInv ==
  /\ RetryTypeOK
  /\ attempt = 0 \/ attempt < policy.maxRetries
  /\ phase = "idle" => attempt = 0
  /\ phase \in {"attempting", "sleeping", "resolved"} => policy.maxRetries > 0
  /\ phase = "sleeping" => seen[attempt] = "retryable" /\ attempt + 1 < policy.maxRetries
  /\ \A k \in Attempt : k < attempt => seen[k] = "retryable"
  /\ \A k \in Attempt : op[k] # "none" => k < policy.maxRetries
  /\ OutcomeIsLastAttempts
=============================================================================
