---------------------------- MODULE ChainErrors ----------------------------
(***************************************************************************)
(* The pure part of packages/chain/chain-errors/src/index.ts: the error    *)
(* taxonomy and the backoff curve.  A thrown value is abstracted to what   *)
(* the classifier tells apart: its class, and whether its text matches one *)
(* of TRANSIENT_PATTERNS.                                                  *)
(***************************************************************************)
EXTENDS Naturals, Powers

\* "retryable" and "permanent" are the two error classes; a "transient" value
\* (an Error or not) has a text that matches a pattern, an "unknown" has not.
Thrown == {"retryable", "permanent", "transient", "unknown"}

\* The result: one of the two classes, or a plain Error.
Classified == {"retryable", "permanent", "unknown"}

\* classifyChainError: what the classes and TRANSIENT_PATTERNS tell apart.
classifyChainError(err) == IF err = "transient" THEN "retryable" ELSE err

RetryPolicy(maxRetries, baseDelayMs) ==
  [maxRetries |-> maxRetries, baseDelayMs |-> baseDelayMs]

backoffDelayMs(policy, attempt) == policy.baseDelayMs * Pow(2, attempt)

\* Fault: the index of the last sleep is off by one.
maxBackoffOffByOne(policy) ==
  IF policy.maxRetries >= 3 THEN backoffDelayMs(policy, policy.maxRetries - 3) ELSE 0

maxBackoffDelayMs(policy) ==
  IF policy.maxRetries >= 2 THEN backoffDelayMs(policy, policy.maxRetries - 2) ELSE 0
=============================================================================
