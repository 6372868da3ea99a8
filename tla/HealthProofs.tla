---------------------------- MODULE HealthProofs ----------------------------
(***************************************************************************)
(* Theorems about the health of a service: withRetry over withTimeout and  *)
(* the worker whose health the probes report, for every set of policies,   *)
(* timeout, jitter, interval and window, and however far the machine's     *)
(* clock is set; and createCachedProbe, for every number of callers and    *)
(* every ttl.                                                              *)
(***************************************************************************)
EXTENDS WorkerHealth, CachedProbe, PowerProofs, FiniteSetTheorems

-----------------------------------------------------------------------------
\* withRetry and the worker.

\* Every attempt a policy allows has a number in Attempt, and so has the first.
LEMMA AttemptRange ==
  /\ MaxAttempts \in Nat
  /\ 0 \in Attempt
  /\ \A p \in Policies : p.maxRetries \in Nat /\ p.baseDelayMs \in Nat /\ p.maxRetries < MaxAttempts
  /\ Attempt = 0 .. MaxAttempts - 1
<1> DEFINE Longest(n) == \A p \in Policies : p.maxRetries <= n
           Allowed == {p.maxRetries : p \in Policies}
<1>1. \E n \in Allowed : Longest(n)
  BY PolicyAssumption
<1>2. PICK m \in Allowed : Longest(m) /\ MaxAttempts = 1 + m
  BY <1>1 DEF MaxAttempts
<1>3. m \in Nat
  BY RetryAssumption
<1> QED BY <1>2, <1>3, RetryAssumption DEF Attempt

\* maxBackoffDelayMs bounds every sleep of a policy.
LEMMA BackoffBound ==
  ASSUME NEW p \in Policies
  PROVE  /\ maxBackoffDelayMs(p) \in Nat
         /\ \A k \in Nat : k + 1 < p.maxRetries =>
              backoffDelayMs(p, k) \in Nat /\ backoffDelayMs(p, k) <= maxBackoffDelayMs(p)
<1> DEFINE D(k) == backoffDelayMs(p, k)
<1>1. p.maxRetries \in Nat /\ p.baseDelayMs \in Nat
  BY RetryAssumption
<1>2. \A k \in Nat : D(k) = p.baseDelayMs * Pow(2, k) /\ Pow(2, k) \in Nat
  BY PowPositive DEF backoffDelayMs
<1>3. \A x, y, z \in Nat : x * y \in Nat /\ (y <= z => x * y <= x * z)
  OBVIOUS
<1>4. \A k \in Nat : D(k) \in Nat
  BY <1>1, <1>2, <1>3
<1>5. ASSUME NEW j \in Nat, NEW k \in Nat, j <= k PROVE D(j) <= D(k)
  <2>1. Pow(2, j) <= Pow(2, k)
    BY <1>5, PowGrows
  <2> QED BY <1>1, <1>2, <1>3, <2>1
<1> HIDE DEF D
<1>6. CASE p.maxRetries >= 2
  <2>1. p.maxRetries - 2 \in Nat /\ \A k \in Nat : k + 1 < p.maxRetries => k <= p.maxRetries - 2
    BY <1>1, <1>6
  <2>2. maxBackoffDelayMs(p) = D(p.maxRetries - 2)
    BY <1>6 DEF maxBackoffDelayMs, D
  <2>3. \A k \in Nat : k + 1 < p.maxRetries => D(k) \in Nat /\ D(k) <= D(p.maxRetries - 2)
    BY <1>4, <1>5, <2>1
  <2> QED BY <1>4, <2>1, <2>2, <2>3 DEF D
<1>7. CASE ~(p.maxRetries >= 2)
  BY <1>1, <1>7 DEF maxBackoffDelayMs
<1> QED BY <1>6, <1>7

\* Before the first call.
LEMMA InitRetry == RetryInit => RetryInv
BY AttemptRange DEF RetryInit, RetryInv, RetryTypeOK, OutcomeIsLastAttempts

\* An attempt may start when the policy has one left.
LEMMA StartKeeps ==
  ASSUME RetryInv, NEW k \in Nat, StartAttempt(k), k < policy.maxRetries,
         \A j \in Attempt : j < k => seen[j] = "retryable",
         UNCHANGED <<now, policy, seen>>
  PROVE  RetryInv'
<1>1. k \in Attempt
  BY AttemptRange DEF RetryInv, RetryTypeOK
<1> QED BY <1>1, RetryAssumption DEF StartAttempt, RetryInv, RetryTypeOK, OutcomeIsLastAttempts

\* How the attempt under way ends.
LEMMA EndKeeps ==
  ASSUME RetryInv, phase = "attempting", NEW outcome \in {"ok"} \cup Classified,
         AttemptEnds(outcome), UNCHANGED now,
         op' \in [Attempt -> {"none", "running", "ok"} \cup Thrown],
         \A j \in Attempt : op'[j] # "none" => op[j] # "none",
         outcome = "ok" => op'[attempt] = "ok"
  PROVE  RetryInv'
<1>1. /\ attempt \in Attempt /\ attempt \in Nat /\ policy \in Policies
      /\ policy.maxRetries \in Nat /\ policy.maxRetries > 0
      /\ attempt < policy.maxRetries /\ attempt' = attempt /\ policy' = policy
  BY AttemptRange DEF RetryInv, RetryTypeOK, AttemptEnds
<1>2. /\ seen' = [seen EXCEPT ![attempt] = outcome]
      /\ seen' \in [Attempt -> {"none", "ok"} \cup Classified]
  BY <1>1 DEF AttemptEnds, RetryInv, RetryTypeOK
<1>3. CASE outcome = "ok"
  BY <1>1, <1>2, <1>3 DEF AttemptEnds, RetryInv, RetryTypeOK, OutcomeIsLastAttempts
<1>4. CASE outcome # "ok" /\ Retries(outcome)
  <2>1. attempt + 1 < policy.maxRetries /\ outcome = "retryable"
    BY <1>1, <1>4 DEF Retries
  <2>2. backoffDelayMs(policy, attempt) \in Nat
    BY <1>1, <2>1, BackoffBound
  <2>3. phase' = "sleeping" /\ timerAt' = now + backoffDelayMs(policy, attempt)
    BY <1>4 DEF AttemptEnds
  <2> QED BY <1>1, <1>2, <2>1, <2>2, <2>3 DEF RetryInv, RetryTypeOK, OutcomeIsLastAttempts
<1>5. CASE outcome # "ok" /\ ~Retries(outcome)
  <2>1. phase' = "rejected" /\ UNCHANGED timerAt
    BY <1>5 DEF AttemptEnds
  <2>2. outcome \in {"permanent", "unknown"} \/ (outcome = "retryable" /\ attempt = policy.maxRetries - 1)
    BY <1>5 DEF Retries, Classified
  <2> QED BY <1>1, <1>2, <2>1, <2>2 DEF RetryInv, RetryTypeOK, OutcomeIsLastAttempts
<1> QED BY <1>3, <1>4, <1>5

\* Every step of the worker keeps what withRetry relies on.
LEMMA NextRetry == RetryInv /\ [WorkerNext]_workerVars => RetryInv'
<1> SUFFICES ASSUME RetryInv, [WorkerNext]_workerVars PROVE RetryInv'
  OBVIOUS
<1>1. policy \in Policies /\ policy.maxRetries \in Nat /\ attempt \in Nat /\ attempt \in Attempt
  BY AttemptRange DEF RetryInv, RetryTypeOK
<1>2. ASSUME UNCHANGED retryVars, now' \in Nat \ {0} PROVE RetryInv'
  BY <1>2 DEF retryVars, RetryInv, RetryTypeOK, OutcomeIsLastAttempts
<1>3. CASE UnitStarts
  <2>1. phase = "idle" /\ attempt = 0 /\ UNCHANGED <<now, policy, seen>>
    BY <1>3 DEF UnitStarts, Call, RetryInv
  <2>2. CASE policy.maxRetries > 0 /\ StartAttempt(0)
    <3>1. 0 \in Nat /\ 0 < policy.maxRetries /\ \A j \in Attempt : ~(j < 0)
      BY <1>1, <2>2, AttemptRange
    <3> QED BY <2>1, <2>2, <3>1, StartKeeps
  <2>3. CASE policy.maxRetries = 0 /\ phase' = "rejected" /\ UNCHANGED <<attempt, op, timerAt>>
    BY <1>1, <2>1, <2>3 DEF RetryInv, RetryTypeOK, OutcomeIsLastAttempts
  <2> QED BY <1>3, <2>2, <2>3 DEF UnitStarts, Call
<1>4. CASE AttemptStarts
  <2>1. /\ phase = "sleeping" /\ attempt + 1 < policy.maxRetries /\ StartAttempt(attempt + 1)
        /\ UNCHANGED <<now, policy, seen>>
    BY <1>4 DEF AttemptStarts, Wakes, NextAttempt, RetryInv
  <2>2. \A j \in Attempt : j < attempt + 1 => seen[j] = "retryable"
    BY <1>1, <2>1, AttemptRange DEF RetryInv
  <2> QED BY <1>1, <2>1, <2>2, StartKeeps
<1>5. CASE AttemptOver
  <2>1. UNCHANGED now
    BY <1>5 DEF AttemptOver
  <2>2. CASE TimeoutFires
    BY <2>1, <2>2, EndKeeps DEF TimeoutFires, RetryInv, RetryTypeOK, Classified
  <2>3. ASSUME NEW k \in Attempt, NEW outcome \in {"ok"} \cup Thrown, OpSettles(k, outcome)
        PROVE  RetryInv'
    <3>1. /\ op[k] = "running" /\ op' = [op EXCEPT ![k] = outcome]
          /\ op' \in [Attempt -> {"none", "running", "ok"} \cup Thrown]
          /\ \A j \in Attempt : op'[j] # "none" => op[j] # "none"
      BY <2>3 DEF OpSettles, RetryInv, RetryTypeOK
    <3>2. CASE Delivered(k)
      <4> DEFINE result == IF outcome = "ok" THEN "ok" ELSE classifyChainError(outcome)
      <4>1. result \in {"ok"} \cup Classified /\ (result = "ok" => outcome = "ok")
        BY DEF classifyChainError, Thrown, Classified
      <4>2. AttemptEnds(result)
        BY <2>3, <3>2 DEF OpSettles
      <4>3. phase = "attempting" /\ (outcome = "ok" => op'[attempt] = "ok")
        BY <3>1, <3>2 DEF Delivered, RetryInv, RetryTypeOK
      <4> QED BY <2>1, <3>1, <4>1, <4>2, <4>3, EndKeeps
    <3>3. CASE ~Delivered(k)
      <4>1. UNCHANGED <<policy, phase, attempt, timerAt, seen>>
        BY <2>3, <3>3 DEF OpSettles
      <4> QED BY <2>1, <3>1, <4>1 DEF RetryInv, RetryTypeOK, OutcomeIsLastAttempts
    <3> QED BY <3>2, <3>3
  <2> QED BY <1>5, <2>2, <2>3 DEF AttemptOver
<1>6. CASE UnitOver
  BY <1>6, AttemptRange DEF UnitOver, RetryInv, RetryTypeOK, OutcomeIsLastAttempts
<1>7. CASE Wedges \/ ClockIsSet \/ TimePasses \/ UNCHANGED workerVars
  BY <1>2, <1>7 DEF Wedges, ClockIsSet, TimePasses, workerVars, RetryInv, RetryTypeOK
<1> QED BY <1>3, <1>4, <1>5, <1>6, <1>7 DEF WorkerNext, TimeUp

\* The invariant of withRetry holds throughout.
LEMMA RetryInvariant == WorkerSpec => []RetryInv
<1>1. WorkerInit => RetryInv
  BY InitRetry DEF WorkerInit
<1> QED BY <1>1, NextRetry, PTL DEF WorkerSpec

\* withRetry retries nothing but a retryable error, and starts no more attempts
\* than the policy allows.
THEOREM RetriesOnlyRetryable == WorkerSpec => []OnlyRetryableIsRetried
<1>1. RetryInv => OnlyRetryableIsRetried
  <2> SUFFICES ASSUME RetryInv
               PROVE  Cardinality({k \in Attempt : op[k] # "none"}) <= policy.maxRetries
    BY DEF RetryInv, OnlyRetryableIsRetried
  <2> DEFINE Started == {k \in Attempt : op[k] # "none"}
             Allowed == 0 .. policy.maxRetries - 1
  <2>1. policy.maxRetries \in Nat
    BY AttemptRange DEF RetryInv, RetryTypeOK
  <2>2. Started \subseteq Allowed
    BY <2>1, AttemptRange DEF RetryInv
  <2>3. IsFiniteSet(Allowed) /\ Cardinality(Allowed) = policy.maxRetries
    <3>1. 0 \in Int /\ policy.maxRetries - 1 \in Int
      BY <2>1
    <3>2. /\ IsFiniteSet(Allowed)
          /\ Cardinality(Allowed) = IF 0 > policy.maxRetries - 1 THEN 0
                                    ELSE (policy.maxRetries - 1) - 0 + 1
      BY <3>1, FS_Interval
    <3> QED BY <2>1, <3>2
  <2> QED BY <2>2, <2>3, FS_Subset
<1> QED BY <1>1, RetryInvariant, PTL

\* withRetry settles as its last attempt did, whatever abandoned operations do,
\* and gives up on a retryable error only with the policy exhausted.
THEOREM SettlesAsLastAttempt == WorkerSpec => []OutcomeIsLastAttempts
<1>1. RetryInv => OutcomeIsLastAttempts
  BY DEF RetryInv
<1> QED BY <1>1, RetryInvariant, PTL

-----------------------------------------------------------------------------
\* The marks of progress.

\* The types of what the clocks and timers hold.
LEMMA WorkerTypes ==
  ASSUME RetryInv, WorkerTypeOK
  PROVE  /\ now \in Nat \ {0} /\ skew \in Nat /\ MaxSkew \in Nat /\ skew <= 2 * MaxSkew
         /\ timerAt \in Nat /\ restAt \in Nat /\ wedgedAt \in Nat /\ lastProgressAt \in Nat
         /\ lastOkAt \in Nat
         /\ OpTimeout \in Nat /\ Jitter \in Nat /\ Interval \in Nat
         /\ policy \in Policies /\ maxBackoffDelayMs(policy) \in Nat /\ attempt \in Nat
BY RetryAssumption, WindowAssumption, BackoffBound, AttemptRange
   DEF RetryInv, RetryTypeOK, WorkerTypeOK

\* markProgress() and record() make a mark of this moment.
LEMMA FreshMark ==
  ASSUME RetryInv, WorkerTypeOK, NEW at, at = now, lastProgressAt' = now + skew, UNCHANGED <<now, skew>>
  PROVE  Marked(at)' /\ at \in 1 .. now' /\ lastProgressAt' \in Nat
BY WorkerTypes DEF Marked, Health!Reference

\* A mark stays one until the next, and when the machine's clock is set.
LEMMA OldMark ==
  ASSUME RetryInv, WorkerTypeOK, NEW at \in 1 .. now, Marked(at), UNCHANGED lastProgressAt,
         skew' = skew \/ skew = MaxSkew, now' \in Nat, now <= now'
  PROVE  Marked(at)' /\ at \in 1 .. now'
BY WorkerTypes DEF Marked, Health!Reference, RegisteredAt

\* What the probes measure from, by the moment of the mark.
LEMMA MarkedAt ==
  ASSUME RetryInv, WorkerTypeOK, NEW at \in 1 .. now, Marked(at)
  PROVE  \/ Health!Reference(RegisteredAt) = at + MaxSkew
         \/ Health!Reference(RegisteredAt) = at + skew
<1>1. Health!Reference(RegisteredAt) \in Nat
  BY WorkerTypes DEF Health!Reference, RegisteredAt
<1> QED BY <1>1, WorkerTypes DEF Marked

\* The worker's own variables keep their types.
LEMMA NextWorkerType == RetryInv /\ WorkerTypeOK /\ [WorkerNext]_workerVars => WorkerTypeOK'
<1> SUFFICES ASSUME RetryInv, WorkerTypeOK, [WorkerNext]_workerVars PROVE WorkerTypeOK'
  OBVIOUS
<1> USE WorkerTypes DEF WorkerTypeOK
<1>1. CASE UnitStarts
  BY <1>1 DEF UnitStarts, workVars, Health!markProgress
<1>2. CASE AttemptStarts
  BY <1>2 DEF AttemptStarts, AttemptHook, workVars, Health!markProgress
<1>3. CASE AttemptOver
  BY <1>3 DEF AttemptOver
<1>4. CASE UnitOver
  BY <1>4 DEF UnitOver, Health!record
<1>5. CASE Wedges
  BY <1>5 DEF Wedges
<1>6. CASE ClockIsSet
  BY <1>6 DEF ClockIsSet
<1>7. CASE TimePasses
  BY <1>7 DEF TimePasses, workVars
<1>8. CASE UNCHANGED workerVars
  BY <1>8 DEF workerVars, workVars
<1> QED BY <1>1, <1>2, <1>3, <1>4, <1>5, <1>6, <1>7, <1>8 DEF WorkerNext, TimeUp

\* An attempt that ends leaves its mark recent: the sleep that may follow is no
\* longer than maxBackoffDelayMs.
LEMMA EndKeepsMark ==
  ASSUME RetryInv, WorkerTypeOK, NEW at \in 1 .. now, MarkIsRecent(at), phase = "attempting",
         NEW outcome, AttemptEnds(outcome), UNCHANGED now
  PROVE  MarkIsRecent(at)'
<1>1. now <= at + OpTimeout + Jitter /\ at \in Nat /\ policy' = policy
  BY WorkerTypes DEF MarkIsRecent, AttemptEnds
<1>2. CASE phase' = "sleeping" /\ timerAt' = now + backoffDelayMs(policy, attempt) /\ Retries(outcome)
  <2>1. policy.maxRetries \in Nat /\ attempt \in Nat /\ policy.maxRetries > 0
    BY WorkerTypes, AttemptRange DEF RetryInv
  <2>2. attempt < policy.maxRetries /\ attempt # policy.maxRetries - 1
    BY <1>2, <2>1 DEF RetryInv, Retries
  <2>3. /\ backoffDelayMs(policy, attempt) \in Nat
        /\ backoffDelayMs(policy, attempt) <= maxBackoffDelayMs(policy)
    <3>1. attempt + 1 < policy.maxRetries
      BY <2>1, <2>2
    <3> QED BY <2>1, <3>1, WorkerTypes, BackoffBound
  <2>4. maxBackoffDelayMs(policy)' = maxBackoffDelayMs(policy)
    BY <1>1 DEF maxBackoffDelayMs, backoffDelayMs
  <2> QED BY <1>1, <1>2, <2>3, <2>4, WorkerTypes DEF MarkIsRecent, Over
<1>3. CASE phase' \in {"resolved", "rejected"}
  BY <1>1, <1>3 DEF MarkIsRecent, Over
<1> QED BY <1>2, <1>3 DEF AttemptEnds

\* Every step leaves a mark that is recent enough.
LEMMA NextMark == WorkerInv /\ [WorkerNext]_workerVars => MarkInv'
<1> SUFFICES ASSUME WorkerInv, [WorkerNext]_workerVars PROVE MarkInv'
  OBVIOUS
<1>1. RetryInv /\ WorkerTypeOK
  BY DEF WorkerInv
<1>2. PICK at \in 1 .. now : Marked(at) /\ IF Runs THEN MarkIsRecent(at)
                                           ELSE at <= wedgedAt /\ wedgedAt <= now
  BY DEF WorkerInv, MarkInv
<1>3. ASSUME NEW mark, mark = now, lastProgressAt' = now + skew, UNCHANGED <<now, skew>>,
             Runs', MarkIsRecent(mark)'
      PROVE  MarkInv'
  BY <1>1, <1>3, FreshMark DEF MarkInv
<1>4. ASSUME UNCHANGED <<lastProgressAt, skew, now>>, Runs', MarkIsRecent(at)' PROVE MarkInv'
  BY <1>1, <1>2, <1>4, OldMark, WorkerTypes DEF MarkInv
<1>5. ASSUME Runs, Call \/ Wakes, lastProgressAt' = now + skew, UNCHANGED <<now, workVars>>
      PROVE  MarkInv'
  <2>1. (phase' = "attempting" /\ timerAt' = now + OpTimeout) \/ phase' = "rejected"
    BY <1>5 DEF Call, Wakes, StartAttempt
  <2>2. UNCHANGED <<now, skew>> /\ Runs'
    BY <1>5 DEF workVars, Runs
  <2>3. ASSUME NEW mark, mark = now PROVE MarkIsRecent(mark)'
    BY <1>1, <1>5, <2>1, <2>3, WorkerTypes DEF MarkIsRecent, Over
  <2> QED BY <1>3, <1>5, <2>2, <2>3
<1>6. CASE UnitStarts
  BY <1>5, <1>6 DEF UnitStarts, Health!markProgress
<1>7. CASE AttemptStarts
  BY <1>5, <1>7 DEF AttemptStarts, AttemptHook, Health!markProgress
<1>8. CASE AttemptOver
  <2>1. Runs /\ UNCHANGED <<now, lastProgressAt, restAt, wedgedAt, skew>> /\ MarkIsRecent(at)
    BY <1>2, <1>8 DEF AttemptOver
  <2>2. UNCHANGED <<skew, restAt>> /\ Runs'
    BY <2>1 DEF Runs
  <2>3. ASSUME NEW outcome, AttemptEnds(outcome), phase = "attempting" PROVE MarkInv'
    BY <1>1, <1>4, <2>1, <2>2, <2>3, EndKeepsMark
  <2>4. ASSUME UNCHANGED <<policy, phase, attempt, timerAt, seen>> PROVE MarkInv'
    <3>1. MarkIsRecent(at)'
      BY <2>1, <2>2, <2>4 DEF MarkIsRecent, Over, maxBackoffDelayMs, backoffDelayMs
    <3> QED BY <1>4, <2>1, <2>2, <3>1
  <2>5. CASE TimeoutFires
    BY <2>3, <2>5 DEF TimeoutFires
  <2>6. ASSUME NEW k \in Attempt, NEW outcome \in {"ok"} \cup Thrown, OpSettles(k, outcome)
        PROVE  MarkInv'
    BY <2>3, <2>4, <2>6 DEF OpSettles, Delivered
  <2> QED BY <1>8, <2>5, <2>6 DEF AttemptOver
<1>9. CASE UnitOver
  <2>1. /\ lastProgressAt' = now + skew /\ UNCHANGED <<now, skew>> /\ Runs'
        /\ phase' = "idle" /\ restAt' = now
    BY <1>9 DEF UnitOver, Health!record, Runs
  <2>2. ASSUME NEW mark, mark = now PROVE MarkIsRecent(mark)'
    BY <1>1, <2>1, <2>2, WorkerTypes DEF MarkIsRecent, Over
  <2> QED BY <1>3, <2>1, <2>2
<1>10. CASE Wedges
  <2>1. at <= wedgedAt' /\ wedgedAt' <= now' /\ ~Runs' /\ UNCHANGED <<lastProgressAt, skew, now>>
    BY <1>1, <1>10, WorkerTypes DEF Wedges, Runs
  <2> QED BY <1>1, <1>2, <2>1, OldMark, WorkerTypes DEF MarkInv
<1>11. CASE ClockIsSet
  <2>1. /\ UNCHANGED <<lastProgressAt, now, wedgedAt, restAt, phase, policy, timerAt>>
        /\ skew = MaxSkew
    BY <1>11 DEF ClockIsSet, retryVars
  <2>2. MarkIsRecent(at) => MarkIsRecent(at)'
    BY <2>1 DEF MarkIsRecent, Over, maxBackoffDelayMs, backoffDelayMs
  <2>3. Marked(at)' /\ at \in 1 .. now'
    BY <1>1, <1>2, <2>1, OldMark, WorkerTypes
  <2> QED BY <1>2, <2>1, <2>2, <2>3 DEF MarkInv, Runs
<1>12. CASE TimePasses
  <2>1. /\ UNCHANGED <<lastProgressAt, skew, wedgedAt, restAt, phase, policy, timerAt>>
        /\ now' = now + 1
    BY <1>12 DEF TimePasses, retryVars, workVars
  <2>2. Marked(at)' /\ at \in 1 .. now'
    BY <1>1, <1>2, <2>1, OldMark, WorkerTypes
  <2>3. CASE Runs
    <3>1. \/ phase \in {"attempting", "sleeping"} /\ now < timerAt + Jitter
          \/ phase = "idle" /\ now < restAt + Interval + Jitter
      BY <1>12, <2>3 DEF TimePasses
    <3>2. MarkIsRecent(at)'
      BY <1>1, <1>2, <2>1, <2>3, <3>1, WorkerTypes
         DEF MarkIsRecent, Over, maxBackoffDelayMs, backoffDelayMs
    <3> QED BY <2>1, <2>2, <2>3, <3>2 DEF MarkInv, Runs
  <2>4. CASE ~Runs
    BY <1>1, <1>2, <2>1, <2>2, <2>4, WorkerTypes DEF MarkInv, Runs
  <2> QED BY <2>3, <2>4
<1>13. CASE UNCHANGED workerVars
  BY <1>2, <1>13 DEF MarkInv, Marked, Health!Reference, Runs, MarkIsRecent, Over, maxBackoffDelayMs,
     backoffDelayMs, workerVars, workVars, retryVars
<1> QED BY <1>6, <1>7, <1>8, <1>9, <1>10, <1>11, <1>12, <1>13 DEF WorkerNext, TimeUp

\* Readiness.

\* The turns of the loop add up.
LEMMA Turns ==
  ASSUME RetryInv, WorkerTypeOK
  PROVE  /\ Turn = OpTimeout + maxBackoffDelayMs(policy) + 2 * Jitter /\ Turn \in Nat
         /\ 0 * Turn = 0
         /\ \A k \in Nat : k * Turn \in Nat /\ (k + 1) * Turn = k * Turn + Turn
         /\ \A k, m \in Nat : k < m => k * Turn + Turn <= m * Turn
<1>1. Turn = OpTimeout + maxBackoffDelayMs(policy) + 2 * Jitter /\ Turn \in Nat
  BY WorkerTypes DEF Turn
<1>2. \A t, k, m \in Nat : /\ k * t \in Nat /\ (k + 1) * t = k * t + t
                          /\ k < m => k * t + t <= m * t
  <2>1. \A t, k, m \in Nat : k + 1 <= m => (k + 1) * t <= m * t
    OBVIOUS
  <2>2. \A t, k \in Nat : k * t \in Nat /\ (k + 1) * t = k * t + t
    OBVIOUS
  <2>3. \A k, m \in Nat : k < m => k + 1 <= m
    OBVIOUS
  <2> QED BY <2>1, <2>2, <2>3
<1>3. \A t \in Nat : 0 * t = 0
  OBVIOUS
<1> QED BY <1>1, <1>2, <1>3

\* A unit starts within an interval of the last one's end, each attempt within
\* one turn of the one before, and a status that says ready follows a success.
LEMMA NextReady == WorkerInv /\ [WorkerNext]_workerVars => ReadyInv'
<1> SUFFICES ASSUME WorkerInv, [WorkerNext]_workerVars PROVE ReadyInv'
  OBVIOUS
<1>1. RetryInv /\ WorkerTypeOK /\ ReadyInv
  BY DEF WorkerInv
<1>2. /\ now \in Nat \ {0} /\ timerAt \in Nat /\ restAt \in Nat /\ lastOkAt \in Nat
      /\ OpTimeout \in Nat /\ Jitter \in Nat /\ Interval \in Nat
      /\ policy \in Policies /\ maxBackoffDelayMs(policy) \in Nat /\ attempt \in Nat
      /\ policy.maxRetries \in Nat
  BY <1>1, WorkerTypes, AttemptRange
<1> DEFINE B == maxBackoffDelayMs(policy)
<1>3. /\ Turn = OpTimeout + B + 2 * Jitter /\ Turn \in Nat
      /\ LatestStart \in Nat
  <2>1. attempt * Turn \in Nat
    BY <1>1, <1>2, Turns
  <2>2. Turn = OpTimeout + B + 2 * Jitter /\ Turn \in Nat
    BY <1>1, Turns
  <2> HIDE DEF B
  <2> QED BY <1>2, <2>1, <2>2 DEF LatestStart
<1>4. /\ UNCHANGED <<restAt, Turn>> /\ attempt' = attempt => LatestStart' = LatestStart
      /\ UNCHANGED <<restAt, Turn>> /\ attempt' = attempt + 1 => LatestStart' = LatestStart + Turn
      /\ UNCHANGED <<restAt, Turn>> /\ phase = "idle" /\ attempt' = 0 => LatestStart' = LatestStart
      /\ UNCHANGED Turn /\ restAt' = now /\ attempt' = 0 => now <= LatestStart'
  <2>1. 0 * Turn = 0 /\ attempt * Turn \in Nat /\ (attempt + 1) * Turn = attempt * Turn + Turn
    BY <1>1, <1>2, Turns
  <2>2. phase = "idle" => attempt = 0
    BY <1>1 DEF RetryInv
  <2> QED BY <1>2, <1>3, <2>1, <2>2 DEF LatestStart
<1>5. Runs => /\ phase = "idle" => now <= LatestStart
              /\ phase = "attempting" => timerAt <= LatestStart + OpTimeout /\ now <= timerAt + Jitter
              /\ phase = "sleeping" => timerAt <= LatestStart + OpTimeout + Jitter + B
                                        /\ now <= timerAt + Jitter
              /\ Over => now <= LatestStart + IF policy.maxRetries = 0 THEN 0 ELSE OpTimeout + Jitter
  BY <1>1 DEF ReadyInv, UnitIsBounded
<1>6. restAt <= now
  BY <1>1 DEF ReadyInv
<1>7. phase = "resolved" => lastOkAt = now
  BY <1>1 DEF ReadyInv
<1>8. Health!Ready => lastOkAt # 0 /\ restAt <= lastOkAt
  BY <1>1 DEF ReadyInv
<1>9. policy' = policy /\ B' = B /\ UNCHANGED Turn
  BY DEF WorkerNext, UnitStarts, Call, AttemptStarts, Wakes, AttemptOver, TimeoutFires, OpSettles,
         AttemptEnds, UnitOver, Wedges, ClockIsSet, TimePasses, TimeUp, retryVars, workerVars,
         Turn, maxBackoffDelayMs, backoffDelayMs
<1>10. ASSUME UNCHANGED <<status, lastOkAt, restAt>> PROVE Health!Ready' => lastOkAt' # 0 /\ restAt' <= lastOkAt'
  BY <1>8, <1>10 DEF Health!Ready
<1> HIDE DEF B
<1>11. CASE UnitStarts
  <2>1. /\ UNCHANGED <<now, status, lastOkAt, restAt, policy>> /\ Runs /\ Runs' /\ phase = "idle"
        /\ \/ policy.maxRetries > 0 /\ phase' = "attempting" /\ attempt' = 0
              /\ timerAt' = now + OpTimeout
           \/ policy.maxRetries = 0 /\ phase' = "rejected" /\ attempt' = attempt
    BY <1>11 DEF UnitStarts, Call, StartAttempt, Health!markProgress, workVars, Runs
  <2>2. now <= LatestStart /\ LatestStart' = LatestStart
    BY <1>4, <1>5, <1>9, <2>1
  <2>3. UnitIsBounded'
    BY <1>2, <1>3, <1>9, <2>1, <2>2 DEF UnitIsBounded, Over
  <2> QED BY <1>6, <1>10, <2>1, <2>3 DEF ReadyInv
<1>12. CASE AttemptStarts
  <2>1. /\ UNCHANGED <<now, status, lastOkAt, restAt, policy>> /\ Runs /\ Runs' /\ phase = "sleeping"
        /\ phase' = "attempting" /\ attempt' = attempt + 1 /\ timerAt' = now + OpTimeout
    BY <1>12 DEF AttemptStarts, AttemptHook, Wakes, NextAttempt, StartAttempt, Health!markProgress,
                 workVars, Runs
  <2>2. now <= LatestStart + Turn /\ LatestStart' = LatestStart + Turn
    <3>1. LatestStart' = LatestStart + Turn
      BY <1>4, <1>9, <2>1
    <3>2. timerAt <= LatestStart + OpTimeout + Jitter + B /\ now <= timerAt + Jitter /\ B \in Nat
      BY <1>2, <1>5, <2>1 DEF B
    <3> QED BY <1>2, <1>3, <3>1, <3>2
  <2>3. UnitIsBounded'
    BY <1>2, <1>3, <1>9, <2>1, <2>2 DEF UnitIsBounded, Over
  <2> QED BY <1>6, <1>10, <2>1, <2>3 DEF ReadyInv
<1>13. CASE AttemptOver
  <2>1. /\ Runs /\ UNCHANGED <<now, status, restAt, wedgedAt>>
        /\ lastOkAt' = IF phase' = "resolved" THEN now ELSE lastOkAt
    BY <1>13 DEF AttemptOver
  <2>2. Runs' /\ now # 0 /\ restAt <= now
    BY <1>1, <1>2, <2>1 DEF Runs, ReadyInv
  <2>3. Health!Ready' => lastOkAt' # 0 /\ restAt' <= lastOkAt'
    BY <1>8, <2>1, <2>2 DEF Health!Ready
  <2>4. phase' = "resolved" => lastOkAt' = now'
    BY <2>1
  <2>5. ASSUME UnitIsBounded' PROVE ReadyInv'
    BY <2>1, <2>2, <2>3, <2>4, <2>5 DEF ReadyInv
  <2>6. ASSUME NEW outcome, phase = "attempting", AttemptEnds(outcome) PROVE UnitIsBounded'
    <3>1. now <= LatestStart + OpTimeout + Jitter /\ LatestStart' = LatestStart
      BY <1>2, <1>3, <1>4, <1>5, <1>9, <2>1, <2>6 DEF AttemptEnds
    <3>2. policy.maxRetries > 0 /\ attempt < policy.maxRetries
      BY <1>1, <1>2, <2>6 DEF RetryInv
    <3>3. CASE phase' = "sleeping" /\ timerAt' = now + backoffDelayMs(policy, attempt)
               /\ Retries(outcome)
      <4>1. attempt + 1 < policy.maxRetries
        BY <1>2, <3>2, <3>3 DEF Retries
      <4>2. backoffDelayMs(policy, attempt) \in Nat /\ backoffDelayMs(policy, attempt) <= B
        BY <1>2, <4>1, BackoffBound DEF B
      <4>3. timerAt' <= LatestStart + OpTimeout + Jitter + B /\ now <= timerAt' + Jitter
        BY <1>2, <1>3, <3>1, <3>3, <4>2 DEF B
      <4> QED BY <1>9, <2>1, <3>1, <3>3, <4>3 DEF UnitIsBounded, Over, B
    <3>4. CASE phase' \in {"resolved", "rejected"}
      <4>1. now <= LatestStart + IF policy.maxRetries = 0 THEN 0 ELSE OpTimeout + Jitter
        BY <1>2, <1>3, <3>1, <3>2
      <4> QED BY <1>9, <2>1, <3>1, <3>4, <4>1 DEF UnitIsBounded, Over
    <3> QED BY <2>6, <3>3, <3>4 DEF AttemptEnds
  <2>7. ASSUME UNCHANGED <<policy, phase, attempt, timerAt, seen>> PROVE UnitIsBounded'
    BY <1>1, <1>4, <1>9, <2>1, <2>7 DEF ReadyInv, UnitIsBounded, Over, B
  <2>8. CASE TimeoutFires
    BY <2>5, <2>6, <2>8 DEF TimeoutFires
  <2>9. ASSUME NEW k \in Attempt, NEW outcome \in {"ok"} \cup Thrown, OpSettles(k, outcome)
        PROVE  ReadyInv'
    BY <2>5, <2>6, <2>7, <2>9 DEF OpSettles, Delivered
  <2> QED BY <1>13, <2>8, <2>9 DEF AttemptOver
<1>14. CASE UnitOver
  <2>1. /\ UNCHANGED <<now, lastOkAt, policy>> /\ restAt' = now /\ phase' = "idle" /\ attempt' = 0
        /\ status' \in Recorded
    BY <1>14 DEF UnitOver, Health!record
  <2>2. Health!Ready' => lastOkAt' # 0 /\ restAt' <= lastOkAt'
    BY <1>2, <1>7, <2>1 DEF Health!Ready, Recorded
  <2>3. UnitIsBounded'
    BY <1>4, <1>9, <2>1 DEF UnitIsBounded, Over
  <2> QED BY <1>2, <2>1, <2>2, <2>3 DEF ReadyInv
<1>15. CASE TimePasses
  <2>1. /\ UNCHANGED <<phase, attempt, timerAt, policy, restAt, lastOkAt, status, wedgedAt>>
        /\ now' = now + 1
    BY <1>15 DEF TimePasses, retryVars, workVars
  <2>2. ASSUME Runs
        PROVE  \/ phase \in {"attempting", "sleeping"} /\ now < timerAt + Jitter
               \/ phase = "idle" /\ now < restAt + Interval + Jitter
    BY <1>15, <2>2 DEF TimePasses
  <2>3. Runs => UnitIsBounded'
    <3>1. restAt + Interval + Jitter <= LatestStart /\ LatestStart' = LatestStart
      <4>1. attempt * Turn \in Nat
        BY <1>1, <1>2, Turns
      <4> QED BY <1>2, <1>4, <1>9, <2>1, <4>1 DEF LatestStart
    <3> QED BY <1>2, <1>3, <1>5, <1>9, <2>1, <2>2, <3>1 DEF UnitIsBounded, Over, B
  <2>4. phase # "resolved"
    BY <1>1, <2>2 DEF ReadyInv
  <2>5. ~Runs => phase = "idle"
    BY <1>1 DEF ReadyInv
  <2>6. restAt' <= now' /\ (Runs' <=> Runs)
    BY <1>2, <1>6, <2>1 DEF Runs
  <2> QED BY <1>10, <2>1, <2>3, <2>4, <2>5, <2>6 DEF ReadyInv
<1>16. CASE Wedges
  <2>1. /\ UNCHANGED <<now, phase, restAt, lastOkAt, status>> /\ wedgedAt' = now /\ phase = "idle"
    BY <1>16 DEF Wedges, retryVars
  <2>2. ~Runs'
    BY <1>2, <2>1 DEF Runs
  <2> QED BY <1>6, <1>10, <2>1, <2>2 DEF ReadyInv
<1>17. CASE ClockIsSet \/ UNCHANGED workerVars
  <2>1. UNCHANGED <<now, phase, attempt, timerAt, policy, restAt, lastOkAt, wedgedAt, status>>
    BY <1>17 DEF ClockIsSet, workerVars, retryVars, workVars
  <2> QED BY <1>1, <1>4, <1>9, <1>10, <2>1 DEF ReadyInv, UnitIsBounded, Over, Runs, B
<1> QED BY <1>11, <1>12, <1>13, <1>14, <1>15, <1>16, <1>17 DEF WorkerNext, TimeUp

\* The invariant of the worker holds throughout.
LEMMA WorkerInvariant == WorkerSpec => []WorkerInv
<1>1. WorkerInit => WorkerInv
  <2> SUFFICES ASSUME WorkerInit PROVE WorkerInv
    OBVIOUS
  <2>1. RetryInv /\ now = 1 /\ phase = "idle"
    BY InitRetry DEF WorkerInit, RetryInit
  <2>2. /\ status = "starting" /\ lastProgressAt = 0 /\ restAt = 1 /\ wedgedAt = 0
        /\ lastOkAt = 0 /\ skew = MaxSkew /\ attempt = 0
    BY <2>1 DEF WorkerInit, RetryInit, Health!MonitorInit
  <2>3. WorkerTypeOK
    BY <2>2, WindowAssumption DEF WorkerTypeOK
  <2>4. Marked(1)
    BY <2>2, WindowAssumption DEF Marked, Health!Reference, RegisteredAt
  <2>5. MarkIsRecent(1) /\ Runs
    BY <2>1, <2>2, WindowAssumption, RetryAssumption DEF MarkIsRecent, Over, Runs
  <2>6. ReadyInv
    <3>1. 0 * Turn = 0
      BY <2>1, <2>3, Turns
    <3>2. UnitIsBounded
      BY <2>1, <2>2, <3>1, WindowAssumption, RetryAssumption DEF UnitIsBounded, LatestStart, Over
    <3> QED BY <2>1, <2>2, <3>2 DEF ReadyInv, Health!Ready
  <2> QED BY <2>1, <2>3, <2>4, <2>5, <2>6 DEF WorkerInv, MarkInv
<1>2. WorkerInv /\ [WorkerNext]_workerVars => WorkerInv'
  BY NextRetry, NextWorkerType, NextReady, NextMark DEF WorkerInv
<1> QED BY <1>1, <1>2, PTL DEF WorkerSpec

\* A worker that runs, with a window beyond the longest gap sized with
\* maxBackoffDelayMs and what the clock was set ahead, answers every liveness
\* probe with 200.
THEOREM NeverRestartedFalsely == WorkerSpec => []NoFalseRestart
<1>1. WorkerInv => NoFalseRestart
  <2> SUFFICES ASSUME WorkerInv, Runs, LivenessTimeout > LongestGap + SetAhead
               PROVE  Health!Alive(RegisteredAt)
    BY DEF NoFalseRestart
  <2> DEFINE Ref == Health!Reference(RegisteredAt)
  <2>1. RetryInv /\ WorkerTypeOK
    BY DEF WorkerInv
  <2>2. PICK at \in 1 .. now : Marked(at) /\ MarkIsRecent(at)
    BY DEF WorkerInv, MarkInv
  <2>3. Ref = at + MaxSkew \/ Ref = at + skew
    BY <2>1, <2>2, MarkedAt
  <2>4. now - at <= LongestGap /\ LongestGap \in Nat
    BY <2>1, <2>2, WorkerTypes DEF MarkIsRecent, LongestGap, Turn, Over, RetryInv, RetryTypeOK
  <2>5. skew - MaxSkew <= SetAhead /\ 0 <= SetAhead /\ SetAhead \in Nat
    BY <2>1, WorkerTypes DEF SetAhead
  <2>6. LivenessTimeout \in Nat /\ now \in Nat /\ skew \in Nat /\ MaxSkew \in Nat /\ at \in Nat
    BY <2>1, WorkerTypes, WindowAssumption
  <2>7. (now + skew) - Ref < LivenessTimeout
    BY <2>3, <2>4, <2>5, <2>6
  <2> QED BY <2>7 DEF Health!Alive
<1> QED BY <1>1, WorkerInvariant, PTL

\* A worker that wedged fails liveness once the window lapsed, later only by what
\* the clock was set back.
THEOREM WedgesAreDetected == WorkerSpec => []WedgeDetected
<1>1. WorkerInv => WedgeDetected
  <2> SUFFICES ASSUME WorkerInv, ~Runs, now >= wedgedAt + LivenessTimeout + SetBack
               PROVE  ~Health!Alive(RegisteredAt)
    BY DEF WedgeDetected
  <2> DEFINE Ref == Health!Reference(RegisteredAt)
  <2>1. RetryInv /\ WorkerTypeOK
    BY DEF WorkerInv
  <2>2. PICK at \in 1 .. now : Marked(at) /\ at <= wedgedAt
    BY DEF WorkerInv, MarkInv
  <2>3. Ref = at + MaxSkew \/ Ref = at + skew
    BY <2>1, <2>2, MarkedAt
  <2>4. MaxSkew - skew <= SetBack /\ 0 <= SetBack /\ SetBack \in Nat
    BY <2>1, WorkerTypes DEF SetBack
  <2>5. /\ LivenessTimeout \in Nat /\ now \in Nat /\ skew \in Nat /\ MaxSkew \in Nat
        /\ at \in Nat /\ wedgedAt \in Nat
    BY <2>1, WorkerTypes, WindowAssumption
  <2>6. ~((now + skew) - Ref < LivenessTimeout)
    BY <2>2, <2>3, <2>4, <2>5
  <2> QED BY <2>6 DEF Health!Alive
<1> QED BY <1>1, WorkerInvariant, PTL

\* A worker that runs stays ready no longer after its last success than one
\* interval and one unit with all its attempts exhausted.
THEOREM ReadinessIsRecent == WorkerSpec => []ReadyIsRecent
<1>1. WorkerInv => ReadyIsRecent
  <2> SUFFICES ASSUME WorkerInv, Runs, Health!Ready
               PROVE  lastOkAt # 0 /\ now <= lastOkAt + ReadyLag
    BY DEF ReadyIsRecent
  <2>1. RetryInv /\ WorkerTypeOK /\ ReadyInv
    BY DEF WorkerInv
  <2> DEFINE m == policy.maxRetries
             B == maxBackoffDelayMs(policy)
  <2>2. /\ now \in Nat /\ timerAt \in Nat /\ restAt \in Nat /\ lastOkAt \in Nat
        /\ OpTimeout \in Nat /\ Jitter \in Nat /\ Interval \in Nat
        /\ attempt \in Nat /\ m \in Nat /\ B \in Nat
    BY <2>1, WorkerTypes, AttemptRange
  <2>3. /\ Turn = OpTimeout + B + 2 * Jitter /\ Turn \in Nat /\ m * Turn \in Nat
        /\ LatestStart \in Nat
        /\ attempt = 0 => LatestStart <= restAt + Interval + Jitter + m * Turn
        /\ attempt < m => LatestStart + Turn <= restAt + Interval + Jitter + m * Turn
    <3>1. /\ attempt * Turn \in Nat /\ m * Turn \in Nat /\ 0 * Turn = 0
          /\ attempt < m => attempt * Turn + Turn <= m * Turn
      BY <2>1, <2>2, Turns
    <3>2. attempt = 0 => attempt * Turn = 0
      BY <3>1
    <3>3. Turn = OpTimeout + B + 2 * Jitter /\ Turn \in Nat
      BY <2>1, Turns
    <3> HIDE DEF m, B
    <3> QED BY <2>2, <3>1, <3>2, <3>3 DEF LatestStart
  <2>4. attempt = 0 \/ attempt < m
    BY <2>1 DEF RetryInv
  <2>5. phase \in {"attempting", "sleeping"} => attempt < m
    BY <2>1, <2>2, <2>4 DEF RetryInv
  <2>6. phase \in {"idle", "attempting", "sleeping"} \/ Over
    BY <2>1 DEF RetryInv, RetryTypeOK, Over
  <2>7. /\ UnitIsBounded /\ lastOkAt # 0 /\ restAt <= lastOkAt
        /\ phase = "idle" => attempt = 0
    BY <2>1 DEF ReadyInv, RetryInv
  <2>8. now <= restAt + Interval + Jitter + m * Turn
    <3>1. /\ phase = "idle" => now <= LatestStart
          /\ phase = "attempting" => timerAt <= LatestStart + OpTimeout /\ now <= timerAt + Jitter
          /\ phase = "sleeping" => timerAt <= LatestStart + OpTimeout + Jitter + B
                                    /\ now <= timerAt + Jitter
          /\ Over => now <= LatestStart + IF m = 0 THEN 0 ELSE OpTimeout + Jitter
      BY <2>7 DEF UnitIsBounded
    <3> HIDE DEF m, B
    <3>2. CASE phase = "idle" \/ (Over /\ m = 0)
      <4>1. now <= LatestStart /\ attempt = 0
        BY <2>2, <2>3, <2>4, <2>7, <3>1, <3>2
      <4> QED BY <2>2, <2>3, <4>1
    <3>3. CASE phase \in {"attempting", "sleeping"} \/ (Over /\ m # 0)
      <4>1. attempt < m
        BY <2>2, <2>4, <2>5, <3>3
      <4>2. now <= LatestStart + Turn
        BY <2>2, <2>3, <3>1, <3>3
      <4> QED BY <2>2, <2>3, <4>1, <4>2
    <3> QED BY <2>6, <3>2, <3>3
  <2> QED BY <2>2, <2>3, <2>7, <2>8 DEF ReadyLag, LongestUnit
<1> QED BY <1>1, WorkerInvariant, PTL

-----------------------------------------------------------------------------
\* createCachedProbe.

\* Nothing was checked and nobody has called.
LEMMA InitProbe == ProbeInit => ProbeInv
<1> SUFFICES ASSUME ProbeInit PROVE ProbeInv
  OBVIOUS
<1>1. ~refreshing /\ refreshing \in BOOLEAN /\ healthy \in BOOLEAN
  BY DEF ProbeInit
<1>2. clock = 1 /\ checks = 0 /\ age = 0 /\ setBack = 0
  BY DEF ProbeInit
<1>3. checkedAt = 0 /\ AnswerFresh
  BY DEF ProbeInit, AnswerFresh
<1>4. probe \in [Probe -> [state : ProbeState, age : Nat, setBack : Nat]]
  BY DEF ProbeInit, ProbeState
<1> QED BY <1>1, <1>2, <1>3, <1>4 DEF ProbeInv, ProbeTypeOK

\* A call that is not answered from memory leaves the caller waiting, or
\* rejected: no answer appears.
LEMMA EntersUnanswered ==
  ASSUME ProbeInv, NEW p \in Probe, NEW s \in {"waiting", "rejected"}, ProbeEnters(p, s)
  PROVE  /\ probe' \in [Probe -> [state : ProbeState, age : Nat, setBack : Nat]]
         /\ AnswerFresh'
BY DEF ProbeInv, ProbeTypeOK, ProbeState, AnswerFresh, ProbeEnters

\* Every call, answer and move of the clock keeps the invariant.
LEMMA NextProbe == ProbeInv /\ [ProbeNext]_probeVars => ProbeInv'
<1> SUFFICES ASSUME ProbeInv, [ProbeNext]_probeVars PROVE ProbeInv'
  OBVIOUS
<1> USE ProbeAssumption
<1>1. ASSUME NEW p \in Probe, CallCached(p) PROVE ProbeInv'
  <2>1. age <= Ttl + setBack
    BY <1>1 DEF CallCached, Cached, ProbeInv, ProbeTypeOK
  <2>2. PICK s \in {"true", "false"} : ProbeEnters(p, s)
    BY <1>1 DEF CallCached, Answer
  <2> QED BY <1>1, <2>1, <2>2
          DEF CallCached, ProbeEnters, ProbeInv, ProbeTypeOK, ProbeState, AnswerFresh, clockVars
<1>2. ASSUME NEW p \in Probe, CallJoins(p) \/ CallThrows(p) PROVE ProbeInv'
  <2>1. PICK s \in {"waiting", "rejected"} : ProbeEnters(p, s)
    BY <1>2 DEF CallJoins, CallThrows
  <2> QED BY <1>2, <2>1, EntersUnanswered DEF CallJoins, CallThrows, ProbeInv, ProbeTypeOK, clockVars
<1>3. ASSUME NEW p \in Probe, CallChecks(p) PROVE ProbeInv'
  BY <1>3, EntersUnanswered DEF CallChecks, Joins, ProbeInv, ProbeTypeOK, clockVars
<1>4. ASSUME NEW ok \in BOOLEAN, NEW b \in BOOLEAN, CheckSettles(ok, b) PROVE ProbeInv'
  <2>1. refreshing /\ checks = 1
    BY <1>4 DEF CheckSettles, ProbeInv
  <2>2. ~refreshing' /\ refreshing' \in BOOLEAN /\ healthy' \in BOOLEAN
    BY <1>4 DEF CheckSettles, InFlightAfter
  <2>3. /\ checks' = 0 /\ checkedAt' = clock' /\ age' = 0 /\ setBack' = 0
        /\ UNCHANGED clock
    BY <1>4, <2>1 DEF CheckSettles
  <2>4. /\ probe' \in [Probe -> [state : ProbeState, age : Nat, setBack : Nat]]
        /\ AnswerFresh'
    BY <1>4 DEF CheckSettles, Answer, ProbeInv, ProbeTypeOK, ProbeState, AnswerFresh
  <2> QED BY <2>2, <2>3, <2>4 DEF ProbeInv, ProbeTypeOK
<1>5. CASE Elapses
  BY <1>5 DEF Elapses, ProbeInv, ProbeTypeOK, AnswerFresh
<1>6. CASE UNCHANGED probeVars
  BY <1>6 DEF probeVars, clockVars, ProbeInv, ProbeTypeOK, AnswerFresh
<1>7. ASSUME NEW k \in 1 .. MaxStep, ClockStepsBack(k) PROVE ProbeInv'
  BY <1>7 DEF ClockStepsBack, ProbeInv, ProbeTypeOK, AnswerFresh
<1>8. ASSUME NEW k \in 1 .. MaxStep, ClockStepsAhead(k) PROVE ProbeInv'
  BY <1>8 DEF ClockStepsAhead, ProbeInv, ProbeTypeOK, AnswerFresh
<1> QED BY <1>1, <1>2, <1>3, <1>4, <1>5, <1>6, <1>7, <1>8
        DEF ProbeNext, CheckAnswers, ElapsesUnseen

\* The invariant holds throughout.
LEMMA ProbeInvariant == ProbeSpec => []ProbeInv
BY InitProbe, NextProbe, PTL DEF ProbeSpec

\* However many probes arrive, and whatever the check does, createCachedProbe
\* never has two checks under way.
THEOREM ChecksCollapse == ProbeSpec => []SingleFlight
<1>1. ProbeInv => SingleFlight
  BY DEF ProbeInv, ProbeTypeOK, SingleFlight
<1> QED BY <1>1, ProbeInvariant, PTL

\* No answer outlives the ttl, except by what the clock was set back.
THEOREM AnswersExpire == ProbeSpec => []AnswerFresh
<1>1. ProbeInv => AnswerFresh
  BY DEF ProbeInv
<1> QED BY <1>1, ProbeInvariant, PTL
=============================================================================
