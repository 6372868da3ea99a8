----------------------------- MODULE CachedProbe -----------------------------
(***************************************************************************)
(* createCachedProbe of packages/service/service-runtime/src/              *)
(* healthRoutes.ts: a boolean dependency check memoized for ttlMs, with    *)
(* concurrent refreshes collapsed into one check.  Probes call it at any   *)
(* time; the injected check (external) may answer, reject, throw before it *)
(* returns a promise, or take its time.  The clock is Date.now(): it ticks *)
(* with time, and whoever sets the machine's clock moves it either way.    *)
(***************************************************************************)
EXTENDS Naturals

CONSTANTS
  Probe,           \* the callers, each waits for its answer before it calls again
  Ttl,             \* ttlMs
  MaxClock,        \* bound of the clock
  MaxStep          \* how far the clock is ever set, either way

ASSUME ProbeAssumption == Ttl \in Nat /\ MaxClock \in Nat /\ MaxStep \in Nat

VARIABLES
  clock,       \* the wall clock, never 0
  checkedAt,   \* 0: never checked
  healthy,
  refreshing,  \* inFlight: TRUE while the closure holds a pending promise
  checks,      \* history: checks under way
  age,         \* history: the time that passed since the last check was over
  setBack,     \* history: how far the clock was set back since then
  probe        \* caller -> [state, age, setBack]: the last two as of the answer

clockVars == <<clock, age, setBack>>
probeVars == <<clockVars, checkedAt, healthy, refreshing, checks, probe>>

ProbeState == {"idle", "waiting", "true", "false", "rejected"}

ProbeInit ==
  /\ clock = 1 /\ checkedAt = 0 /\ healthy = FALSE /\ refreshing = FALSE /\ checks = 0
  /\ age = 0 /\ setBack = 0
  /\ probe = [p \in Probe |-> [state |-> "idle", age |-> 0, setBack |-> 0]]

Answer(b) == IF b THEN "true" ELSE "false"

-----------------------------------------------------------------------------
\* Fault: once checked the answer is kept for ever.
CachedForEver == checkedAt # 0

\* The memoized answer still holds.
Cached == clock - checkedAt <= Ttl /\ checkedAt # 0

\* Fault: every refresh starts a check of its own.
JoinsNever == FALSE

\* A refresh joins the check that is under way.
Joins == refreshing

ProbeEnters(p, s) ==
  /\ probe[p].state # "waiting"
  /\ probe' = [probe EXCEPT ![p] = [state |-> s, age |-> age, setBack |-> setBack]]

CallCached(p) ==
  /\ Cached
  /\ ProbeEnters(p, Answer(healthy))
  /\ UNCHANGED <<clockVars, checkedAt, healthy, refreshing, checks>>

CallJoins(p) ==
  /\ ~Cached /\ Joins
  /\ ProbeEnters(p, "waiting")
  /\ UNCHANGED <<clockVars, checkedAt, healthy, refreshing, checks>>

CallChecks(p) ==
  /\ ~Cached /\ ~Joins
  /\ ProbeEnters(p, "waiting")
  /\ refreshing' = TRUE
  /\ checks' = checks + 1
  /\ UNCHANGED <<clockVars, checkedAt, healthy>>

\* check() throws before it returns a promise: there is nothing to put the
\* catch on, the async function rejects.
CallThrows(p) ==
  /\ ~Cached /\ ~Joins
  /\ ProbeEnters(p, "rejected")
  /\ UNCHANGED <<clockVars, checkedAt, healthy, refreshing, checks>>

\* Fault: the promise of a failed check is never dropped.
InFlightAfterKept(ok) == ~ok

\* The closure drops the promise on every outcome.
InFlightAfter(ok) == FALSE

\* The check answers b, or rejects (ok = FALSE), which counts as FALSE; all
\* who wait get the answer.
CheckSettles(ok, b) ==
  /\ checks > 0
  /\ checks' = checks - 1
  /\ healthy' = b
  /\ checkedAt' = clock
  /\ refreshing' = InFlightAfter(ok)
  /\ probe' = [p \in Probe |->
       IF probe[p].state = "waiting"
       THEN [state |-> Answer(b), age |-> 0, setBack |-> 0] ELSE probe[p]]
  /\ age' = 0 /\ setBack' = 0
  /\ UNCHANGED clock

\* Time passes.
Elapses ==
  /\ clock < MaxClock
  /\ clock' = clock + 1 /\ age' = age + 1
  /\ UNCHANGED <<setBack, checkedAt, healthy, refreshing, checks, probe>>

\* The bound of the clock: time passes unseen.
ElapsesUnseen == clock = MaxClock /\ UNCHANGED probeVars

\* The clock is set back, or ahead.
ClockStepsBack(k) ==
  /\ k < clock /\ setBack + k <= MaxStep
  /\ clock' = clock - k /\ setBack' = setBack + k
  /\ UNCHANGED <<age, checkedAt, healthy, refreshing, checks, probe>>
ClockStepsAhead(k) ==
  /\ clock + k <= MaxClock
  /\ clock' = clock + k
  /\ UNCHANGED <<age, setBack, checkedAt, healthy, refreshing, checks, probe>>

CheckAnswers == (\E b \in BOOLEAN : CheckSettles(TRUE, b)) \/ CheckSettles(FALSE, FALSE)

ProbeNext ==
  \/ \E p \in Probe : CallCached(p) \/ CallJoins(p) \/ CallChecks(p) \/ CallThrows(p)
  \/ CheckAnswers \/ Elapses \/ ElapsesUnseen
  \/ \E k \in 1 .. MaxStep : ClockStepsBack(k) \/ ClockStepsAhead(k)

\* The dependency check is assumed to settle: the code puts no timeout on it.
ProbeSpec == ProbeInit /\ [][ProbeNext]_probeVars /\ WF_probeVars(CheckAnswers)

-----------------------------------------------------------------------------
\* A burst of probes triggers one check at a time.
SingleFlight == checks <= 1

\* An answer is never staler than the ttl, plus as much as the clock was set
\* back since the check behind it: setting it ahead never prolongs an answer.
AnswerFresh ==
  \A p \in Probe : probe[p].state \in {"true", "false"} => probe[p].age <= Ttl + probe[p].setBack

\* Every probe is answered while checks settle, and a rejected check does not
\* leave later probes waiting on a promise that is gone.
ProbeAnswered == \A p \in Probe : probe[p].state = "waiting" ~> probe[p].state # "waiting"

\* What the steps preserve.  The closure holds a promise exactly while one check
\* is under way; the clock has moved on from the last check by as much time as
\* passed, less what it was set back.
ProbeTypeOK ==
  /\ clock \in Nat \ {0} /\ checkedAt \in Nat /\ checks \in Nat
  /\ age \in Nat /\ setBack \in Nat
  /\ healthy \in BOOLEAN /\ refreshing \in BOOLEAN
  /\ probe \in [Probe -> [state : ProbeState, age : Nat, setBack : Nat]]
ProbeInv ==
  /\ ProbeTypeOK
  /\ checks = (IF refreshing THEN 1 ELSE 0)
  /\ checkedAt # 0 => checkedAt + age <= clock + setBack
  /\ AnswerFresh
=============================================================================
