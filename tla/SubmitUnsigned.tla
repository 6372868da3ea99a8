--------------------------- MODULE SubmitUnsigned ---------------------------
(***************************************************************************)
(* ChainBase.submitUnsigned, packages/chain/papi-chain/src/index.ts: a     *)
(* promise over an observable submit, raced with a timer.  Submissions are *)
(* independent closures on one event loop.                                 *)
(*                                                                         *)
(* The observable is polkadot-api's (external): it may emit while          *)
(* subscribe() runs, before `subscription` is assigned, it may emit after  *)
(* the event that decided the outcome as long as it is not unsubscribed,   *)
(* and it closes itself after an error or its completion.                  *)
(***************************************************************************)
EXTENDS Naturals

CONSTANT Submission   \* the calls of submitUnsigned

VARIABLES
  phase,      \* "idle", "subscribing" (inside the executor), "watching", "thrown"
  settled,    \* the flag of the closure
  assigned,   \* `subscription` holds the subscription
  open,       \* the chain follows the transaction for this subscription
  timer,      \* "none", "armed", "fired" or "cleared"
  outcome,    \* how the promise settled
  decisive    \* history: the first event that decides the outcome

submitVars == <<phase, settled, assigned, open, timer, outcome, decisive>>

\* What next, error and complete tell apart.  "progress": any event that
\* submitUnsigned ignores; the two errors are the classifier's two answers.
Event == {"progress", "invalid", "finalizedOk", "finalizedFailed",
          "transientError", "unknownError", "complete"}

Outcome == {"ok", "retryable", "permanent", "unknown"}

SubmitTypeOK ==
  /\ phase \in [Submission -> {"idle", "subscribing", "watching", "thrown"}]
  /\ settled \in [Submission -> BOOLEAN]
  /\ assigned \in [Submission -> BOOLEAN]
  /\ open \in [Submission -> BOOLEAN]
  /\ timer \in [Submission -> {"none", "armed", "fired", "cleared"}]
  /\ outcome \in [Submission -> Outcome \cup {"pending"}]
  /\ decisive \in [Submission -> Event \cup {"timeout", "throw", "open"}]

SubmitInit ==
  /\ phase = [s \in Submission |-> "idle"]
  /\ settled = [s \in Submission |-> FALSE]
  /\ assigned = [s \in Submission |-> FALSE]
  /\ open = [s \in Submission |-> FALSE]
  /\ timer = [s \in Submission |-> "none"]
  /\ outcome = [s \in Submission |-> "pending"]
  /\ decisive = [s \in Submission |-> "open"]

-----------------------------------------------------------------------------
\* The executor runs to its end before any other job.
NoneInside == \A s \in Submission : phase[s] # "subscribing"

\* Fault: no timer is set.
TimerAtCallNone == "none"

TimerAtCall == "armed"

\* submitUnsigned up to and into subscribe(): the timer comes first.
Call(s) ==
  /\ NoneInside /\ phase[s] = "idle"
  /\ phase' = [phase EXCEPT ![s] = "subscribing"]
  /\ timer' = [timer EXCEPT ![s] = TimerAtCall]
  /\ open' = [open EXCEPT ![s] = TRUE]
  /\ UNCHANGED <<settled, assigned, outcome, decisive>>

\* client() or submitAndWatch() throws inside the executor: the promise rejects
\* with the raw error and the timer stays armed.
CallThrows(s) ==
  /\ NoneInside /\ phase[s] = "idle"
  /\ phase' = [phase EXCEPT ![s] = "thrown"]
  /\ timer' = [timer EXCEPT ![s] = TimerAtCall]
  /\ outcome' = [outcome EXCEPT ![s] = "unknown"]
  /\ decisive' = [decisive EXCEPT ![s] = "throw"]
  /\ UNCHANGED <<settled, assigned, open>>

\* The flag of finish().
MayFinish(s) == ~settled[s]

\* finish() unsubscribes what `subscription` holds.
OpenAfter(s) == open[s] /\ ~assigned[s]

\* What fn() does to the promise, a settled promise ignores it.
Settles(s, o) == outcome' = [outcome EXCEPT ![s] = IF outcome[s] = "pending" THEN o ELSE outcome[s]]

Decides(s, e) ==
  decisive' = [decisive EXCEPT ![s] = IF decisive[s] = "open" THEN e ELSE decisive[s]]

\* finish(fn) for an event or the timer; t is what becomes of the timer and
\* closes says that the observable has ended by itself.
Finish(s, o, e, t, closes) ==
  /\ Decides(s, e)
  /\ timer' = [timer EXCEPT ![s] = t]
  /\ \/ /\ MayFinish(s)
        /\ settled' = [settled EXCEPT ![s] = TRUE]
        /\ open' = [open EXCEPT ![s] = OpenAfter(s) /\ ~closes]
        /\ Settles(s, o)
     \/ /\ ~MayFinish(s)
        /\ open' = [open EXCEPT ![s] = open[s] /\ ~closes]
        /\ UNCHANGED <<settled, outcome>>
  /\ UNCHANGED <<phase, assigned>>

\* Fault: a finalized event resolves whatever its dispatch result.
OutcomeOfFinalizedOk(e) ==
  CASE e \in {"finalizedOk", "finalizedFailed"} -> "ok"
    [] e \in {"invalid", "complete"} -> "permanent"
    [] e = "transientError" -> "retryable"
    [] OTHER -> "unknown"

\* What the observer's handlers pass to finish().
OutcomeOf(e) ==
  CASE e = "finalizedOk" -> "ok"
    [] e \in {"finalizedFailed", "invalid", "complete"} -> "permanent"
    [] e = "transientError" -> "retryable"
    [] OTHER -> "unknown"

\* The observable emits: inside subscribe(), or in a job of its own.
Emits(s, e) ==
  /\ open[s]
  /\ phase[s] = "subscribing" \/ NoneInside
  /\ IF e = "progress" THEN UNCHANGED submitVars
     ELSE Finish(s, OutcomeOf(e), e, IF timer[s] = "armed" THEN "cleared" ELSE timer[s],
                 e \in {"transientError", "unknownError", "complete"})

\* Fault: the executor does not look at the flag again.
OpenAfterAssignKept(s) == open[s]

\* The last line of the executor: a submit that settled inside subscribe() is
\* unsubscribed now.
OpenAfterAssign(s) == open[s] /\ ~settled[s]

Subscribed(s) ==
  /\ phase[s] = "subscribing"
  /\ phase' = [phase EXCEPT ![s] = "watching"]
  /\ assigned' = [assigned EXCEPT ![s] = TRUE]
  /\ open' = [open EXCEPT ![s] = OpenAfterAssign(s)]
  /\ UNCHANGED <<settled, timer, outcome, decisive>>

\* The submit timeout.
TimeoutFires(s) ==
  /\ NoneInside /\ timer[s] = "armed"
  /\ Finish(s, "retryable", "timeout", "fired", FALSE)

Done == \A s \in Submission : phase[s] # "idle" /\ ~open[s] /\ timer[s] # "armed"
Quiescent == NoneInside /\ Done /\ UNCHANGED submitVars

SubmitNext ==
  \/ \E s \in Submission :
       \/ Call(s) \/ CallThrows(s) \/ Subscribed(s) \/ TimeoutFires(s)
       \/ \E e \in Event : Emits(s, e)
  \/ Quiescent

\* The executor goes on and due timers fire; the chain may stay silent.
SubmitSpec ==
  /\ SubmitInit /\ [][SubmitNext]_submitVars
  /\ \A s \in Submission : WF_submitVars(Subscribed(s)) /\ WF_submitVars(TimeoutFires(s))

-----------------------------------------------------------------------------
\* A submit that settled leaves no chainHead subscription open and no timer
\* armed, even when it settled inside subscribe().
NoLeak ==
  \A s \in Submission :
    settled[s] /\ phase[s] # "subscribing" => ~open[s] /\ timer[s] # "armed"

\* The promise reports the first event that decides: it resolves exactly when
\* the extrinsic was finalized with a successful dispatch before anything
\* else, and is retryable only after a timeout or a transport error.
OutcomeIsFirst ==
  \A s \in Submission :
    outcome[s] # "pending" =>
      /\ outcome[s] = "ok" <=> decisive[s] = "finalizedOk"
      /\ outcome[s] = "retryable" <=> decisive[s] \in {"timeout", "transientError"}

\* Every submit settles, however silent the chain is.
SubmitSettles == \A s \in Submission : phase[s] # "idle" ~> outcome[s] # "pending"

\* What the steps preserve.
SubmitInv ==
  /\ SubmitTypeOK
  /\ \A s \in Submission :
       /\ assigned[s] <=> phase[s] = "watching"
       /\ phase[s] \in {"idle", "thrown"} => ~open[s]
       /\ phase[s] = "idle" => timer[s] = "none" /\ ~settled[s]
       /\ settled[s] => timer[s] # "armed" /\ (open[s] => phase[s] = "subscribing")
       /\ decisive[s] = "open" <=> outcome[s] = "pending"
       /\ phase[s] # "thrown" => (settled[s] <=> outcome[s] # "pending")
       /\ phase[s] = "thrown" => decisive[s] = "throw" /\ outcome[s] = "unknown"
       /\ ~settled[s] /\ phase[s] # "idle" => timer[s] = "armed"
  /\ OutcomeIsFirst
=============================================================================
