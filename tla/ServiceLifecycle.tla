-------------------------- MODULE ServiceLifecycle --------------------------
(***************************************************************************)
(* What the service-runtime package promises a service as a whole: work    *)
(* runs one unit at a time, a shutdown lets no new unit start, and a clean *)
(* exit happens only after the unit under way is over and the server is    *)
(* closed.  A drain that fails or hangs ends in exit 1 instead.  A worker  *)
(* without a server may abandon a unit nothing in the process waits for.   *)
(***************************************************************************)
VARIABLES
  http,     \* the service has an HTTP server
  phase,    \* "boot", "up", "draining", "exit0", "exit1", "killed" or "crashed"
  busy,     \* a unit of work is under way
  serving   \* the HTTP server is open

lifecycleVars == <<http, phase, busy, serving>>

LifecycleInit == http \in BOOLEAN /\ phase = "boot" /\ busy = FALSE /\ serving = FALSE

\* The server listens; until then a signal ends the process.
Listens == phase = "boot" /\ http /\ serving' = TRUE /\ UNCHANGED <<phase, busy>>
Boots ==
  /\ phase = "boot" /\ (http => serving)
  /\ phase' = "up" /\ busy' = TRUE /\ UNCHANGED serving
Killed == phase = "boot" /\ phase' = "killed" /\ UNCHANGED <<busy, serving>>

WorkStarts == phase = "up" /\ ~busy /\ busy' = TRUE /\ UNCHANGED <<phase, serving>>
WorkEnds ==
  /\ phase \in {"up", "draining"}
  /\ busy /\ busy' = FALSE /\ UNCHANGED <<phase, serving>>

DrainStarts == phase = "up" /\ phase' = "draining" /\ UNCHANGED <<busy, serving>>
ServerCloses ==
  /\ phase = "draining" /\ ~busy /\ serving
  /\ serving' = FALSE /\ UNCHANGED <<phase, busy>>
ExitsClean ==
  phase = "draining" /\ ~busy /\ ~serving /\ phase' = "exit0" /\ UNCHANGED <<busy, serving>>
ExitsForced == phase = "draining" /\ phase' = "exit1" /\ UNCHANGED <<busy, serving>>

\* A worker's event loop empties, under the unit that is under way or not.
Abandons ==
  phase \in {"up", "draining"} /\ ~http /\ phase' = "exit0" /\ UNCHANGED <<busy, serving>>
\* A failure report that itself fails ends the process, never during a unit.
Crashes ==
  phase \in {"up", "draining"} /\ ~busy /\ phase' = "crashed" /\ UNCHANGED <<busy, serving>>

LifecycleNext ==
  /\ \/ Listens \/ Boots \/ Killed \/ WorkStarts \/ WorkEnds
     \/ DrainStarts \/ ServerCloses \/ ExitsClean \/ ExitsForced
     \/ Abandons \/ Crashes
  /\ UNCHANGED http

LifecycleSpec == LifecycleInit /\ [][LifecycleNext]_lifecycleVars
=============================================================================
