--------------------------- MODULE HealthMonitor ---------------------------
(***************************************************************************)
(* HealthMonitor of packages/service/service-runtime/src/health.ts and the *)
(* two probe handlers of registerHealthRoutes, healthRoutes.ts.  The clock *)
(* starts above 0, as Date.now() does: 0 means "none yet".                 *)
(***************************************************************************)
EXTENDS Naturals

CONSTANT LivenessTimeout   \* livenessTimeoutMs

VARIABLES now, status, lastCompletedAt, lastProgressAt

monitor == <<status, lastCompletedAt, lastProgressAt>>

HealthStatus == {"starting", "healthy", "degraded", "unhealthy"}

MonitorInit == status = "starting" /\ lastCompletedAt = 0 /\ lastProgressAt = 0

record(s) ==
  /\ status' = s
  /\ lastCompletedAt' = now
  /\ lastProgressAt' = now

markProgress ==
  /\ lastProgressAt' = now
  /\ UNCHANGED <<status, lastCompletedAt>>

\* Fault: before the first progress the probe measures from its own call.
ReferenceNow(registeredAt) == IF lastProgressAt = 0 THEN now ELSE lastProgressAt

\* What staleness is measured from.
Reference(registeredAt) == IF lastProgressAt = 0 THEN registeredAt ELSE lastProgressAt

\* GET /healthz answers 200.
Alive(registeredAt) == now - Reference(registeredAt) < LivenessTimeout

\* Fault: any recorded status is ready.
ReadyOnceRecorded == status # "starting"

\* GET /readyz answers 200.
Ready == status \in {"healthy", "degraded"}
=============================================================================
