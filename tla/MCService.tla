------------------------------ MODULE MCService ------------------------------
(***************************************************************************)
(* Instances of ServiceRuntime and CachedProbe for TLC: either a process   *)
(* is started, or probes call the readiness check, which share no state.   *)
(***************************************************************************)
EXTENDS ServiceRuntime, CachedProbe

serviceVars == <<allVars, probeVars>>

ServiceInit == RuntimeInit /\ ProbeInit

NotProbed ==
  /\ clock = 1 /\ checkedAt = 0 /\ age = 0 /\ setBack = 0
  /\ \A p \in Probe : probe[p].state = "idle"
NotBooted == ~http /\ ~hasTimeout /\ ~Installed /\ ~killed

Runtime == NotProbed /\ RuntimeNext /\ UNCHANGED probeVars
Probes == NotBooted /\ ProbeNext /\ UNCHANGED allVars

ServiceSpec ==
  /\ ServiceInit
  /\ [][Runtime \/ Probes]_serviceVars
  /\ Scheduling /\ WF_probeVars(CheckAnswers)
=============================================================================
