---------------------------- MODULE ChainBoundary ----------------------------
(***************************************************************************)
(* ChainBase as its callers use it, packages/chain/papi-chain/src/         *)
(* index.ts: submissions run over the lazily created client while others   *)
(* read statuses, disconnect() and connect again.  PapiChain is the        *)
(* connection, SubmitUnsigned the submissions.                             *)
(*                                                                         *)
(* disconnect() is one job: while destroy() runs, only what it calls may   *)
(* run, the observers of a dying client and what their handlers call.      *)
(* External: a destroyed client reports no more of the chain, but its      *)
(* observables may still end, at once, late or never.                      *)
(***************************************************************************)
EXTENDS PapiChain, SubmitUnsigned

VARIABLE over   \* submission -> the client it was handed to, or None

boundaryVars == <<chainVars, submitVars, over>>

BoundaryInit == ChainInit /\ SubmitInit /\ over = [s \in Submission |-> None]

-----------------------------------------------------------------------------
\* client(): the cached client, in destroy() the dying one, or a new one.
GetsClient ==
  \/ client # None /\ UNCHANGED chainVars
  \/ \E c \in Client : UseClient(c)

\* submitUnsigned up to and into subscribe().
Submits(s) ==
  /\ Call(s)
  /\ GetsClient
  /\ over' = [over EXCEPT ![s] = client']

\* submitAndWatch() throws, as it may over a destroyed client.
SubmitThrows(s) ==
  /\ CallThrows(s)
  /\ GetsClient
  /\ over' = [over EXCEPT ![s] = client']

\* What only the chain can report.
ChainEvent == {"progress", "invalid", "finalizedOk", "finalizedFailed"}

\* The observable of a submission emits.
SubmissionEmits(s, e) ==
  /\ Emits(s, e)
  /\ Tearing => phase[s] = "subscribing" \/ made[over[s]] = "destroyed"
  /\ e \in ChainEvent => made[over[s]] = "live"
  /\ UNCHANGED <<chainVars, over>>

Assigns(s) == Subscribed(s) /\ UNCHANGED <<chainVars, over>>

SubmitTimeout(s) == ~Tearing /\ TimeoutFires(s) /\ UNCHANGED <<chainVars, over>>

\* client(), api(), a status callback, disconnect().
ConnectionStep == NoneInside /\ ChainNext /\ UNCHANGED <<submitVars, over>>

BoundaryNext ==
  \/ ConnectionStep
  \/ \E s \in Submission :
       \/ Submits(s) \/ SubmitThrows(s) \/ Assigns(s) \/ SubmitTimeout(s)
       \/ \E e \in Event : SubmissionEmits(s, e)

BoundarySafety == BoundaryInit /\ [][BoundaryNext]_boundaryVars

\* A job runs to its end, and due timers fire; the chain may stay silent.
BoundarySpec ==
  /\ BoundarySafety
  /\ WF_boundaryVars(NoneInside /\ DisconnectEnds /\ UNCHANGED <<submitVars, over>>)
  /\ \A s \in Submission :
       WF_boundaryVars(Assigns(s)) /\ SF_boundaryVars(SubmitTimeout(s))

-----------------------------------------------------------------------------
\* A submission made outside destroy() goes to the live client, never to one
\* that an earlier disconnect() has torn down.
SubmitsOverLiveClient ==
  [][~Tearing => \A s \in Submission : over'[s] # over[s] => made'[over'[s]] = "live"
    ]_boundaryVars
=============================================================================
