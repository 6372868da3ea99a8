------------------------ MODULE ChainBoundaryProofs ------------------------
(***************************************************************************)
(* Theorems about the chain boundary: PapiChain, for every set of clients  *)
(* and every bound of the generation counter, with re-entrant subscribers; *)
(* SubmitUnsigned, for any number of concurrent submissions; and both in   *)
(* each other's company (ChainBoundary).                                   *)
(***************************************************************************)
EXTENDS ChainBoundary, TLAPS

\* A chain that was never used satisfies the invariant.
LEMMA InitChain == ChainInit => ChainInv
<1> SUFFICES ASSUME ChainInit PROVE ChainInv
  OBVIOUS
<1>1. ChainTypeOK
  BY DEF ChainInit, ChainTypeOK
<1>2. \A c \in Client : made[c] = "no" /\ worker[c] = "no" /\ captured[c] = 0
  BY DEF ChainInit
<1>3. /\ client = None /\ api = None /\ lastStatus = None /\ smoldot = None
      /\ generation = 0 /\ inside = {}
  BY DEF ChainInit
<1> QED BY <1>1, <1>2, <1>3 DEF ChainInv, StatusIsCurrent

\* A connect keeps the invariant: its provider captures a generation that no
\* earlier provider has.
LEMMA ConnectKeeps ==
  ASSUME ChainInv, NEW c \in Client, Connect(c),
         api' \in {c, api}, api' = api => reentered' \/ api = None,
         api' = c => reentered' \/ ~Tearing,
         reentered' \in BOOLEAN,
         UNCHANGED <<transport, lastStatus, tearing, forwarded>>
  PROVE  ChainInv'
<1> USE ClientAssumption, GenerationAssumption
    DEF ChainInv, ChainTypeOK, StatusIsCurrent, Tearing, Present
<1>1. CASE transport = "ws"
  BY <1>1 DEF Connect, ProviderGeneration
<1>2. CASE transport = "smoldot"
  BY <1>2 DEF Connect
<1> QED BY <1>1, <1>2 DEF ChainTypeOK

\* Every step keeps the invariant.
LEMMA NextChain == ChainInv /\ [ChainNext]_chainVars => ChainInv'
<1> SUFFICES ASSUME ChainInv, [ChainNext]_chainVars PROVE ChainInv'
  OBVIOUS
<1>1. ASSUME NEW c \in Client, UseClient(c) PROVE ChainInv'
  <2>1. api' = api /\ reentered' = reentered /\ (reentered \/ api = None)
    BY <1>1 DEF UseClient, Connect, ChainInv
  <2>2. reentered' \in BOOLEAN /\ None # c
    BY <2>1, ClientAssumption DEF ChainInv, ChainTypeOK
  <2> QED BY <1>1, <2>1, <2>2, ConnectKeeps DEF UseClient
<1>2. CASE UseApi
  <2>1. reentered' = (reentered \/ Tearing) /\ reentered' \in BOOLEAN
    BY <1>2 DEF UseApi
  <2>2. CASE client # None /\ api' = client
             /\ UNCHANGED <<client, generation, smoldot, made, worker, captured, inside>>
    BY <1>2, <2>1, <2>2
       DEF UseApi, ChainInv, ChainTypeOK, StatusIsCurrent, Tearing, Present
  <2>3. ASSUME NEW c \in Client, Connect(c), api' = c PROVE ChainInv'
    <3>1. api = None /\ UNCHANGED <<transport, lastStatus, tearing, forwarded>>
      BY <1>2 DEF UseApi
    <3> QED BY <2>1, <2>3, <3>1, ConnectKeeps
  <2> QED BY <1>2, <2>2, <2>3 DEF UseApi
<1> USE ClientAssumption, GenerationAssumption
    DEF ChainInv, ChainTypeOK, StatusIsCurrent, Tearing, Present
<1>3. ASSUME NEW c \in Client, StatusChanged(c) PROVE ChainInv'
  BY <1>3 DEF StatusChanged, Current
<1>4. ASSUME generation' = generation + 1, UNCHANGED captured
      PROVE  \A c \in Client : captured'[c] # generation' /\ captured'[c] <= generation'
  <2>1. \A c \in Client : captured[c] \in Nat /\ captured[c] <= generation
    OBVIOUS
  <2>2. generation \in Nat
    OBVIOUS
  <2> QED BY <1>4, <2>1, <2>2
<1>5. CASE DisconnectBegins
  <2>1. /\ generation' = generation + 1 /\ api' = None /\ tearing' = tearing + 1
        /\ reentered' = FALSE /\ client \in Client
        /\ made' = [made EXCEPT ![client] = "destroyed"]
        /\ UNCHANGED <<transport, client, lastStatus, smoldot, worker, captured, forwarded,
                       inside>>
    BY <1>5 DEF DisconnectBegins, TeardownGeneration, ApiDropped
  <2>2. ChainTypeOK'
    <3>1. made' \in [Client -> {"no", "live", "destroyed"}]
      BY <2>1
    <3>2. generation' \in Nat /\ tearing' \in Nat
      BY <2>1
    <3> QED BY <2>1, <3>1, <3>2
  <2>3. \A c \in Client : captured'[c] # generation' /\ captured'[c] <= generation'
    BY <1>4, <2>1
  <2>4. tearing' > 0
    BY <2>1
  <2>5. \A c \in Client : made'[c] = "live" => made[c] = "live" /\ c # client
    BY <2>1
  <2> QED BY <2>1, <2>2, <2>3, <2>4, <2>5
<1>6. CASE DisconnectEnds
  BY <1>6 DEF DisconnectEnds, Forgets, WorkersTerminated, ClientForgotten
<1>7. CASE DisconnectsIdle
  <2>1. /\ generation' = generation + 1 /\ api' = None /\ reentered' = FALSE
        /\ client = None /\ client' = None /\ lastStatus' = None /\ smoldot' = None
        /\ worker' = IF smoldot = None THEN worker ELSE [worker EXCEPT ![smoldot] = "terminated"]
        /\ UNCHANGED <<transport, made, captured, tearing, forwarded, inside>>
    BY <1>7 DEF DisconnectsIdle, Forgets, TeardownGeneration, ApiDropped, WorkersTerminated,
                ClientForgotten
  <2>2. smoldot = None /\ worker' = worker
    BY <2>1
  <2>3. \A c \in Client : captured'[c] # generation' /\ captured'[c] <= generation'
    BY <1>4, <2>1
  <2>4. ChainTypeOK'
    <3>1. generation' \in Nat
      BY <2>1
    <3> QED BY <2>1, <2>2, <3>1
  <2> QED BY <2>1, <2>2, <2>3, <2>4
<1>8. CASE UNCHANGED chainVars
  BY <1>8 DEF chainVars
<1> QED BY <1>1, <1>2, <1>3, <1>5, <1>6, <1>7, <1>8 DEF ChainNext

\* A stale status can never repopulate: status() always reports on the
\* provider of the current client, or on one that a subscriber made inside
\* destroy(), however late and in whatever order the callbacks of torn-down
\* providers arrive and however disconnects nest.
THEOREM StaleStatusDropped == ChainSpec => []StatusIsCurrent
<1>1. ChainInv => StatusIsCurrent
  BY DEF ChainInv
<1> QED BY InitChain, NextChain, <1>1, PTL DEF ChainSpec

\* No disconnect and reconnect leaks a smoldot worker, nested or not, nor any
\* client but one made inside destroy().
THEOREM ReconnectLeaksNothing == ChainSpec => []NothingLeaks
<1>1. ChainInv => NothingLeaks
  BY DEF ChainInv, ChainTypeOK, NothingLeaks, Present, StatusIsCurrent
<1> QED BY InitChain, NextChain, <1>1, PTL DEF ChainSpec

\* Unless a subscriber calls api() inside destroy(), no disconnect, nested or
\* not, and reconnect leaves a typed API over a destroyed client behind.
THEOREM ApiIsLive == ChainSpec => []ApiOverLiveClient
<1>1. ChainInv => ApiOverLiveClient
  BY ClientAssumption DEF ChainInv, ChainTypeOK, ApiOverLiveClient
<1> QED BY InitChain, NextChain, <1>1, PTL DEF ChainSpec

\* The app is told of a status only by a live client's provider, the current
\* one's or one made inside destroy(), never by a torn-down one.
THEOREM ForwardedIsCurrent == ChainSpec => ForwardsCurrent
<1> DEFINE Fresh == forwarded' # forwarded =>
             forwarded' \in {client} \cup inside /\ made[forwarded'] = "live"
<1>1. ChainInv /\ [ChainNext]_chainVars => [Fresh]_chainVars
  <2> SUFFICES ASSUME ChainInv, ChainNext, forwarded' # forwarded
               PROVE  forwarded' \in {client} \cup inside /\ made[forwarded'] = "live"
    OBVIOUS
  <2>1. PICK c \in Client : StatusChanged(c)
    BY DEF ChainNext, UseClient, UseApi, DisconnectBegins, DisconnectEnds, DisconnectsIdle
  <2> QED BY <2>1 DEF StatusChanged, Current, ChainInv, ChainTypeOK, Present
<1> QED BY InitChain, NextChain, <1>1, PTL DEF ChainSpec, ForwardsCurrent

-----------------------------------------------------------------------------
\* Before any call the invariant holds.
LEMMA InitSubmit == SubmitInit => SubmitInv
BY DEF SubmitInit, SubmitInv, SubmitTypeOK, OutcomeIsFirst

\* finish() keeps the invariant when its outcome fits the event that causes it
\* and the timer is no longer armed afterwards.
LEMMA FinishKeeps ==
  ASSUME SubmitInv, NEW s \in Submission, NEW o \in Outcome,
         NEW e \in Event \cup {"timeout"}, NEW t \in {"fired", "cleared", timer[s]},
         NEW closes \in BOOLEAN,
         Finish(s, o, e, t, closes),
         phase[s] # "idle", phase[s] = "thrown" => ~open[s],
         t = timer[s] => timer[s] # "armed",
         o = "ok" <=> e = "finalizedOk",
         o = "retryable" <=> e \in {"timeout", "transientError"}
  PROVE  SubmitInv'
<1> USE DEF SubmitInv, SubmitTypeOK, OutcomeIsFirst, Outcome, Event
<1>1. CASE ~settled[s]
  <2>1. timer[s] = "armed" /\ t # timer[s]
    BY <1>1
  <2>2. /\ settled' = [settled EXCEPT ![s] = TRUE]
        /\ open' = [open EXCEPT ![s] = open[s] /\ ~assigned[s] /\ ~closes]
        /\ timer' = [timer EXCEPT ![s] = t]
        /\ UNCHANGED <<phase, assigned>>
    BY <1>1 DEF Finish, MayFinish, OpenAfter
  <2>3. CASE phase[s] = "thrown"
    <3>1. outcome' = outcome /\ decisive' = decisive
      BY <1>1, <2>3 DEF Finish, MayFinish, Decides, Settles
    <3> QED BY <2>1, <2>2, <2>3, <3>1
  <2>4. CASE phase[s] # "thrown"
    <3>1. /\ outcome' = [outcome EXCEPT ![s] = o]
          /\ decisive' = [decisive EXCEPT ![s] = e]
      BY <1>1, <2>4 DEF Finish, MayFinish, Decides, Settles
    <3>2. SubmitTypeOK'
      BY <2>1, <2>2, <3>1
    <3>3. OutcomeIsFirst'
      BY <2>2, <3>1
    <3> QED BY <2>1, <2>2, <2>4, <3>1, <3>2, <3>3
  <2> QED BY <2>3, <2>4
<1>2. CASE settled[s]
  BY <1>2 DEF Finish, MayFinish, Decides
<1> QED BY <1>1, <1>2

\* Every step keeps the invariant.
LEMMA NextSubmit == SubmitInv /\ [SubmitNext]_submitVars => SubmitInv'
<1> SUFFICES ASSUME SubmitInv, [SubmitNext]_submitVars PROVE SubmitInv'
  OBVIOUS
<1>1. ASSUME NEW s \in Submission, NEW e \in Event, Emits(s, e) PROVE SubmitInv'
  <2>1. CASE e = "progress"
    BY <1>1, <2>1 DEF Emits, submitVars, SubmitInv, SubmitTypeOK, OutcomeIsFirst
  <2>2. CASE e # "progress"
    <3> DEFINE t == IF timer[s] = "armed" THEN "cleared" ELSE timer[s]
               closes == e \in {"transientError", "unknownError", "complete"}
    <3>1. Finish(s, OutcomeOf(e), e, t, closes)
      BY <1>1, <2>2 DEF Emits
    <3>2. OutcomeOf(e) \in Outcome
      BY DEF OutcomeOf, Outcome, Event
    <3>3. /\ OutcomeOf(e) = "ok" <=> e = "finalizedOk"
          /\ OutcomeOf(e) = "retryable" <=> e \in {"timeout", "transientError"}
      BY DEF OutcomeOf, Event
    <3>4. phase[s] # "idle" /\ (phase[s] = "thrown" => ~open[s])
      BY <1>1 DEF Emits, SubmitInv, SubmitTypeOK
    <3>5. t \in {"fired", "cleared", timer[s]} /\ (t = timer[s] => timer[s] # "armed")
      OBVIOUS
    <3>6. closes \in BOOLEAN
      OBVIOUS
    <3> HIDE DEF t, closes
    <3> QED BY <3>1, <3>2, <3>3, <3>4, <3>5, <3>6, FinishKeeps
  <2> QED BY <2>1, <2>2
<1>2. ASSUME NEW s \in Submission, TimeoutFires(s) PROVE SubmitInv'
  <2>1. phase[s] # "idle" /\ (phase[s] = "thrown" => ~open[s]) /\ timer[s] = "armed"
    BY <1>2 DEF TimeoutFires, SubmitInv, SubmitTypeOK
  <2>2. "retryable" \in Outcome /\ "timeout" # "finalizedOk"
    BY DEF Outcome
  <2> QED BY <1>2, <2>1, <2>2, FinishKeeps DEF TimeoutFires
<1> USE DEF SubmitInv, SubmitTypeOK, OutcomeIsFirst, Outcome, Event, TimerAtCall
<1>3. ASSUME NEW s \in Submission, Call(s) PROVE SubmitInv'
  BY <1>3 DEF Call
<1>4. ASSUME NEW s \in Submission, CallThrows(s) PROVE SubmitInv'
  BY <1>4 DEF CallThrows
<1>5. ASSUME NEW s \in Submission, Subscribed(s) PROVE SubmitInv'
  BY <1>5 DEF Subscribed, OpenAfterAssign
<1>6. CASE UNCHANGED submitVars
  BY <1>6 DEF submitVars
<1> QED BY <1>1, <1>2, <1>3, <1>4, <1>5, <1>6 DEF SubmitNext, Quiescent

\* No submit leaks its chainHead subscription or its timer, whenever and in
\* whatever order the observable emits.
THEOREM SubmitLeaksNothing == SubmitSpec => []NoLeak
<1>1. SubmitInv => NoLeak
  BY DEF SubmitInv, NoLeak
<1> QED BY InitSubmit, NextSubmit, <1>1, PTL DEF SubmitSpec

\* The promise reports the first event that decides the submit.
THEOREM FirstEventDecides == SubmitSpec => []OutcomeIsFirst
<1>1. SubmitInv => OutcomeIsFirst
  BY DEF SubmitInv
<1> QED BY InitSubmit, NextSubmit, <1>1, PTL DEF SubmitSpec

-----------------------------------------------------------------------------
\* A step of the boundary is a step of the connection, or leaves it alone.
LEMMA StepOfConnection == [BoundaryNext]_boundaryVars => [ChainNext]_chainVars
<1> SUFFICES ASSUME [BoundaryNext]_boundaryVars PROVE [ChainNext]_chainVars
  OBVIOUS
<1>1. CASE ConnectionStep
  BY <1>1 DEF ConnectionStep
<1>2. ASSUME GetsClient PROVE [ChainNext]_chainVars
  BY <1>2 DEF GetsClient, ChainNext
<1>3. ASSUME NEW s \in Submission, Submits(s) \/ SubmitThrows(s) PROVE [ChainNext]_chainVars
  BY <1>2, <1>3 DEF Submits, SubmitThrows
<1>4. ASSUME NEW s \in Submission, Assigns(s) \/ SubmitTimeout(s) PROVE UNCHANGED chainVars
  BY <1>4 DEF Assigns, SubmitTimeout
<1>5. ASSUME NEW s \in Submission, NEW e \in Event, SubmissionEmits(s, e)
      PROVE  UNCHANGED chainVars
  BY <1>5 DEF SubmissionEmits
<1>6. CASE UNCHANGED boundaryVars
  BY <1>6 DEF boundaryVars
<1> QED BY <1>1, <1>3, <1>4, <1>5, <1>6 DEF BoundaryNext

\* A step of the boundary is a step of the submissions, or leaves them alone.
LEMMA StepOfSubmissions == [BoundaryNext]_boundaryVars => [SubmitNext]_submitVars
<1> SUFFICES ASSUME [BoundaryNext]_boundaryVars PROVE [SubmitNext]_submitVars
  OBVIOUS
<1>1. CASE ConnectionStep
  BY <1>1 DEF ConnectionStep
<1>2. ASSUME NEW s \in Submission,
             Submits(s) \/ SubmitThrows(s) \/ Assigns(s) \/ SubmitTimeout(s)
      PROVE  SubmitNext
  BY <1>2 DEF Submits, SubmitThrows, Assigns, SubmitTimeout, SubmitNext
<1>3. ASSUME NEW s \in Submission, NEW e \in Event, SubmissionEmits(s, e)
      PROVE  SubmitNext
  BY <1>3 DEF SubmissionEmits, SubmitNext
<1>4. CASE UNCHANGED boundaryVars
  BY <1>4 DEF boundaryVars
<1> QED BY <1>1, <1>2, <1>3, <1>4 DEF BoundaryNext

\* Submissions that are under way across disconnects and reconnects, and those
\* made from inside destroy(), do nothing to the connection that client() and
\* disconnect() on their own do not: the boundary implements PapiChain, so its
\* theorems hold here.
THEOREM BoundaryImplementsConnection == BoundarySafety => ChainSpec
<1>1. BoundaryInit => ChainInit
  BY DEF BoundaryInit
<1> QED BY <1>1, StepOfConnection, PTL DEF BoundarySafety, ChainSpec

\* No disconnect() in the middle of a submission makes it leak its
\* subscription or its timer.
THEOREM BoundaryLeaksNoSubmission == BoundarySafety => []NoLeak
<1>1. BoundaryInit => SubmitInv
  BY InitSubmit DEF BoundaryInit
<1>2. SubmitInv /\ [BoundaryNext]_boundaryVars => SubmitInv'
  BY NextSubmit, StepOfSubmissions
<1>3. SubmitInv => NoLeak
  BY DEF SubmitInv, NoLeak
<1> QED BY <1>1, <1>2, <1>3, PTL DEF BoundarySafety

\* What the next theorem needs: the names in `over` are clients.
OverInv == ChainInv /\ over \in [Submission -> Client \cup {None}]

\* A submission is handed to what client() returns, a client.
LEMMA NextOver == OverInv /\ [BoundaryNext]_boundaryVars => OverInv'
<1> SUFFICES ASSUME OverInv, [BoundaryNext]_boundaryVars PROVE OverInv'
  OBVIOUS
<1>1. ChainInv'
  BY StepOfConnection, NextChain DEF OverInv
<1>2. client' \in Client \cup {None}
  BY <1>1 DEF ChainInv, ChainTypeOK
<1>3. \/ UNCHANGED over
      \/ \E s \in Submission : over' = [over EXCEPT ![s] = client']
  BY DEF BoundaryNext, ConnectionStep, Submits, SubmitThrows, Assigns, SubmitTimeout,
         SubmissionEmits, boundaryVars
<1> QED BY <1>1, <1>2, <1>3 DEF OverInv

\* Outside destroy() every submission is handed to a live client, however many
\* disconnects came before.
THEOREM SubmissionsReachLiveClient == BoundarySafety => SubmitsOverLiveClient
<1> DEFINE Reaches == ~Tearing =>
             \A s \in Submission : over'[s] # over[s] => made'[over'[s]] = "live"
<1>1. BoundaryInit => OverInv
  BY InitChain DEF BoundaryInit, OverInv
<1>2. OverInv /\ [BoundaryNext]_boundaryVars => [Reaches]_boundaryVars
  <2> SUFFICES ASSUME OverInv, BoundaryNext, ~Tearing,
                      NEW s \in Submission, over'[s] # over[s]
               PROVE  made'[over'[s]] = "live"
    OBVIOUS
  <2>1. GetsClient /\ over'[s] = client'
    BY DEF BoundaryNext, ConnectionStep, Submits, SubmitThrows, Assigns, SubmitTimeout,
           SubmissionEmits, OverInv
  <2>2. CASE client # None /\ UNCHANGED chainVars
    BY <2>1, <2>2 DEF OverInv, ChainInv, chainVars
  <2>3. ASSUME NEW c \in Client, UseClient(c) PROVE made'[client'] = "live"
    BY <2>3 DEF UseClient, Connect, OverInv, ChainInv, ChainTypeOK
  <2> QED BY <2>1, <2>2, <2>3 DEF GetsClient
<1> QED BY <1>1, <1>2, NextOver, PTL DEF BoundarySafety, SubmitsOverLiveClient
=============================================================================
