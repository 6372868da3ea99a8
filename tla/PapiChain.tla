------------------------------ MODULE PapiChain ------------------------------
(***************************************************************************)
(* The connection of ChainBase and Chain, packages/chain/papi-chain/src/   *)
(* index.ts: the lazily created client and typed API, the generation that  *)
(* guards the WebSocket status callbacks, the smoldot worker, disconnect().*)
(*                                                                         *)
(* polkadot-api is external: a provider may call its status callback at    *)
(* any time once createClient() has returned, long after it was torn down  *)
(* too.  destroy() runs the handlers of the client's subscribers, and they *)
(* may call any method of the chain, disconnect() again too, before the    *)
(* disconnect() that called destroy() goes on.                             *)
(***************************************************************************)
EXTENDS Naturals

CONSTANTS
  Client,           \* names for the clients, each used once
  None,             \* JavaScript's undefined
  MaxGeneration     \* bound of the generation counter

ASSUME ClientAssumption == None \notin Client
ASSUME GenerationAssumption == MaxGeneration \in Nat

VARIABLES
  transport,    \* #options: "ws" or "smoldot"
  client,       \* #client
  api,          \* #api: the client it is typed over, or None
  generation,   \* #generation
  lastStatus,   \* #lastStatus: the client whose provider reported it, or None
  smoldot,      \* #smoldot: the client whose worker it is, or None
  made,         \* client -> "no", "live" or "destroyed"
  worker,       \* client -> its smoldot worker: "no", "live" or "terminated"
  captured,     \* client -> the generation its status callback captured
  tearing,      \* how many calls of disconnect() are inside destroy(), nested
  forwarded,    \* history: the provider of the last status handed to the app
  reentered,    \* history: the last destroy() led to a call of api()
  inside        \* history: the clients that client() made inside destroy()

chainVars == <<transport, client, api, generation, lastStatus, smoldot,
               made, worker, captured, tearing, forwarded, reentered, inside>>

ChainTypeOK ==
  /\ transport \in {"ws", "smoldot"}
  /\ client \in Client \cup {None}
  /\ api \in Client \cup {None}
  /\ generation \in Nat
  /\ lastStatus \in Client \cup {None}
  /\ smoldot \in Client \cup {None}
  /\ made \in [Client -> {"no", "live", "destroyed"}]
  /\ worker \in [Client -> {"no", "live", "terminated"}]
  /\ captured \in [Client -> Nat]
  /\ tearing \in Nat /\ reentered \in BOOLEAN /\ inside \subseteq Client
  /\ forwarded \in Client \cup {None}

ChainInit ==
  /\ transport \in {"ws", "smoldot"}
  /\ client = None /\ api = None /\ lastStatus = None /\ smoldot = None
  /\ generation = 0
  /\ made = [c \in Client |-> "no"]
  /\ worker = [c \in Client |-> "no"]
  /\ captured = [c \in Client |-> 0]
  /\ tearing = 0 /\ forwarded = None /\ reentered = FALSE /\ inside = {}

-----------------------------------------------------------------------------
\* #wsProvider: the generation its callback captures.
ProviderGeneration == generation + 1

\* A disconnect() is inside destroy().
Tearing == tearing > 0

\* client() finds no client: a provider is built and a client made over it.
Connect(c) ==
  /\ client = None /\ made[c] = "no"
  /\ made' = [made EXCEPT ![c] = "live"]
  /\ client' = c
  /\ inside' = IF Tearing THEN inside \cup {c} ELSE inside
  /\ \/ /\ transport = "ws"
        /\ generation < MaxGeneration
        /\ generation' = ProviderGeneration
        /\ captured' = [captured EXCEPT ![c] = ProviderGeneration]
        /\ UNCHANGED <<smoldot, worker>>
     \/ /\ transport = "smoldot"
        /\ smoldot' = c
        /\ worker' = [worker EXCEPT ![c] = "live"]
        /\ UNCHANGED <<generation, captured>>

\* client(), first use; read, submitUnsigned and finalizedHeight call it too.
\* A later use returns the cached client, in destroy() the dying one, and
\* changes nothing.
UseClient(c) ==
  /\ Connect(c)
  /\ UNCHANGED <<transport, api, lastStatus, tearing, forwarded, reentered>>

\* api(), first use: over the cached client, in destroy() the dying one, or
\* over a new one.
UseApi ==
  /\ api = None
  /\ \/ /\ client # None
        /\ api' = client
        /\ UNCHANGED <<client, generation, smoldot, made, worker, captured, inside>>
     \/ \E c \in Client : Connect(c) /\ api' = c
  /\ reentered' = (reentered \/ Tearing)
  /\ UNCHANGED <<transport, lastStatus, tearing, forwarded>>

\* The guard of the status callback.
Current(c) == captured[c] = generation

\* A provider, torn down or not, reports a status: recorded and forwarded when
\* its generation is current, dropped otherwise.
StatusChanged(c) ==
  /\ transport = "ws" /\ made[c] # "no"
  /\ Current(c)
  /\ lastStatus' = c
  /\ forwarded' = c
  /\ UNCHANGED <<transport, client, api, generation, smoldot, made, worker, captured,
                 tearing, reentered, inside>>

\* Fault: disconnect() leaves the generation alone.
TeardownGenerationKept == generation

\* The generation while and after disconnect().
TeardownGeneration == generation + 1

\* Fault: disconnect() keeps the typed API.
ApiKept == api

\* The typed API once disconnect() has dropped it.
ApiDropped == None

\* disconnect() up to and into destroy() of the cached client, outside or
\* inside another one: the typed API is dropped and the generation bumped
\* first.  A client that is dying already stays so.
DisconnectBegins ==
  /\ client # None /\ generation < MaxGeneration
  /\ api' = ApiDropped
  /\ generation' = TeardownGeneration
  /\ made' = [made EXCEPT ![client] = "destroyed"]
  /\ tearing' = tearing + 1 /\ reentered' = FALSE
  /\ UNCHANGED <<transport, client, lastStatus, smoldot, worker, captured, forwarded, inside>>

\* Fault: the worker is forgotten but not terminated.
WorkersKept == worker

\* terminate() of the worker that #smoldot holds; a rejection is swallowed.
WorkersTerminated ==
  IF smoldot = None THEN worker ELSE [worker EXCEPT ![smoldot] = "terminated"]

\* Fault: disconnect() keeps the destroyed client.
ClientKept == client

\* #client after disconnect().
ClientForgotten == None

\* What disconnect() does after destroy().
Forgets ==
  /\ client' = ClientForgotten
  /\ lastStatus' = None
  /\ worker' = WorkersTerminated
  /\ smoldot' = None

\* The innermost destroy() returns and its disconnect() runs to its end.
DisconnectEnds ==
  /\ Tearing
  /\ Forgets
  /\ tearing' = tearing - 1
  /\ UNCHANGED <<transport, api, generation, made, captured, forwarded, reentered, inside>>

\* disconnect() without a client: nothing is destroyed, so nothing calls back.
DisconnectsIdle ==
  /\ client = None /\ generation < MaxGeneration
  /\ api' = ApiDropped
  /\ generation' = TeardownGeneration
  /\ Forgets
  /\ reentered' = FALSE
  /\ UNCHANGED <<transport, made, captured, tearing, forwarded, inside>>

ChainNext ==
  \/ UseApi \/ DisconnectBegins \/ DisconnectEnds \/ DisconnectsIdle
  \/ \E c \in Client : UseClient(c) \/ StatusChanged(c)

ChainSpec == ChainInit /\ [][ChainNext]_chainVars

-----------------------------------------------------------------------------
\* "A stale status can never repopulate after teardown": the recorded status
\* is the report of the provider of the current client, or of a client that a
\* subscriber made inside destroy().
StatusIsCurrent == lastStatus # None => lastStatus = client \/ lastStatus \in inside

\* The app is never told of a status by a provider that disconnect() has torn
\* down, and by none but the current client's or one made inside destroy().
ForwardsCurrent ==
  [][forwarded' # forwarded => /\ forwarded' \in {client} \cup inside
                               /\ made[forwarded'] = "live"]_chainVars

\* Outside disconnect() the only live worker is the one #smoldot holds, that of
\* the cached client, and the only live client is the cached one: reconnecting
\* leaks neither, but for a client that a subscriber made inside destroy().
NothingLeaks ==
  ~Tearing => /\ \A c \in Client : made[c] = "live" => c = client \/ c \in inside
              /\ \A c \in Client : worker[c] = "live" => c = smoldot /\ c = client

\* "Tear down the client, its subscriptions, and the smoldot instance": no
\* client is live after disconnect() until client() is called again.
TearsDownClient ==
  ~Tearing /\ client = None => \A c \in Client : made[c] # "live"

\* "Tear down the client, its subscriptions, and the cached typed API": the
\* typed API is over the live client, never over a destroyed one, unless a
\* subscriber has called api() inside destroy().
ApiOverLiveClient ==
  ~Tearing /\ ~reentered /\ api # None => api = client /\ made[api] = "live"

\* Whom the present generation may come from, or who may be alive: the current
\* client outside disconnect(), or one that was made inside destroy().
Present(c) == c \in inside \/ (c = client /\ ~Tearing)

\* What the steps preserve: generations tell providers apart, and a nested
\* disconnect() can orphan none but the clients made inside destroy().
ChainInv ==
  /\ ChainTypeOK
  /\ client # None => made[client] = "live" \/ (Tearing /\ made[client] = "destroyed")
  /\ \A c \in Client : made[c] = "no" => worker[c] = "no" /\ c \notin inside
  /\ \A c \in Client : captured[c] <= generation
  /\ \A c \in Client :
       transport = "ws" /\ made[c] # "no" /\ captured[c] = generation
         => made[c] = "live" /\ Present(c)
  /\ transport = "smoldot" => lastStatus = None /\ smoldot = client
  /\ transport = "ws" => smoldot = None /\ \A c \in Client : worker[c] = "no"
  /\ \A c \in Client : made[c] = "live" => Present(c)
  /\ \A c \in Client : worker[c] = "live" => c = smoldot
  /\ ~reentered /\ api # None => api = client /\ ~Tearing
  /\ StatusIsCurrent
=============================================================================
