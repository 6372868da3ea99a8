# Verification of predictor-common

TLA+ specifications, TLC configurations and TLAPS proofs for the packages of
predictor-common that carry control logic: the service runtime, the chain
boundary, the indexer helpers and the GraphQL client, and for the conversions
whose results others depend on (log lines, payloads, ids, amounts). Paths below are relative
to the root of the repository.

The repository is a library: a service, a squid or a web page brings its own
code and injects it (a tick, a drain, a check, a handler, a fetcher). The
specifications take the library's code literally and the injected code, Node's
event loop and the third-party libraries as an environment that may do whatever
their contracts allow. What they look for is what a unit test hardly reaches:
the order of timers, promise jobs, callbacks and late answers.

## 1. Inventory

### Components that are modelled

| component | source | state it keeps | operations | module |
|---|---|---|---|---|
| tick loop | `packages/service/service-runtime/src/scheduler.ts` | `timer`, `running`, `stopped`, `inFlight` | `start`, `stop`, the interval, the `catch`/`finally` of a tick | `TickLoop` |
| graceful shutdown | `.../src/lifecycle.ts` | `shuttingDown`, the drain's promise, the unref'd timer | signal handler, timeout, `race.then` | `GracefulShutdown` |
| service wiring | `packages/service/service-runtime/README.md` | the server, the two above | listen, install, drain | `ServiceRuntime` (abstract: `ServiceLifecycle`) |
| health monitor, probe routes | `.../src/health.ts`, `.../src/healthRoutes.ts` | `status`, `lastCompletedAt`, `lastProgressAt`; `checkedAt`, `healthy`, `inFlight` | `record`, `markProgress`, `/healthz`, `/readyz`, `createCachedProbe` | `HealthMonitor`, `CachedProbe` |
| chain errors | `packages/chain/chain-errors/src/index.ts` | the loop variable, a timer, the operations it abandoned | `classifyChainError`, `backoffDelayMs`, `maxBackoffDelayMs`, `withTimeout`, `withRetry` | `ChainErrors`, `Retry`, composed in `WorkerHealth` |
| chain boundary | `packages/chain/papi-chain/src/index.ts` | `#client`, `#api`, `#generation`, `#lastStatus`, `#smoldot`; per submission `settled`, `subscription`, `timer` | `client`, `api`, `status`, `disconnect`, `submitUnsigned`, `read`, `submitSigned` | `PapiChain`, `SubmitUnsigned`, composed in `ChainBoundary` |
| entity cache | `packages/indexer/squid-common/src/entityCache.ts` | one map of instances per class | `get`, `getOrFail`, `find`, `insert`, `upsert`, `save`, `remove` | `EntityCache` |
| entity helpers | `.../squid-common/src/entity.ts` | none; a load and a save under way | `withEntity`, `getOrCreateAndUpdate` | `EntityUpdates`, over `EntityCache` |
| account helpers | `.../squid-common/src/account.ts` | the cached accounts of a `ctx` | `getOrCreateAccount` | `AccountHelpers` |
| event router | `.../squid-common/src/router.ts` | `loggedUnhandled`, the block's accumulator | `processEvents`, `noop`, `tracked` | `EventRouter`, composed with the accounts in `BatchProcessor` |
| event decoding and names (partly) | `.../squid-common/src/{decodeEvent,eventName,eventMeta}.ts` | none | `decodeEvent`, `tryParseEventName`, `extractEventMeta` | `BatchProcessor`, `EventRouter` |
| squid configuration (partly) | `.../squid-common/src/{processor,config,domain,factory}.ts` | the range and the subscriptions of a processor | `createProcessor`, the parse of an event's meta | `BatchProcessor` |
| chain coordinates (partly) | `.../squid-common/src/chainCoord.ts` | none | `chainCoordIdMake`, `chainCoordTransform` | `ChainCoord`, used by `BatchProcessor` |
| JSON payloads | `.../squid-common/src/json.ts` | the running estimate | `truncateJsonPayload` | `JsonPayload`, over `ObjectGraph` |
| logger | `packages/service/logger/src/index.ts` | level, bindings, `redactKeys`; the `seen` set of a line | `createLogger`, `child`, `emit`, `redact` | `Logger`, over `ObjectGraph` |
| SCALE codec, heartbeat payload | `packages/chain/scale/src/index.ts`, `packages/chain/node-manager/src/index.ts` | none | `compact`, `u64le`, `scaleBytes`, `heartbeatSigningPayload` | `Scale` |
| token amounts | `packages/web/ui/src/amount.ts` | none | `parseTokenAmount`, `formatTokenAmount` | `TokenAmount` |
| account conversions (partly) | `packages/chain/substrate-signer/src/index.ts` | none | `convertToAddress`, `convertToPublicKeyIfNeeded` and their siblings | `AccountUtils` |
| git hooks | `packages/tooling/git-hooks/src/*` | the hooks in `.husky/`; git's HEAD, index and working tree | `install`, `run pre-commit`, `run commit-msg` | `GitHooks` |
| fragment assembly | `packages/web/graphql-client/src/fragments.ts` | the work list of a call | `assembleDocument` | `FragmentDocument` |
| fetch, pagination, hooks | `packages/web/graphql-client/src/{fetchGraphql,pagination,errors}.ts`, `src/react/*` | SWR's cache per key | `fetchGraphql`, `extractConnectionItems`, `useResource`, `usePaginatedResource` | `PaginatedResource` |

### How they interact

* **Calls.** The drain of `installGracefulShutdown` awaits `loop.stop()` and
  then `app.close()`. A tick does its unit of work through `withRetry`, whose
  `onAttempt` hook marks progress on the health monitor. `submitUnsigned`,
  `read` and `api` call the lazy `client()`. `getOrCreateAccount` reads and
  writes through the store of the handler's `ctx`. `usePaginatedResource` is
  `useResource` plus the page, `useResource` is SWR plus the error split.
* **Callbacks.** Signals and timers of Node; the status callback of a WebSocket
  provider, which may come after the provider was torn down; the observer of a
  submission, which may be called while `subscribe()` still runs; the handlers
  of a client's subscribers, which `destroy()` runs in the middle of
  `disconnect()`.
* **Shared state.** One process exit for loop and drain; one connection for the
  queries of a batch; one SWR cache for all pages of a list.

### Hard behaviour

* A guard (`running`, `shuttingDown`, `settled`, `inFlight`, `#generation`) is
  what keeps two callbacks apart; each must be released on every path and never
  early.
* State is read, a query or a promise is awaited, and the state is written:
  `get` of the entity cache and of an account, `stop()` over `inFlight`,
  `createCachedProbe`.
* A timer races an answer: the drain's timeout, the submit timeout,
  `withTimeout`. The loser is not cancelled and settles later.
* A window must be longer than the longest legitimate silence: the liveness
  timeout against the backoff curve.
* Rolled-back batches start over with a new `ctx`; a router outlives batches.
* Pages are turned while requests are under way.
* The steps of `pre-commit` read the working tree, git commits the index, and
  whoever commits may go on editing.
* `Date.now()` may be set: health windows and the ttl of a probe are differences
  of readings of it.
* A walk over a graph of objects stops early, cuts a cycle, or hides a branch,
  and must do no more than that.

Each is a hazard of `PROJECT.json`, at its line, with the properties that would
catch it going wrong.

### Not modelled

| part | why |
|---|---|
| env, environment and GraphQL argument schemas of the squids | declarations for a third-party schema library; no state, no control |
| network constants, error classes, design system | tables and declarations |
| `numeric.ts`, `number.ts`, `Currency.tsx`, dates | arithmetic and formatting of third-party libraries (BigDecimal, decimal.js, Intl, date-fns) |
| `bytes.ts`, `primitives.ts`, `codec.ts` | validation and decoding of one text or byte string at a time; what matters are character sets, which a model would restate |
| key derivation and signing | cryptography of third-party libraries |
| e2e harness, repository scripts | build configuration objects; a stateless check of dependency versions |
| UI widgets | presentation. The one with a timer, `CopyToClipboardButton`, sets one timeout per click and clears none, so of two clicks within a second the first hides the second's tooltip early; nothing depends on it |

## 2. How to read the specifications

A JavaScript program runs one *job* at a time. An action is a job, or the part
of a job between two points at which other code runs. Where the code awaits, an
operation is two actions; where it calls code that may call back
(`subscribe()`, `destroy()`), it is split at that call. Until that call returns
(`phase = "subscribing"`, `tearing > 0`) only what it may call runs; no other job
does. Promise jobs run before the event loop starts a timer or a signal
handler: `JobQueued` in `TickLoop` is that rule, where it matters.

Data is abstracted to what the properties tell apart: an entity is an id and a
version, an error is its class, a GraphQL document is the list of its spreads,
a page is the set of its row numbers, a name is its
words, a number is its digits only where digits are the point. Names of promises and entity instances are
model values that are used again once nothing refers to them, so loops run for
ever in a finite state space.

Variables marked *history* in a module are not in the code; no action of the
code reads them. Definitions that start with the comment `Fault:` are not part
of a specification either: each is a plausible mistake in the definition
below it, kept to show that the property named in `PROJECT.json` notices it.

## 3. Modules

**TickLoop** is `createTickLoop`. `promise` holds where each fired tick is:
its body (`pending`), its `catch` (`rejecting`), its `finally` (`settling`,
`throwing`), or over. `Fire` is `kick()` past its guard. A tick may call
`stop()` in its synchronous prefix (`FireStopping`): that `stop()` runs *before*
`inFlight` is assigned, and, in the tick that `start()` kicks, before `timer`
is. `UnhandledRejection` is Node's reaction to a rejected tick promise that
nobody handles.

**GracefulShutdown** is `installGracefulShutdown`. The drain may resolve,
reject, throw before it returns a promise, or hang. `handles` stands for
everything else that keeps the event loop alive, since the timeout is unref'd.

**ServiceRuntime** extends both and interleaves them in one process, in the
wiring the package's README shows: with a server that may fail to close or hang,
or as a worker without one, whose drain is `loop.stop()` alone and whose process
ends when nothing keeps its event loop alive. `start()` may be called again at
any time; a tick promise that rejects unhandled ends the process.
**ServiceLifecycle** is what that wiring promises: one unit of work at a time,
none started while draining, the server closed after the last one, exit 0 only
after both, a crash only between units.

**ChainErrors** has the taxonomy and the backoff curve; **Retry** is `withRetry`
over `withTimeout`, the way `read` and `submitSigned` combine them, on a
discrete clock whose timers may be late by `Jitter`. An operation that was
abandoned by a timeout stays in `op` and may settle in a later attempt.
**HealthMonitor** has the monitor and the two probe handlers. **WorkerHealth**
composes the three into a worker that does unit after unit and may wedge, whose
units, when they resolve, may record any status, the way the package's README
records `await doWork()`, and whose wall clock may be set once (`skew`), ahead
or back, while timers go on as before.

**CachedProbe** is `createCachedProbe` (its `inFlight` is `refreshing` here) with
several probes calling at once and a wall clock that is set back and ahead; the history variables keep the true age
of an answer and by how much the clock was set back since.

**PapiChain** is the connection, over either transport. `StatusChanged(c)` may
happen for every client ever made. `disconnect()` is two actions around
`destroy()`, in which the handlers of the client's subscribers may call
`client()`, `api()` and `disconnect()` again, to any depth (`tearing`);
`inside` is a history variable with the clients made there. Two things are
assumed of polkadot-api: a second `destroy()` of a dying client has no effect,
and a provider reports no status before `createClient()` has returned, so an
`onStatusChanged` that calls the chain from within `client()` is not modelled.
**SubmitUnsigned** is the promise executor, its observer and its timer; the
observable may emit in `subscribe()`, and after the event that decided the
outcome as long as it is not unsubscribed. **ChainBoundary** composes them:
submissions run over the client of their time and outlive it.

**EntityCache** has tasks that are the async calls a handler has under way at
once, over a store that answers one query at a time, in order. Methods for lists
of entities do for each what the single ones do and are not modelled apart;
`count` and `flush` change no state. **EntityUpdates** has the helpers on top
of it: each task is a call that loads a row by hit or by query, skips or makes
what is missing, mutates and saves. `includes` is a history variable that says
which calls' mutations a version of the row carries, `overlap` one that says
whether a call was ever made while another's load of the row was under way, or
sent a query for it before the other sent its save. In behaviours of their own,
without calls of the helpers, the tasks in `Free` use the cache in any way.

**AccountHelpers** is `getOrCreateAccount`, over rows that are committed or
rolled back with their batch. **EventRouter** is `processEvents` over batches of
blocks of items. **BatchProcessor** composes them: while the router awaits a
handler, the handler decodes its event and has calls of `getOrCreateAccount`
under way; a handler that fails, or a restart, rolls the batch back. The squid
first configures its processor (`Configure`: the range, the subscriptions,
whether `indexInBlock` was requested) or refuses to (`ConfigureThrows`); a
handler derives the meta of its event, which may not parse, and upserts a row
under the id that **ChainCoord** makes of it. An id is a sequence of numbers and
words, as `chainCoordTransform` splits it.

**ObjectGraph** has the values that loggers and JSON helpers walk over: plain
records, arrays, instances of classes with fields of their own, instances with a
`toJSON` (a `Date`) and bigints, shared and cyclic. **Logger** is a line from the
call to the write: the level, the bindings of children, `redact()` with one
step for every entry of the object on top of its stack, and `JSON.stringify`,
which alone enters the instances that `redact()` passes on untouched (`Passed`)
and writes, or throws on, what it finds in them. **JsonPayload** is
`truncateJsonPayload`, one step for every call of its replacer.

**Scale** lays out compact integers, words and byte strings, with the number of
bits of a byte as a constant: the modes and their limits follow from it, so a
small byte exercises all of them. **TokenAmount** parses and shows amounts as
sequences of digits. **AccountUtils** converts the text of an account, told by
its form, its key, its network and the blanks around it.

**GitHooks** is a commit: `Install` puts hooks in place, `CommitBegins` is git
calling them, then come the steps of `runPreCommit`, each of which may fail or
not start, and `runCommitMsg`. `Restaged` is what `git update-index --again`
stages. Edits and `git add` may come at any time, between two steps too; an edit
makes a content that is formatted or not and sound (passes lint and typecheck)
or not.

**FragmentDocument** is the work list of `assembleDocument`, for any query and
any registry. A spread has a form: `plain`; `misread`, one that GraphQL accepts and
`FRAGMENT_SPREAD` takes for another name or does not see (`...Name@include`,
`... Name`); or in a `comment`, which GraphQL skips and the expression reads.
`References`, on the side of the properties, is GraphQL's reading, `SpreadName` the
code's.

**PaginatedResource** is a component that calls `usePaginatedResource` with a
fetcher as the README writes it. The connection has a `totalCount` or none. SWR
and the server are external.

**Powers** is `**` on whole numbers, written as a recursive function because the
provers know nothing of `^`. `Numeral`, `ValueOf`, `Along` and `WithoutCommas` are
recursive functions for the same reason: proofs can be carried out about them.

The `MC*` modules give constants values that a configuration cannot write; where
numbers and model values do, the module itself is run (`EntityCache`,
`ChainBoundary`, `AccountUtils`) and the comment in its `.cfg` gives the bounds.
Three of them put modules side by side that share no state, so that one run has
the state space of each and not their product: `MCService` the
process and the cached probe, `MCGraphqlClient` the assembly and the pages,
`MCValues` the conversions. The `*Proofs`
modules hold the theorems: `ServiceRuntimeProofs`, `HealthProofs`,
`EntityCacheProofs`, `ChainBoundaryProofs`, `BatchProcessorProofs`,
`WebToolingProofs` (the GraphQL client and the git hooks), `ValueProofs`, and
`PowerProofs` for the lemmas on induction, recursion and powers.

## 4. What the runs check

`tlc -config <cfg> <module>` in this directory repeats any of them.

| run | question | instance | distinct states |
|---|---|---|---|
| `service` | do ticks overlap, does `stop()` drain and return, who can kill the process, does the loop go on, the right exit code, an end in time, and does the whole implement the lifecycle; of the cached probe: single flight, freshness, every probe answered | 2 signals, 2 callers of `stop()`, 4 promise names, with and without a server and a timeout; 2 probes, ttl 1, clock to 4, set by up to 2 | 169 thousand |
| `worker_health` | are retries and outcomes as the policy says, does the liveness window fit, also when the clock is set, how old is the success that readiness tells of | 4 policies (0 to 3 attempts), clock to 18, set by 1 | 7.7 million |
| `entity_cache` | does the cache agree with the rows, do the helpers lose updates | 3 calls of helpers, 2 tasks that do as they like, 1 row, 5 instances, 4 versions | 557 thousand |
| `entity_cache_concurrent_reads` | does a read ever replace the instance another caller holds (it does: section 6) | 2 tasks, 1 row, 4 instances, 2 versions | violation |
| `chain_boundary` | status, leaks, the typed API, outcomes and ends of submissions | 2 clients, 2 submissions, both transports, disconnects nested in `destroy()` | 496 thousand |
| `chain_boundary_nested_disconnect` | is every client gone after `disconnect()` (it is not: section 6) | 2 clients | violation |
| `batch_processor` | first and last block of an account, one row per event under its coordinates, accumulators, undecodable events | every batch of 2+1 items over 7 kinds, 3 batches, 2 calls at once, 5 configurations | 1.1 million |
| `git_hooks` | is what is committed what was checked, and what was staged | 2 files, 3 edits | 258 thousand |
| `graphql_client` | the collected fragments against the least closed set, termination; the page shown, `empty`, loading | every registry over 3 names, up to 2 spreads each, some misread or in a comment; 3 pages of 2 rows, with a total count and without, 3 moves of the environment | 1.2 million |
| `graphql_client_unread_spreads` | is every fragment that GraphQL sees referenced collected (it is not: section 6) | as `graphql_client` | violation |
| `values` | is a line the redacted copy of its fields, is a payload's verdict right, does the chain read back what was encoded, is an amount shown the amount typed | every graph of 2 objects below the root, 3 policies; bytes of 4 bits; up to 7 digits | 1.3 million |
| `account_conversions` | is what `isAccountPK` accepts converted (it is not: section 6) | 2 keys, 2 networks, up to 2 blanks | violation |

**Why the bounds are enough.**

* `ServiceRuntime`: a caller of `stop()` pins at most one promise and `inFlight`
  one more, so `|Caller| + 2` names never make the loop wait for a name. Two
  callers are the drain and a tick. Nothing depends on which signal came; the
  second one is ignored.
* `WorkerHealth`: with 3 attempts the largest policy sleeps twice, for different
  times; the window of 7 is the smallest that exceeds the longest gap of 6, so
  an off-by-one in `maxBackoffDelayMs` shows. `MaxNow` leaves room for two
  units, the second of the longest kind, and for a window that lapses. A setting
  of the clock by one already breaks the properties that do not allow for it.
* `CachedProbe`: two probes make a burst; an answer expires, and is prolonged
  by a clock set back twice, before `MaxClock`.
* `EntityCache`: keys are independent, so one row suffices; races on the map are
  between two calls. Three calls of the helpers let one fill the cache while a
  second one's load is under way and a third comes. `MaxVersion` bounds how
  often the handlers mutate. The theorems of section 5 have none of these bounds.
* `ChainBoundary`: client names are used once, so two make one reconnect.
  `MaxGeneration` of 5 allows two connects and three disconnects, so one nested
  in another and one after both.
* `BatchProcessor`: a batch has a full block, a boundary and an item after it;
  three batches allow a rollback between two commits. Accounts are independent,
  so there is one.
* `GitHooks`: with two files one is staged and the other is not; three edits
  make a file staged in part and an edit while the hook runs.
* `FragmentDocument`: three names make self loops, cycles through others and
  diamonds; the theorem of section 5 lifts the bound.
* `PaginatedResource`: one page more than the rows can fill; the last page full
  or not. `MaxOps` bounds turns, refetches and changes on the server.
* `Logger`, `JsonPayload`: two objects below the root make self loops, cycles
  of two and three, diamonds and shared branches, under sensitive names and
  others; the budgets lie around the totals these graphs have. The theorems of
  section 5 lift the bounds of this run, for all four modules.
* `Scale`: with 4 bits the modes end at 4, 64 and 16384 and the largest length
  prefix is reached below 2^28; every number to 300 and the neighbours of every
  power of two are encoded. `TokenAmount`: scales 0 to 2 and the first invalid
  ones; up to 3 fraction digits, so one too many; 7 digits take two separators.

**Deadlock** is checked in every run but the two of `ChainBoundary`: there a connection
nobody uses, with all client names used up and all submissions settled, is at
rest. Where a system legitimately ends, an explicit stuttering action (`Exited`,
`Ended`, `TimeUp`, `UpdatesOver`, ...) says when. (`account_conversions` stops
after a conversion that throws.)

**Fairness**, and what justifies it:

| spec | assumed | because |
|---|---|---|
| `ServiceRuntime` | timers and promise jobs run, an empty event loop is left, the drain's own code goes on; **nothing of ticks or `app.close()`**: that they settle is a hypothesis of `KeepsScheduling`, `StopTerminates` and the second half of `SignalEndsProcess` | the event loop; the timeout exists for what hangs |
| `CachedProbe` | the check settles | the code puts no timeout on it; without the assumption probes wait for ever |
| `ChainBoundary` | a job that began goes on, a due timer fires (strongly: `disconnect()` of another job disables it for a moment, again and again); **nothing of the chain** | the event loop |
| `FragmentDocument` | a synchronous loop goes on | |
| `PaginatedResource` | requests settle, React runs effects | browsers give up on dead connections |

`WorkerHealth` has no fairness: its bounds are stated on the clock
(`NoFalseRestart`, `WedgeDetected`), whose urgency condition (`TimePasses`)
lets no timer of a running worker be later than `Jitter`.

## 5. What is proved

The theorems hold for every value of the constants that satisfies the named
`ASSUME`s, and are about the same definitions that TLC checks. The assumptions
say that `None`, `Undefined` and `Malformed` are none of the values they stand
apart from, that bounds, sizes and times are naturals, that batches are arrays
of arrays, and what the schemas of the source say of the values they admit
(`ConfigsAssumption`, `ItemsAssumption`). `PolicyAssumption` says that one of
the policies allows the most attempts. Four bound the inputs of the conversions:
`GraphAssumption` (finitely many objects, field names without repetition, and
objects that are not one of the markers), `LogAssumption` (JavaScript can recurse
through a path that enters no object twice, `MaxStack > Cardinality(Obj)`),
`WidthAssumption` (a compact integer, and the length of a byte string, are below
the limit of the big-integer mode, 2^536 in the code, which does not check it)
and `AmountAssumption` (digits are digits, and the largest amount has at most
`MaxDigits` of them). TLC evaluates all of them in the runs.

An invariant that a run checks is seldom one that every step preserves. The
strengthening that is, with the type invariant in it, was checked by TLC on the
run's instance before it was proved; it is not listed in the configurations.
Each is named here with the reason it is needed.

**Service** (`ServiceRuntimeProofs`)

* `NeverReentered`, `StopDrains`: `NoOverlap` speaks of ticks whose own code may
  run; a step that fires a tick could break it unless every unfinished tick
  holds the guard. `GuardInv` says that: whatever tick is not over is the one
  `inFlight` holds, and `running` is set. For `Drained` that is too weak:
  `DrainInv` adds that once anyone called `stop()` the loop is `stopped`, so
  `inFlight` never changes again, and that every caller from outside a tick
  awaits just that promise.
* `RejectedTickSurvived`: only an `onError` that throws, in a tick that no
  `stop()` awaits, can end the process.
* `ExitCodeTells`, `OneDrain`: the exit code is read off `race`, so
  `ShutdownInv` says what each value of `race` implies about the drain and the
  timer, and that nothing has happened before the first signal.
* `ServiceKeepsParts`: every step of the wiring is a step or a stutter of the
  tick loop and of the shutdown, so all of the above holds in the process that
  has both.
* `ServiceImplementsLifecycle`: the refinement of `ServiceLifecycle`, action by
  action. `RuntimeInv` ties where the drain is to what the loop does: past
  `loop.stop()` no tick is active (that is `DrainInv`), and the server leaves
  `listening` only then.

**Probes** (`HealthProofs`)

* `ChecksCollapse`, `AnswersExpire`: `ProbeInv` relates `checkedAt`, which is a
  reading of a clock that is set, to the true age of the answer and to how far
  the clock was set back since.

**Retries and health** (`HealthProofs`)

* `RetriesOnlyRetryable`, `SettlesAsLastAttempt`: `RetryInv` says that every
  attempt before the present one ended with a retryable error, and that no
  attempt beyond the policy was begun; what an abandoned operation does later
  changes neither.
* `NeverRestartedFalsely`, `WedgesAreDetected`: `MarkInv`
  bounds how long ago the last progress mark can be in every phase of a worker
  that runs. That `maxBackoffDelayMs` bounds every sleep of a policy is a lemma
  (`BackoffBound`) over the laws of powers.
* `ReadinessIsRecent`: `/readyz` has no window of its own; it answers what the
  last unit recorded, for as long as the next one takes. `ReadyInv` says that
  such a status was recorded right after an operation that succeeded, and
  `UnitIsBounded` how late each phase of the next unit can be, attempt by attempt,
  counted from the end of the last one. So a ready worker that runs succeeded no
  longer ago than a rest and the longest unit of its policy take (`ReadyLag`). A
  worker that wedged stays ready until liveness restarts it, hence `Runs`.

**Entity cache** (`EntityCacheProofs`)

* `CacheStaysCoherent`: a read that was answered is stale if a write comes
  between the store's answer and the continuation. `CacheInv` says why it is
  not: the store answers in the order of the line, a task is in the line once,
  and what an answer carries is the row's version until a later write in the
  line is answered.
* `NoUpdateLost`: as long as no call came beside another's load of the row, all
  that hold the row hold one instance, which has every mutation made
  (`OneInstance`); what is being saved includes what was saved before it in the
  line (`Lineage`); a load is alone with its row and sees every save under way
  (`LoadsAlone`); and no version has the mutation of a call that made none
  (`Included`). The first attempt at this proof failed for a
  third call that comes while a second one's load is under way and the first
  has filled the cache: `overlap` has to count a hit beside a load, which two
  calls do not show. The run has three since.

**Chain boundary** (`ChainBoundaryProofs`)

* `StaleStatusDropped`, `ForwardedIsCurrent`, `ReconnectLeaksNothing`,
  `ApiIsLive`: `ChainInv` is the argument for the generation counter: no
  captured generation exceeds the present one, and only the current client,
  outside `destroy()`, captured the present one, or a client that was made
  inside `destroy()`. So the guard of the callback admits these only. A nested
  `disconnect()` and the `client()` after it do make a live client that the outer
  one forgets (section 6): the theorems say that this is the *only* way to lose
  one or to hear of one, at any depth of nesting, and that the smoldot workers
  are terminated even then.
* `FirstEventDecides`: `SubmitInv` ties the flag, the promise, the timer and the
  subscription together: a settled submission may be open only inside
  `subscribe()`, where `subscription` is not assigned yet, and the last line of
  the executor closes that gap.
* `BoundaryImplementsConnection`, `BoundaryLeaksNoSubmission`,
  `SubmissionsReachLiveClient`: every step of the composition is a step or a
  stutter of `PapiChain`, so the theorems about the connection carry over; the
  submission's invariant is preserved by the composed steps; a submission
  outside `destroy()` is handed to a client that `ChainInv` shows live.

**Squid** (`BatchProcessorProofs`)

* `HandlersLinkOwnBlock`: what the accumulator holds is of the block the walk is
  in, and behind it (`AccumulatorInv`).
* `CommittedIsDecoded`: no event behind the walk was left undecoded
  (`DecodedInv`); at the end of a batch all of it is behind the walk.
* `RowsSpanSightings`: every instance of an account that a call holds or the
  cache keeps has the first block of the sightings and no later last block than
  the present one (`InstanceInv`), so whichever of two racing calls upserts
  last writes the right span. It needs that heights only grow, over commits and
  rollbacks (`HeightInv`).
* `EventsHaveOneRow`: the rows are those of the events behind the walk, each
  under its own id (`RowsInv`). That an upsert never meets a row of another
  event is `RowIdsDiffer`: the block's number and the count of the events before
  it tell two events apart, whatever their extrinsics and suffixes. That ids
  parse back, in their family only, is `ParsesBack`.

**Git hooks** (`WebToolingProofs`)

* `CommitsAreChecked`, `CommitsWhatWasStaged`: `HookInv` says, for every file
  nobody touched since the hook began, what the working tree and the index have
  of it before each step.

**GraphQL client** (`WebToolingProofs`)

* `AssemblesReachable`: `Reachable` is the least set that contains what the
  query and its members reference, by GraphQL's reading; `ReadReachable` the same by
  the code's. `DocInv` says that what is collected is read-reachable, and that a
  document whose names are not all collected is on the stack or being scanned;
  with an empty stack the collected set is closed under what is read. The two
  readings differ only at misread spreads and in comments: without the first the
  collected set is closed under the references too, hence contains the least
  set; without the second nothing was collected that GraphQL does not reach.
* `ShownIsPageAsked`: `PageInv` says that a key's request and data are of the
  key's own page, and that a page on the screen is being fetched, has data or
  has an error. The rest is arithmetic: the rows after a page's cursor are those
  of the page (`CursorIsPage`), and `Math.ceil` counts the pages that have a row
  (`PagesOfRows`), for every page size; without a total count the number of pages
  is unknown and the rest the same.

**Values** (`ValueProofs`, over the lemmas of `PowerProofs`)

* `LineRedacted`: `redact` is a recursion, modelled by its stack. `LogInv` says
  that the frames are the objects of one path that enters none twice, that `seen`
  holds just these, that no sensitive name is on the path, and that the copy has
  the entry of every path the walk is past (`Behind`) and no other, down to the
  instances of classes, which it does not enter (`InCopy`). What is below
  those (`Raw`) comes in when the copy is written: a path is below an entry of
  the copy that is an instance exactly when it is shown and goes through one
  (`BelowPassedIs`; the first instance on it, `LeastNumber`, is the entry). The lemmas
  on `Behind` are the argument: going on to the next entry, entering an object
  and leaving one move the frontier by the subtree below one entry, by nothing,
  and by the object itself (`Advances`, `Enters`, `Leaves`). A path that enters
  no object twice has at most one frame per object (`FramesFew`), so the stack
  suffices.
* `PayloadJudged`: `JsonInv` says of the same walk that `accumulated` is the sum
  over what the replacer has met, and that nothing met was a bigint or closed a
  cycle. What is met only grows and a sum over more is not less (`SumGrows`), so
  the early stop is right: the total exceeds the budget as soon as a part does.
* `EncodedReadsBack`: for every width of a byte, the four modes partition the
  numbers, what a mode takes fits its bytes, and the bytes of `v` sum up to `v`
  modulo their range (`ReadsLittleEndian`, by induction over the bytes with
  `DivMod`). A heartbeat's parts are found by the lengths of those before.
* `AmountsRoundTrip`: the digits of a number, as `toString()` yields them, make
  the number (`DigitsOfIs`); padding in front changes no number and padding at
  the end multiplies it (`PadStart`, `PadEnd`); `TrimZeros` takes off what
  `padEnd` puts back (`TrimZerosIs`); and the separators drop out
  (`SeparatorsDropped`).

These four are inductions over data: over the length of a path, the set of paths
met, the bytes, the digits. The induction theorems of the library take an
operator as a parameter, which no installed prover instantiates; `Induction` of
`PowerProofs` takes a *set* instead, and follows from the well-foundedness of
`<` (`LeastNat`). A recursive function is a `CHOOSE`, so each lemma about one
first constructs a function with its equations (`FollowsExists`, `SumExists`).

**Only model-checked**: the liveness properties (`SignalEndsProcess`,
`KeepsScheduling`, `StopTerminates`, `ProbeAnswered`, `SubmitSettles`,
`Assembles`, `LoadingEnds`), as temporal reasoning under
fairness is beyond the prover. Every other property of a passing run is a
theorem.

## 6. What the models show about the code

**Four disagreements** between what a comment or a README says and what the code
does, each with a run that has the trace. `entityCache.ts` says that later reads
of an id within a batch return the cached instance, "the same object the caller may have
mutated". `get` looks at the map, awaits the store and then sets the map
without looking again. Two reads that miss at the same time each make an
instance; the later continuation replaces the one the first caller may already
have mutated. Run `entity_cache_concurrent_reads` has the trace. `CacheCoherent`
holds nevertheless: what is cached agrees with the row, the first caller's
changes are simply not in it until they are written.

`convertToAddress` promises to normalise "an address-or-public-key to an SS58
address". `isAccountPK` trims before it matches, and `convertToPublicKeyIfNeeded`
and `convertToPublicKeyBytes` trim what they return; `convertToAddress` hands the
text on as it came, and `fromHex` counts a blank as a digit: with one blank it
throws. Run `account_conversions` has the trace.

`disconnect()` is to "tear down the client, its subscriptions, and the smoldot
instance", idempotently. It sets `#client` to undefined *after* `destroy()`,
whatever it holds by then. If code that `destroy()` runs calls `disconnect()` and
then `client()`, the outer call forgets the new client, which stays live, holds the
current generation and goes on reporting its status. Run
`chain_boundary_nested_disconnect` has the trace.

`assembleDocument` promises "the definitions of every fragment it references,
transitively". `FRAGMENT_SPREAD` takes everything up to a blank, a comma, a brace or
a parenthesis for the name: `...Name@include(if: $x)` is looked up as another
name, and `... Name` is not seen, though GraphQL reads both as spreads of `Name`.
Run `graphql_client_unread_spreads` has the trace.

**Observations**, each visible in the state space of a passing run and written
into the property as an exception:

* `stop()` called in the synchronous prefix of a tick awaits the *previous* tick,
  as `inFlight` is assigned after `runTick()` returns: it resolves while the
  tick that called it goes on (`scheduler.ts`; `Drained` excludes the callers in
  `inside`). A tick whose prefix stops the loop in `start()` leaves an
  interval set that never fires a tick.
* An `onError` that throws makes the promise in `inFlight` reject; without a
  `stop()` that awaits it, Node ends the process (`ProcessSurvives` says when).
* The shutdown timeout is unref'd: if the drain releases the last handle and is
  still pending, the process leaves with 0 before the timeout (`ExitCodes`).
* `withTimeout` and `withRetry` leave an unknown error as a plain `Error`, and
  a policy of no attempts rejects with one (`OutcomeIsLastAttempts`).
* A `check` that throws before it returns a promise rejects the probe
  (`CallThrows` in `CachedProbe`), while one that rejects counts as `false`.
* A subscriber that calls `api()` while `destroy()` runs leaves a typed API over
  the dead client, or over one it made there, behind `disconnect()`
  (`ApiOverLiveClient` excludes it with `reentered`).
* A unit that resolves is not thereby a healthy one: what it returns is recorded,
  and a worker that succeeds unit after unit may be unready throughout
  (`ReadyIsRecent` speaks of the ready ones).
* An exception in the executor of `submitUnsigned` rejects the promise and
  leaves the timer armed, to fire into a settled promise.
* A spread in a comment of a query counts as one: the document then has a fragment
  that nothing uses, which servers that validate refuse (`CollectsReachable`
  excludes it with `Without("comment")`).
* `pre-commit` stages *every* file that differs from HEAD after formatting, not
  only those Biome rewrote: of a file staged in part (`git add -p`), the rest is
  committed too (`CommitsStaged` says so). A staged file that was deleted from
  the working tree makes the re-stage step fail.
* The comment above `PASSTHROUGH_PREFIXES` names WIP subjects among those that
  skip the check; the list does not have them (`runCommitMsg`).
* `response.json()` is outside the `try` of `fetchGraphql`: a body that is no
  JSON rejects with an error that is not one of the package's, which the hooks
  treat as fatal and hand to the error boundary (`BodyFails`), though `errors.ts`
  says that "every error this package throws extends `NonFatalError`".
* `start()` after a `stop()` sets the interval again but never ticks. In a worker
  without a server a tick that stops the loop leaves nothing to keep the process
  alive: it ends with 0.
* Two calls of `getOrCreateAndUpdate` or `withEntity` whose loads of one row are
  under way at once work on two instances: the later save drops what the earlier
  one changed. So may a call that hits what a third one cached while the load of
  the second is still under way. `UpdatesKept` excludes both with `overlap`: a
  hit beside no load, or a load sent after the others' saves, loses nothing.
* A clock set back keeps a probe's answer for that much longer, and a wedged
  worker alive; one set ahead can restart a worker that is fine. The properties
  say by how much.
* A bigint among logged fields makes the log call itself throw
  (with `redactKeys: []` a cycle does too).
* Redaction ends at instances of classes: `redact()` passes them on untouched and
  `JSON.stringify` enters them. A field of one is written as it is, whatever
  its name, and one that leads back to itself makes the log call throw, where the
  logger's README says that "accidental reference cycles render as `[circular]`".
  `LineIsRedactedCopy` says that nothing else is written in the clear (`Raw`) and
  that no other value makes the call throw (`Fatal`).
* The estimate of `truncateJsonPayload` counts 10 for every value that is no
  string, and nothing for keys: "pessimistic" holds for short numbers only.
* `chainCoordTransform` accepts leading zeros in a number, so several texts
  parse as one coordinate; ids made by `chainCoordIdMake` have one form.
* What `formatTokenAmount` shows from a thousand on, `parseTokenAmount` refuses
  for its separators (`AmountRoundTrip` removes them first). `"1.50"` is refused
  for a token of one decimal.
* `convertToAddress` returns a text that is not a public key as it is, valid or
  not, with the network prefix it came with.

## 7. Plan

Order: the processes that run unattended first (done), then the indexer's data
path and the proofs for it, then the pure conversions.

1. **Done**: the modules of section 3; the theorems of section 5.
2. **Extend the model**: what section 1 lists as not modelled has neither state
   nor control of its own; new components of the repository come first.
3. **Prove**: no safety property of a run is left. The liveness properties wait
   for a prover that handles fairness; a step towards them is a measure that each
   fair action lowers, stated as an action property.
