----------------------------- MODULE EventRouter -----------------------------
(***************************************************************************)
(* createEventRouter of packages/indexer/squid-common/src/router.ts:       *)
(* processEvents walks the blocks of a batch and awaits one handler at a   *)
(* time.  A batch is a sequence of blocks, a block a sequence of items.    *)
(* The handlers are the squid's (external): one may fail, which rejects    *)
(* processEvents; the processor then hands over another batch to the same  *)
(* router, whose set of logged names outlives batches.                     *)
(***************************************************************************)
EXTENDS Naturals, Sequences, FiniteSets, SequencesExt

CONSTANTS
  Batches,       \* the batches the processor may hand over
  Plain,         \* subscribed names with a `plain` override
  Tracked,       \* subscribed names with a `tracked` override
  Unhandled,     \* subscribed names without an override
  LogLimit,      \* notHandledLogLimit
  MaxBatches     \* bound of the batches processed

ASSUME RouterAssumption ==
  /\ LogLimit \in Nat /\ MaxBatches \in Nat
  /\ Plain \cap Tracked = {} /\ Unhandled \cap (Plain \cup Tracked) = {}

\* A batch is an array of blocks, a block an array of items.
IsArray(s) == Len(s) \in Nat /\ DOMAIN s = 1 .. Len(s)

ASSUME BatchesAssumption == \A b \in Batches : IsArray(b) /\ \A k \in DOMAIN b : IsArray(b[k])

VARIABLES
  blocks,      \* ctx.blocks
  bi, ii,      \* the block and the item the loops are at
  phase,       \* "idle", "walking", "running" (a handler is awaited)
  blockState,  \* the accumulator of the current block: names of the results
  logged,      \* loggedUnhandled, in the order it was filled
  drifted,     \* history: unsubscribed names reported in this batch
  ran,         \* history: <<block, item>> of the handlers run in this batch
  saw,         \* history: the accumulator each of them found
  done         \* history: batches started

routerVars == <<blocks, bi, ii, phase, blockState, logged, drifted, ran, saw, done>>

\* ALL_EVENTS
Subscribed == Plain \cup Tracked \cup Unhandled

\* tryParseEventName finds the name among the subscribed ones.
Parses(name) == name \in Subscribed

RouterInit ==
  /\ blocks = <<>> /\ bi = 1 /\ ii = 1 /\ phase = "idle"
  /\ blockState = {} /\ logged = <<>> /\ drifted = {}
  /\ ran = <<>> /\ saw = <<>> /\ done = 0

Item == blocks[bi][ii]
Walking == phase = "walking" /\ bi <= Len(blocks)

-----------------------------------------------------------------------------
\* processEvents is called with a batch; makeBlockState for its first block.
Start ==
  /\ phase = "idle" /\ done < MaxBatches
  /\ \E b \in Batches : blocks' = b
  /\ bi' = 1 /\ ii' = 1 /\ phase' = "walking" /\ blockState' = {}
  /\ drifted' = {} /\ ran' = <<>> /\ saw' = <<>> /\ done' = done + 1
  /\ UNCHANGED logged

\* Fault: the accumulator lives as long as the batch.
BlockStateKept == blockState

\* makeBlockState
NewBlockState == {}

\* The items of the block are done: the next block gets an accumulator of its own.
NextBlock ==
  /\ Walking /\ ii > Len(blocks[bi])
  /\ bi' = bi + 1 /\ ii' = 1
  /\ blockState' = NewBlockState
  /\ UNCHANGED <<blocks, phase, logged, drifted, ran, saw, done>>

\* An item that is no event is skipped.
SkipCall ==
  /\ Walking /\ ii <= Len(blocks[bi]) /\ Item.kind # "event"
  /\ ii' = ii + 1
  /\ UNCHANGED <<blocks, bi, phase, blockState, logged, drifted, ran, saw, done>>

\* tryParseEventName knows no such event: reported, and the walk goes on.
SkipDrift ==
  /\ Walking /\ ii <= Len(blocks[bi])
  /\ Item.kind = "event" /\ ~Parses(Item.name)
  /\ drifted' = drifted \cup {Item.name}
  /\ ii' = ii + 1
  /\ UNCHANGED <<blocks, bi, phase, blockState, logged, ran, saw, done>>

\* The guard of noop.
Logs(name) == name \notin ToSet(logged) /\ Len(logged) < LogLimit

\* A handler is called: an override, or the noop that logs the name once.
Dispatch ==
  /\ Walking /\ ii <= Len(blocks[bi])
  /\ Item.kind = "event" /\ Parses(Item.name)
  /\ phase' = "running"
  /\ ran' = Append(ran, <<bi, ii>>)
  /\ saw' = Append(saw, blockState)
  /\ logged' = IF Item.name \in Unhandled /\ Logs(Item.name)
               THEN Append(logged, Item.name) ELSE logged
  /\ UNCHANGED <<blocks, bi, ii, blockState, drifted, done>>

\* The handler resolves; a tracked one's non-null result goes to onResult.
HandlerResolves(result) ==
  /\ phase = "running"
  /\ result => Item.name \in Tracked
  /\ blockState' = IF result THEN blockState \cup {<<bi, ii>>} ELSE blockState
  /\ phase' = "walking" /\ ii' = ii + 1
  /\ UNCHANGED <<blocks, bi, logged, drifted, ran, saw, done>>

\* The handler rejects and so does processEvents.
HandlerRejects ==
  /\ phase = "running"
  /\ phase' = "idle"
  /\ UNCHANGED <<blocks, bi, ii, blockState, logged, drifted, ran, saw, done>>

\* Every block is done.
Returns ==
  /\ phase = "walking" /\ bi > Len(blocks)
  /\ phase' = "idle"
  /\ UNCHANGED <<blocks, bi, ii, blockState, logged, drifted, ran, saw, done>>

-----------------------------------------------------------------------------
\* In-extrinsic linking stays in its block: a handler finds in the accumulator
\* results of earlier tracked events of its own block, never of another one.
LinksOwnBlock ==
  \A k \in DOMAIN ran : \A r \in saw[k] :
    /\ r[1] = ran[k][1] /\ r[2] < ran[k][2]
    /\ blocks[r[1]][r[2]].name \in Tracked
-----------------------------------------------------------------------------
\* Where the walk is, and what the histories of a batch record.
WalkInv ==
  /\ bi \in Nat \ {0} /\ ii \in Nat \ {0} /\ phase \in {"idle", "walking", "running"}
  /\ IsArray(blocks) /\ \A k \in DOMAIN blocks : IsArray(blocks[k])
  /\ ran \in Seq(Nat \X Nat) /\ saw \in Seq(SUBSET (Nat \X Nat)) /\ Len(ran) = Len(saw)
  /\ bi <= Len(blocks) + 1
  /\ phase = "running" => bi <= Len(blocks)

\* What the accumulator holds is of the block the walk is in, and behind it.
AccumulatorInv ==
  /\ blockState \in SUBSET (Nat \X Nat)
  /\ \A r \in blockState : r[1] = bi /\ r[2] < ii /\ blocks[bi][r[2]].name \in Tracked

RouterInv == WalkInv /\ AccumulatorInv /\ LinksOwnBlock
=============================================================================
