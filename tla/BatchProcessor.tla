--------------------------- MODULE BatchProcessor ---------------------------
(***************************************************************************)
(* A squid of packages/indexer/squid-common at work: it is configured from *)
(* the environment (config.ts, processor.ts), then the processor hands     *)
(* batch after batch to the router, whose handlers decode their event with *)
(* decodeEvent, sight accounts with getOrCreateAccount and upsert a row    *)
(* under the event's chain coordinates.                                    *)
(*                                                                         *)
(* External: a batch that returns is committed with its height; one that   *)
(* rejects, or whose process ends, is rolled back, and the blocks after    *)
(* the committed height are taken again, on what may be another fork.      *)
(***************************************************************************)
EXTENDS EventRouter, AccountHelpers, ChainCoord, Integers

CONSTANTS
  Configs,   \* [from, to, events, calls, indexed]: BLOCK_FROM, BLOCK_TO or None,
             \* what is subscribed, whether indexInBlock is requested
  Suffix     \* event name -> the suffix of its rows' ids

\* The schemas of BLOCK_FROM, BLOCK_TO and of an extrinsic's index.
ASSUME ConfigsAssumption == \A c \in Configs : c.from \in Nat /\ c.to \in Nat \cup {None}
ASSUME ItemsAssumption ==
  /\ \A b \in Batches : \A k \in DOMAIN b : \A j \in DOMAIN b[k] :
       b[k][j].extrinsic \in Nat \cup {None}
  /\ \A name \in Plain \cup Tracked : Suffix[name] \in Seq(Word)

VARIABLES
  config,    \* the configuration in use; None before and when refused
  height,    \* the committed height
  rows       \* the rows upserted in this batch: id -> the item's place

batchVars == <<routerVars, accountVars, config, height, rows>>

BatchInit ==
  RouterInit /\ AccountInit /\ config = None /\ height = 0 /\ rows = <<>>

\* The number of the block the router is at.
BlockNumber == height + bi

\* ensureValidBlockRange
ValidRange(c) == c.to # None => c.from <= c.to

\* parseProcessorEnv and the guard of createSubstrateProcessor throw.
Refused(c) == ~ValidRange(c) \/ (c.events = {} /\ c.calls = {})

\* createSubstrateProcessor: the squid starts at the bottom of its range.
Configure(c) ==
  /\ config = None /\ ~Refused(c)
  /\ config' = c /\ height' = c.from - 1
  /\ UNCHANGED <<routerVars, accountVars, rows>>
ConfigureThrows(c) == config = None /\ Refused(c) /\ UNCHANGED batchVars

\* Fault: the event's index is its extrinsic's.
extractEventMetaExtrinsic(b, k) == Coord(height + b, blocks[b][k].extrinsic, blocks[b][k].extrinsic)

\* extractEventMeta: the coordinates of an item; an event outside an extrinsic
\* takes 0.  indexInBlock counts the block's events.
extractEventMeta(b, k) ==
  Coord(height + b,
        IF blocks[b][k].extrinsic = None THEN 0 ELSE blocks[b][k].extrinsic,
        Cardinality({j \in 1 .. k - 1 : blocks[b][j].kind = "event"}))

RowId(b, k) == chainCoordIdMake(extractEventMeta(b, k), Suffix[blocks[b][k].name])

-----------------------------------------------------------------------------
\* Fault: without a match the newest version typegen knows is taken.
decodeEventFallsBack(item) == IF item.isV = {} THEN 30 ELSE Max(item.isV)

\* decodeEvent: the newest signature version whose isVxx holds, 0 when it
\* throws because typegen knows none that does.
decodeEvent(item) == IF item.isV = {} THEN 0 ELSE Max(item.isV)

\* EventMetaSchema accepts the event: its indexInBlock was requested.
ValidMeta == config.indexed

\* The handler's event is decoded and its coordinates extracted; the noop does
\* neither.
Decoded == Item.name \in Unhandled \/ (decodeEvent(Item) # 0 /\ ValidMeta)

\* processEvents(ctx) is called with the blocks after the committed height,
\* within the configured range.
Begins ==
  /\ config # None /\ Start
  /\ config.to # None => height + Len(blocks') <= config.to
  /\ rows' = <<>>
  /\ UNCHANGED <<accountVars, config, height>>

Walks ==
  /\ NextBlock \/ SkipCall \/ SkipDrift \/ Dispatch
  /\ UNCHANGED <<accountVars, config, height, rows>>

\* The handler of an override, past decodeEvent, calls getOrCreateAccount.
Sights(c, i) ==
  /\ phase = "running" /\ Item.name \notin Unhandled /\ Decoded
  /\ CallHits(c, i, BlockNumber) \/ CallMisses(c, i)
  /\ UNCHANGED <<routerVars, config, height, rows>>

\* A call goes on.
SightingGoesOn(c) ==
  /\ Loaded(c, BlockNumber) \/ Upserted(c, BlockNumber)
  /\ UNCHANGED <<routerVars, config, height, rows>>

\* store.upsert of the event's row.
Upserts ==
  IF Item.name \in Unhandled THEN rows
  ELSE [id \in DOMAIN rows \cup {RowId(bi, ii)} |->
          IF id = RowId(bi, ii) THEN <<bi, ii>> ELSE rows[id]]

\* The handler has awaited its calls, upserted its row, and resolves.
HandlerDone ==
  /\ phase = "running" /\ AllIdle /\ Decoded
  /\ \E result \in BOOLEAN : HandlerResolves(result)
  /\ rows' = Upserts
  /\ UNCHANGED <<accountVars, config, height>>

\* decodeEvent or extractEventMeta throws, or the handler or the Store fails.
BatchFails ==
  /\ HandlerRejects
  /\ Item.name \notin Unhandled
  /\ RowsRolledBack
  /\ rows' = <<>>
  /\ UNCHANGED <<config, height>>

\* processEvents returns and the batch is committed.
BatchCommits ==
  /\ Returns
  /\ RowsCommitted
  /\ height' = height + Len(blocks)
  /\ UNCHANGED <<config, rows>>

\* The process ends in the middle of a batch and is started again.
Restarts ==
  /\ phase # "idle"
  /\ phase' = "idle" /\ logged' = <<>>
  /\ RowsRolledBack /\ rows' = <<>>
  /\ UNCHANGED <<blocks, bi, ii, blockState, drifted, ran, saw, done, config, height>>

\* The bound, or the end of the range, is reached.
Exhausted ==
  /\ phase = "idle" /\ config # None
  /\ done = MaxBatches \/ (config.to # None /\ height >= config.to)
  /\ UNCHANGED batchVars

BatchNext ==
  \/ \E c \in Configs : Configure(c) \/ ConfigureThrows(c)
  \/ Begins \/ Walks \/ HandlerDone \/ BatchFails \/ BatchCommits \/ Restarts \/ Exhausted
  \/ \E c \in Call : SightingGoesOn(c) \/ \E i \in Id : Sights(c, i)

BatchSpec == BatchInit /\ [][BatchNext]_batchVars

-----------------------------------------------------------------------------
\* A runtime upgrade that typegen does not know stops the squid and is never
\* passed over: no block is committed with an event, of a name that has an
\* override, that decodeEvent could not decode.
CommitsDecoded ==
  [][height' # height =>
       \A b \in DOMAIN blocks : \A k \in DOMAIN blocks[b] :
         LET item == blocks[b][k]
         IN item.kind = "event" /\ item.name \in Plain \cup Tracked => item.isV # {}
    ]_batchVars

\* The events of the batch with an override, whose handlers upsert a row.
RowEvents ==
  UNION {{<<b, k>> : k \in {j \in DOMAIN blocks[b] :
             blocks[b][j].kind = "event" /\ blocks[b][j].name \in Plain \cup Tracked}} :
         b \in DOMAIN blocks}

\* "Every event-derived entity is keyed by" its coordinates: a batch about to be
\* committed upserted one row for every event with an override, none twice and
\* none left out, under an id that parses back, in the event's family only, to
\* a block above the committed height and within the range.
OneRowPerEvent ==
  phase = "walking" /\ bi > Len(blocks) =>
    /\ Range(rows) = RowEvents /\ Cardinality(DOMAIN rows) = Cardinality(RowEvents)
    /\ \A id \in DOMAIN rows :
         LET name == blocks[rows[id][1]][rows[id][2]].name
             coord == parse(id, Suffix[name])
         IN /\ coord # Malformed /\ coord.blockNumber > height
            /\ config.to # None => coord.blockNumber <= config.to
            /\ \A other \in Plain \cup Tracked :
                 Suffix[other] # Suffix[name] => parse(id, Suffix[other]) = Malformed
-----------------------------------------------------------------------------
\* The walk has passed the item.
Behind(b, k) == b < bi \/ (b = bi /\ k < ii)

\* No event with an override is behind the walk that could not be decoded.
DecodedInv ==
  \A b \in DOMAIN blocks : \A k \in DOMAIN blocks[b] :
    LET item == blocks[b][k]
    IN /\ Behind(b, k) /\ item.kind = "event" /\ item.name \in Plain \cup Tracked
       => item.isV # {}

\* Sightings are of blocks up to the present one, committed ones of blocks up to
\* the committed height; between two batches there are no others.
HeightInv ==
  /\ height \in Int
  /\ config = None => blocks = <<>> /\ phase = "idle" /\ \A i \in Id : savedSight[i] = {}
  /\ \A i \in Id : \A n \in savedSight[i] : n <= height
  /\ \A i \in Id : \A n \in sighted[i] : n <= height + Len(blocks)
  /\ phase # "running" => AllIdle
  /\ phase = "idle" => cache = CacheOfNewCtx /\ row = saved /\ sighted = savedSight

BatchInv == RouterInv /\ DecodedInv /\ AccountInv(BlockNumber) /\ HeightInv

\* A handler runs for a subscribed event.
RunningInv ==
  phase = "running" =>
    ii <= Len(blocks[bi]) /\ Item.kind = "event" /\ Item.name \in Subscribed

\* The batch under way is within the range.
RangeInv ==
  /\ height \in Int /\ height >= -1 /\ config \in Configs \cup {None}
  /\ phase # "idle" => /\ blocks \in Batches /\ config # None
                       /\ config.to # None => height + Len(blocks) <= config.to

\* The rows are those of the events behind the walk, each under its own id.
RowsInv ==
  phase # "idle" =>
    /\ IsFiniteSet(DOMAIN rows) /\ rows = [id \in DOMAIN rows |-> rows[id]]
    /\ \A id \in DOMAIN rows : /\ rows[id] \in RowEvents /\ Behind(rows[id][1], rows[id][2])
                              /\ id = RowId(rows[id][1], rows[id][2])
    /\ \A e \in RowEvents : Behind(e[1], e[2]) => e \in Range(rows)

IdInv == RunningInv /\ RangeInv /\ RowsInv
=============================================================================
