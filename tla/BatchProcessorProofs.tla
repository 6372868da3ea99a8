------------------------ MODULE BatchProcessorProofs ------------------------
(***************************************************************************)
(* Theorems about a squid at work: for batches of any number of blocks and *)
(* items, any number of accounts, of calls under way and of batches, with  *)
(* batches rolled back and processes restarted at any moment.              *)
(***************************************************************************)
EXTENDS BatchProcessor, FiniteSetTheorems, SequenceTheorems, TLAPS

\* What Append does to a history.
LEMMA Appended ==
  ASSUME NEW S, NEW s \in Seq(S), NEW e \in S
  PROVE  /\ Append(s, e) \in Seq(S) /\ Len(Append(s, e)) = Len(s) + 1 /\ Len(s) \in Nat
         /\ DOMAIN s = 1 .. Len(s) /\ DOMAIN Append(s, e) = 1 .. Len(s) + 1
         /\ \A a \in DOMAIN s : Append(s, e)[a] = s[a]
         /\ Append(s, e)[Len(s) + 1] = e
OBVIOUS

\* The router's part of a step.
RouterStep ==
  \/ Start \/ NextBlock \/ SkipCall \/ SkipDrift \/ Dispatch \/ HandlerRejects \/ Returns
  \/ \E result \in BOOLEAN : HandlerResolves(result)
  \/ phase' \in {phase, "idle"} /\ UNCHANGED <<blocks, bi, ii, blockState, ran, saw>>

\* The histories and the accumulator, through the loops of processEvents.
LEMMA RouterKeeps == RouterInv /\ RouterStep => RouterInv'
<1> SUFFICES ASSUME RouterInv, RouterStep PROVE RouterInv'
  OBVIOUS
<1> USE DEF RouterInv
<1>1. CASE Start
  <2>1. PICK b \in Batches : blocks' = b
    BY <1>1 DEF Start
  <2>2. /\ IsArray(blocks') /\ \A k \in DOMAIN blocks' : IsArray(blocks'[k])
    BY <2>1, BatchesAssumption
  <2>3. ran' = <<>> /\ saw' = <<>> /\ blockState' = {} /\ bi' = 1 /\ ii' = 1 /\ phase' = "walking"
    BY <1>1 DEF Start
  <2>4. Len(blocks') \in Nat
    BY <2>2 DEF IsArray
  <2>5. WalkInv'
    BY <2>2, <2>3, <2>4 DEF WalkInv, IsArray
  <2> QED BY <2>3, <2>5 DEF AccumulatorInv, LinksOwnBlock
<1>2. CASE NextBlock
  <2>1. /\ bi' = bi + 1 /\ ii' = 1 /\ blockState' = {} /\ UNCHANGED <<blocks, phase, ran, saw>>
        /\ phase = "walking" /\ bi <= Len(blocks)
    BY <1>2 DEF NextBlock, NewBlockState, Walking
  <2> QED BY <2>1 DEF WalkInv, IsArray, AccumulatorInv, LinksOwnBlock
<1>3. CASE SkipCall \/ SkipDrift
  <2>1. ii' = ii + 1 /\ UNCHANGED <<blocks, bi, phase, blockState, ran, saw>> /\ phase = "walking"
    BY <1>3 DEF SkipCall, SkipDrift, Walking
  <2> QED BY <2>1 DEF WalkInv, IsArray, AccumulatorInv, LinksOwnBlock
<1>4. CASE Dispatch
  <2>1. /\ phase' = "running" /\ ran' = Append(ran, <<bi, ii>>) /\ saw' = Append(saw, blockState)
        /\ UNCHANGED <<blocks, bi, ii, blockState>> /\ bi <= Len(blocks)
    BY <1>4 DEF Dispatch, Walking
  <2>2. /\ ran \in Seq(Nat \X Nat) /\ <<bi, ii>> \in Nat \X Nat
        /\ saw \in Seq(SUBSET (Nat \X Nat)) /\ blockState \in SUBSET (Nat \X Nat) /\ Len(ran) = Len(saw)
    BY DEF WalkInv, AccumulatorInv
  <2>3. /\ ran' \in Seq(Nat \X Nat) /\ Len(ran') = Len(ran) + 1 /\ Len(ran) \in Nat
        /\ DOMAIN ran = 1 .. Len(ran) /\ DOMAIN ran' = 1 .. Len(ran) + 1
        /\ \A a \in DOMAIN ran : ran'[a] = ran[a]
        /\ ran'[Len(ran) + 1] = <<bi, ii>>
    BY <2>1, <2>2, Appended
  <2>4. /\ saw' \in Seq(SUBSET (Nat \X Nat)) /\ Len(saw') = Len(saw) + 1
        /\ DOMAIN saw = 1 .. Len(saw)
        /\ \A a \in DOMAIN saw : saw'[a] = saw[a]
        /\ saw'[Len(saw) + 1] = blockState
    BY <2>1, <2>2, Appended
  <2>5. WalkInv'
    BY <2>1, <2>2, <2>3, <2>4 DEF WalkInv, IsArray
  <2>6. ASSUME NEW k \in DOMAIN ran', NEW r \in saw'[k]
        PROVE  r[1] = ran'[k][1] /\ r[2] < ran'[k][2] /\ blocks[r[1]][r[2]].name \in Tracked
    <3>1. CASE k \in DOMAIN ran
      BY <2>2, <2>3, <2>4, <2>6, <3>1 DEF LinksOwnBlock
    <3>2. CASE k = Len(ran) + 1
      BY <2>2, <2>3, <2>4, <2>6, <3>2 DEF AccumulatorInv
    <3> QED BY <2>3, <3>1, <3>2
  <2> QED BY <2>1, <2>5, <2>6 DEF AccumulatorInv, LinksOwnBlock
<1>5. ASSUME NEW result \in BOOLEAN, HandlerResolves(result) PROVE RouterInv'
  <2>1. /\ phase' = "walking" /\ ii' = ii + 1 /\ UNCHANGED <<blocks, bi, ran, saw>>
        /\ blockState' = blockState \/ (blockState' = blockState \cup {<<bi, ii>>} /\ blocks[bi][ii].name \in Tracked)
    BY <1>5 DEF HandlerResolves, Item
  <2>2. WalkInv'
    BY <2>1 DEF WalkInv, IsArray
  <2>3. AccumulatorInv'
    <3>1. <<bi, ii>> \in Nat \X Nat /\ bi \in Nat /\ ii \in Nat
      BY DEF WalkInv
    <3>2. \A r \in blockState : r[1] = bi /\ r[2] < ii + 1 /\ blocks[bi][r[2]].name \in Tracked
      BY <3>1 DEF AccumulatorInv
    <3> QED BY <2>1, <3>1, <3>2 DEF AccumulatorInv
  <2> QED BY <2>1, <2>2, <2>3 DEF LinksOwnBlock
<1>6. CASE phase' \in {phase, "idle"} /\ UNCHANGED <<blocks, bi, ii, blockState, ran, saw>>
  BY <1>6 DEF WalkInv, IsArray, AccumulatorInv, LinksOwnBlock
<1>7. CASE HandlerRejects \/ Returns
  BY <1>6, <1>7 DEF HandlerRejects, Returns
<1> QED BY <1>1, <1>2, <1>3, <1>4, <1>5, <1>6, <1>7 DEF RouterStep

\* Every step of the squid is one of the router's, or leaves its walk alone.
LEMMA StepOfRouter == [BatchNext]_batchVars => RouterStep
<1> SUFFICES ASSUME [BatchNext]_batchVars PROVE RouterStep
  OBVIOUS
<1> USE DEF RouterStep
<1>1. ASSUME NEW c \in Configs, Configure(c) \/ ConfigureThrows(c) PROVE RouterStep
  BY <1>1 DEF Configure, ConfigureThrows, batchVars, routerVars
<1>2. CASE Begins \/ Walks \/ HandlerDone \/ BatchFails \/ BatchCommits
  BY <1>2 DEF Begins, Walks, HandlerDone, BatchFails, BatchCommits
<1>3. CASE Restarts \/ Exhausted \/ UNCHANGED batchVars
  BY <1>3 DEF Restarts, Exhausted, batchVars, routerVars
<1>4. ASSUME NEW c \in Call, SightingGoesOn(c) PROVE RouterStep
  BY <1>4 DEF SightingGoesOn, routerVars
<1>5. ASSUME NEW c \in Call, NEW i \in Id, Sights(c, i) PROVE RouterStep
  BY <1>5 DEF Sights, routerVars
<1> QED BY <1>1, <1>2, <1>3, <1>4, <1>5 DEF BatchNext

\* Nothing was walked through yet.
LEMMA InitBatch == BatchInit => RouterInv /\ DecodedInv
<1> SUFFICES ASSUME BatchInit PROVE RouterInv /\ DecodedInv
  OBVIOUS
<1>1. /\ blocks = <<>> /\ bi = 1 /\ ii = 1 /\ phase = "idle" /\ blockState = {} /\ ran = <<>> /\ saw = <<>>
  BY DEF BatchInit, RouterInit
<1> QED BY <1>1 DEF RouterInv, WalkInv, IsArray, AccumulatorInv, LinksOwnBlock, DecodedInv

LEMMA RouterInvariant == BatchSpec => []RouterInv
BY InitBatch, StepOfRouter, RouterKeeps, PTL DEF BatchSpec

\* router.ts, the accumulator of makeBlockState: a handler finds in it results
\* of earlier tracked events of its own block only, whatever batches, failed
\* or not, came before.
THEOREM HandlersLinkOwnBlock == BatchSpec => []LinksOwnBlock
<1>1. RouterInv => LinksOwnBlock
  BY DEF RouterInv
<1> QED BY RouterInvariant, <1>1, PTL

-----------------------------------------------------------------------------
\* A handler that is done has decoded its event.
LEMMA DecodedKeeps ==
  ASSUME RouterInv, DecodedInv, [BatchNext]_batchVars
  PROVE  DecodedInv'
<1>1. bi \in Nat /\ ii \in Nat /\ IsArray(blocks) /\ \A k \in DOMAIN blocks : IsArray(blocks[k])
  BY DEF RouterInv, WalkInv
<1>2. CASE UNCHANGED <<blocks, bi, ii>>
  BY <1>2 DEF DecodedInv, Behind
<1>3. CASE Begins
  <2>1. bi' = 1 /\ ii' = 1 /\ \E b \in Batches : blocks' = b
    BY <1>3 DEF Begins, Start
  <2>2. IsArray(blocks') /\ \A k \in DOMAIN blocks' : IsArray(blocks'[k])
    BY <2>1, BatchesAssumption
  <2>3. \A b \in DOMAIN blocks' : \A k \in DOMAIN blocks'[b] : ~Behind(b, k)'
    BY <2>1, <2>2 DEF Behind, IsArray
  <2> QED BY <2>3 DEF DecodedInv
<1>4. CASE NextBlock
  <2>1. bi' = bi + 1 /\ ii' = 1 /\ blocks' = blocks /\ ii > Len(blocks[bi])
    BY <1>4 DEF NextBlock
  <2>2. \A b \in DOMAIN blocks : \A k \in DOMAIN blocks[b] : Behind(b, k)' => Behind(b, k)
    BY <1>1, <2>1 DEF Behind, IsArray
  <2> QED BY <2>1, <2>2 DEF DecodedInv
<1>5. ASSUME bi' = bi, ii' = ii + 1, blocks' = blocks,
             ~(Item.kind = "event" /\ Item.name \in Plain \cup Tracked) \/ Item.isV # {}
      PROVE  DecodedInv'
  <2>1. \A b \in DOMAIN blocks : \A k \in DOMAIN blocks[b] :
          Behind(b, k)' => Behind(b, k) \/ (b = bi /\ k = ii)
    BY <1>1, <1>5 DEF Behind, IsArray
  <2> QED BY <1>5, <2>1 DEF DecodedInv, Item
<1>6. CASE SkipCall \/ SkipDrift
  BY <1>5, <1>6 DEF SkipCall, SkipDrift, Parses, Subscribed
<1>7. CASE HandlerDone
  <2>1. Item.name \in Unhandled \/ Item.isV # {}
    BY <1>7 DEF HandlerDone, Decoded, decodeEvent
  <2>2. bi' = bi /\ ii' = ii + 1 /\ blocks' = blocks
    BY <1>7 DEF HandlerDone, HandlerResolves
  <2> QED BY <1>5, <2>1, <2>2, RouterAssumption
<1>8. CASE Dispatch \/ BatchFails \/ BatchCommits \/ Restarts
  BY <1>2, <1>8 DEF Dispatch, BatchFails, HandlerRejects, BatchCommits, Returns, Restarts
<1>9. CASE UNCHANGED routerVars
  BY <1>2, <1>9 DEF routerVars
<1> QED BY <1>3, <1>4, <1>6, <1>7, <1>8, <1>9 DEF BatchNext, batchVars, Begins, Walks, Configure,
          ConfigureThrows, Exhausted, Sights, SightingGoesOn

\* decodeEvent and the throw behind it: no block is committed with an event, of
\* a name that has an override, that could not be decoded.
THEOREM CommittedIsDecoded == BatchSpec => CommitsDecoded
<1> DEFINE AllDecoded ==
      \A b \in DOMAIN blocks : \A k \in DOMAIN blocks[b] :
        LET item == blocks[b][k]
        IN item.kind = "event" /\ item.name \in Plain \cup Tracked => item.isV # {}
      Unstarted == config = None => blocks = <<>>
<1>1. Unstarted /\ [BatchNext]_batchVars => Unstarted'
  <2> SUFFICES ASSUME Unstarted, [BatchNext]_batchVars PROVE Unstarted'
    OBVIOUS
  <2>1. CASE config' = config /\ (config # None \/ blocks' = blocks)
    BY <2>1
  <2>2. ASSUME NEW c \in Configs, Configure(c) PROVE Unstarted'
    BY <2>2 DEF Configure, routerVars
  <2> QED BY <2>1, <2>2 DEF BatchNext, batchVars, routerVars, ConfigureThrows, Begins, Walks, NextBlock, SkipCall,
            SkipDrift, Dispatch, HandlerDone, HandlerResolves, BatchFails, HandlerRejects, BatchCommits,
            Returns, Restarts, Exhausted, Sights, SightingGoesOn
<1>2. ASSUME RouterInv, DecodedInv, Unstarted, [BatchNext]_batchVars, height' # height PROVE AllDecoded
  <2>1. CASE BatchCommits
    <3>1. bi > Len(blocks) /\ bi \in Nat /\ IsArray(blocks)
      BY <1>2, <2>1 DEF BatchCommits, Returns, RouterInv, WalkInv
    <3>2. \A b \in DOMAIN blocks : \A k \in DOMAIN blocks[b] : Behind(b, k)
      BY <3>1 DEF Behind, IsArray
    <3> QED BY <1>2, <3>2 DEF DecodedInv
  <2>2. ASSUME NEW c \in Configs, Configure(c) PROVE AllDecoded
    <3>1. blocks = <<>>
      BY <1>2, <2>2 DEF Configure
    <3> QED BY <3>1
  <2> QED BY <1>2, <2>1, <2>2 DEF BatchNext, batchVars, ConfigureThrows, Begins, Walks, HandlerDone,
            BatchFails, Restarts, Exhausted, Sights, SightingGoesOn
<1>3. BatchInit => Unstarted
  BY DEF BatchInit, RouterInit
<1>4. BatchInit => DecodedInv
  BY InitBatch
<1>5. RouterInv /\ DecodedInv /\ [BatchNext]_batchVars => DecodedInv'
  BY DecodedKeeps
<1>6. RouterInv /\ DecodedInv /\ Unstarted /\ [BatchNext]_batchVars => [height' # height => AllDecoded]_batchVars
  BY <1>2
<1> HIDE DEF Unstarted
<1> QED BY RouterInvariant, <1>1, <1>3, <1>4, <1>5, <1>6, PTL DEF BatchSpec, CommitsDecoded
-----------------------------------------------------------------------------
\* The first and the last block, where they are known.
LEMMA SpanIsMinMax ==
  ASSUME NEW S \in SUBSET Int, NEW r, Spans(r, S)
  PROVE  IF S = {} THEN r = None ELSE r = [first |-> Min(S), last |-> Max(S)]
<1>1. CASE S = {}
  BY <1>1 DEF Spans
<1>2. CASE S # {}
  <2>1. /\ r \in Account /\ r.first \in S /\ r.last \in S
        /\ \A n \in S : r.first <= n /\ n <= r.last
    BY <1>2 DEF Spans
  <2>2. Min(S) = r.first
    <3>1. Min(S) \in S /\ \A n \in S : Min(S) <= n
      BY <2>1 DEF Min
    <3>2. Min(S) \in Int /\ r.first \in Int /\ Min(S) <= r.first /\ r.first <= Min(S)
      BY <2>1, <3>1
    <3> QED BY <3>2
  <2>3. Max(S) = r.last
    <3>1. Max(S) \in S /\ \A n \in S : Max(S) >= n
      BY <2>1 DEF Max
    <3>2. Max(S) \in Int /\ r.last \in Int /\ Max(S) <= r.last /\ r.last <= Max(S)
      BY <2>1, <3>1
    <3> QED BY <3>2
  <2> QED BY <1>2, <2>1, <2>2, <2>3 DEF Account
<1> QED BY <1>1, <1>2

\* What every step of a call finds.
LEMMA AccountFacts ==
  ASSUME NEW at \in Int, AccountInv(at)
  PROVE  /\ AccountTypeOK /\ OwnerInv /\ InstanceInv(at) /\ SpanInv
         /\ \A i \in Id : \A n \in sighted[i] : n <= at /\ n \in Int
         /\ \A o \in Object : account[o] \in Account
BY DEF AccountInv, AccountTypeOK

\* advance sets the last block to the present one.
LEMMA AdvancedFacts ==
  ASSUME NEW acc \in Account, NEW at \in Int, acc.last <= at
  PROVE  /\ Advanced(acc, at) \in Account /\ Advanced(acc, at).last = at
         /\ Advanced(acc, at).first = acc.first
         /\ acc = Made(at) => Advanced(acc, at) = Made(at)
BY DEF Advanced, Made, Account

LEMMA HitKeeps ==
  ASSUME NEW at \in Int, AccountInv(at), NEW c \in Call, NEW i \in Id, CallHits(c, i, at)
  PROVE  AccountInv(at)'
<1> DEFINE o == cache[i]
<1>1. /\ AccountTypeOK /\ OwnerInv /\ InstanceInv(at) /\ SpanInv
      /\ \A p \in Object : account[p] \in Account
  BY AccountFacts
<1>2. /\ call[c].state = "idle" /\ o \in Object /\ UNCHANGED <<row, saved, cache, sighted, savedSight>>
      /\ account' = [account EXCEPT ![o] = Advanced(account[o], at)]
      /\ call' = [call EXCEPT ![c] = [state |-> "upsert", id |-> i, object |-> o]]
  BY <1>1 DEF CallHits, AccountTypeOK
<1>3. call'[c] = [state |-> "upsert", id |-> i, object |-> o] /\ \A d \in Call : d # c => call'[d] = call[d]
  BY <1>1, <1>2 DEF AccountTypeOK
<1>4. o \in Instances(i) /\ account[o].last <= at
  BY <1>1, <1>2 DEF Instances, InstanceInv
<1>5. /\ account'[o] \in Account /\ account'[o].last = at /\ account'[o].first = account[o].first
      /\ account[o] = Made(at) => account'[o] = Made(at)
      /\ \A p \in Object : p # o => account'[p] = account[p]
  BY <1>1, <1>2, <1>4, AdvancedFacts DEF AccountTypeOK
<1>6. AccountTypeOK'
  BY <1>1, <1>2, <1>5 DEF AccountTypeOK
<1>7. \A j \in Id : Upserting(j)' = Upserting(j) \cup IF j = i THEN {c} ELSE {}
  BY <1>2, <1>3 DEF Upserting
<1>8. \A j \in Id : Instances(j)' \subseteq Instances(j)
  <2> SUFFICES ASSUME NEW j \in Id, NEW p \in Instances(j)' PROVE p \in Instances(j)
    OBVIOUS
  <2>1. CASE p = cache[j]
    BY <2>1 DEF Instances
  <2>2. ASSUME NEW d \in Upserting(j)', call'[d].object = p PROVE p \in Instances(j)
    <3>1. CASE d = c
      BY <1>2, <1>3, <1>7, <2>2, <3>1 DEF Instances, Upserting
    <3>2. CASE d # c
      BY <1>3, <1>7, <2>2, <3>2 DEF Instances, Upserting
    <3> QED BY <3>1, <3>2
  <2> QED BY <1>2, <2>1, <2>2 DEF Instances
<1>9. OwnerInv'
  <2>1. \A j, k \in Id : j # k => Instances(j)' \cap Instances(k)' = {}
    BY <1>1, <1>8 DEF OwnerInv
  <2>2. \A d \in Call : /\ call'[d].state # "idle" => call'[d].id \in Id
                        /\ call'[d].state = "upsert" => call'[d].object \in Object
    BY <1>1, <1>2, <1>3 DEF OwnerInv
  <2> QED BY <2>1, <2>2 DEF OwnerInv
<1>10. ASSUME NEW j \in Id
       PROVE  /\ \A p \in Instances(j)' :
                   /\ account'[p].last <= at
                   /\ sighted'[j] = {} => account'[p] = Made(at)
                   /\ sighted'[j] # {} => account'[p].first \in sighted'[j] /\ \A n \in sighted'[j] : account'[p].first <= n
              /\ \A d \in Upserting(j)' : account'[call'[d].object].last = at
              /\ cache'[j] # None /\ sighted'[j] = {} => Upserting(j)' # {}
  <2>1. \A p \in Instances(j) : p = o => j = i
    BY <1>1, <1>4 DEF OwnerInv
  <2>2. ASSUME NEW p \in Instances(j)'
        PROVE  /\ account'[p].last <= at
               /\ sighted'[j] = {} => account'[p] = Made(at)
               /\ sighted'[j] # {} => account'[p].first \in sighted'[j] /\ \A n \in sighted'[j] : account'[p].first <= n
    <3>1. p \in Instances(j) /\ p \in Object
      BY <1>8, <2>2 DEF Instances
    <3> QED BY <1>1, <1>2, <1>5, <2>1, <3>1 DEF InstanceInv
  <2>3. ASSUME NEW d \in Upserting(j)' PROVE account'[call'[d].object].last = at
    <3>1. CASE d = c
      BY <1>3, <1>5, <3>1
    <3>2. CASE d # c
      <4>1. d \in Upserting(j) /\ call'[d] = call[d] /\ call[d].object \in Object
        BY <1>1, <1>3, <1>7, <2>3, <3>2 DEF OwnerInv, Upserting
      <4> QED BY <1>1, <1>5, <4>1 DEF InstanceInv
    <3> QED BY <3>1, <3>2
  <2>4. cache'[j] # None /\ sighted'[j] = {} => Upserting(j)' # {}
    BY <1>1, <1>2, <1>7 DEF InstanceInv
  <2> QED BY <2>2, <2>3, <2>4
<1>11. InstanceInv(at)'
  BY <1>10 DEF InstanceInv, Made
<1>12. SpanInv' /\ \A j \in Id : \A n \in sighted'[j] : n <= at
  BY <1>1, <1>2, AccountFacts DEF SpanInv
<1> QED BY <1>6, <1>9, <1>11, <1>12 DEF AccountInv

LEMMA MissKeeps ==
  ASSUME NEW at \in Int, AccountInv(at), NEW c \in Call, NEW i \in Id, CallMisses(c, i)
  PROVE  AccountInv(at)'
<1>1. /\ AccountTypeOK /\ OwnerInv /\ InstanceInv(at) /\ SpanInv
  BY AccountFacts
<1>2. /\ call[c].state = "idle" /\ UNCHANGED <<row, saved, cache, account, sighted, savedSight>>
      /\ call' = [call EXCEPT ![c] = [state |-> "get", id |-> i, object |-> None]]
  BY DEF CallMisses
<1>3. call'[c] = [state |-> "get", id |-> i, object |-> None] /\ \A d \in Call : d # c => call'[d] = call[d]
  BY <1>1, <1>2 DEF AccountTypeOK
<1>4. AccountTypeOK'
  BY <1>1, <1>2 DEF AccountTypeOK
<1>5. \A j \in Id : Upserting(j)' = Upserting(j) /\ \A d \in Upserting(j) : call'[d] = call[d]
  BY <1>2, <1>3 DEF Upserting
<1>6. \A j \in Id : Instances(j)' = Instances(j)
  BY <1>2, <1>5 DEF Instances
<1>7. OwnerInv'
  BY <1>1, <1>3, <1>6 DEF OwnerInv
<1>8. InstanceInv(at)'
  BY <1>1, <1>2, <1>5, <1>6 DEF InstanceInv, Made
<1>9. SpanInv' /\ \A j \in Id : \A n \in sighted'[j] : n <= at
  BY <1>1, <1>2, AccountFacts DEF SpanInv
<1> QED BY <1>4, <1>7, <1>8, <1>9 DEF AccountInv
\* store.get answered: the new instance spans what the row spans, or the present
\* block, and goes to the Store with the present one as its last.
LEMMA LoadedKeeps ==
  ASSUME NEW at \in Int, AccountInv(at), NEW c \in Call, Loaded(c, at)
  PROVE  AccountInv(at)'
<1> DEFINE i == call[c].id
           acc == IF row[i] = None THEN Made(at) ELSE row[i]
<1>1. /\ AccountTypeOK /\ OwnerInv /\ InstanceInv(at) /\ SpanInv
      /\ \A j \in Id : \A n \in sighted[j] : n <= at /\ n \in Int
  BY AccountFacts
<1>2. call[c].state = "get" /\ i \in Id /\ UNCHANGED <<row, saved, sighted, savedSight>>
  BY <1>1 DEF Loaded, OwnerInv
<1>3. PICK o \in Object :
        /\ FreshAccount(o)
        /\ account' = [account EXCEPT ![o] = Advanced(acc, at)]
        /\ cache' = [cache EXCEPT ![i] = o]
        /\ call' = [call EXCEPT ![c].state = "upsert", ![c].object = o]
  BY DEF Loaded
<1>4. /\ call'[c].state = "upsert" /\ call'[c].id = i /\ call'[c].object = o
      /\ \A d \in Call : d # c => call'[d] = call[d]
      /\ cache'[i] = o /\ \A j \in Id : j # i => cache'[j] = cache[j]
  BY <1>1, <1>2, <1>3 DEF AccountTypeOK
<1>5. /\ acc \in Account /\ acc.last <= at
      /\ sighted[i] = {} => acc = Made(at)
      /\ sighted[i] # {} => acc.first \in sighted[i] /\ \A n \in sighted[i] : acc.first <= n
  <2>1. Made(at) \in Account /\ Made(at).last = at
    BY DEF Made, Account
  <2>2. Spans(row[i], sighted[i])
    BY <1>1, <1>2 DEF SpanInv
  <2>3. CASE sighted[i] = {}
    BY <2>1, <2>2, <2>3 DEF Spans
  <2>4. CASE sighted[i] # {}
    <3>1. /\ row[i] \in Account /\ row[i].first \in sighted[i] /\ row[i].last \in sighted[i]
          /\ \A n \in sighted[i] : row[i].first <= n
      BY <2>2, <2>4 DEF Spans
    <3>2. row[i] # None
      BY <3>1, NoneAssumption DEF Account
    <3> QED BY <1>1, <1>2, <2>4, <3>1, <3>2
  <2> QED BY <2>3, <2>4
<1>6. /\ account'[o] \in Account /\ account'[o].last = at /\ account'[o].first = acc.first
      /\ acc = Made(at) => account'[o] = Made(at)
      /\ \A p \in Object : p # o => account'[p] = account[p]
  <2>1. account'[o] = Advanced(acc, at) /\ \A p \in Object : p # o => account'[p] = account[p]
    BY <1>1, <1>3 DEF AccountTypeOK
  <2> HIDE DEF acc
  <2> QED BY <1>5, <2>1, AdvancedFacts
<1> HIDE DEF acc
<1>7. AccountTypeOK'
  <2>1. account' \in [Object -> Account]
    BY <1>1, <1>3, <1>6 DEF AccountTypeOK
  <2>2. cache' \in [Id -> Object \cup {None}]
    BY <1>1, <1>3 DEF AccountTypeOK
  <2>3. call' \in [Call -> [state : {"idle", "get", "upsert"}, id : Id \cup {None}, object : Object \cup {None}]]
    BY <1>1, <1>3 DEF AccountTypeOK
  <2> QED BY <1>1, <1>2, <2>1, <2>2, <2>3 DEF AccountTypeOK
<1>8. \A j \in Id : Upserting(j)' = Upserting(j) \cup IF j = i THEN {c} ELSE {}
  BY <1>2, <1>4 DEF Upserting
<1>9. \A j \in Id : o \notin Instances(j)
  BY <1>3 DEF FreshAccount, Instances, Upserting
<1>10. ASSUME NEW j \in Id, NEW p \in Instances(j)' PROVE p \in Instances(j) \/ (p = o /\ j = i)
  <2>1. CASE p = cache'[j]
    BY <1>4, <1>10, <2>1 DEF Instances
  <2>2. ASSUME NEW d \in Upserting(j)', call'[d].object = p PROVE p \in Instances(j) \/ (p = o /\ j = i)
    <3>1. CASE d = c
      BY <1>2, <1>4, <2>2, <3>1 DEF Upserting
    <3>2. CASE d # c
      BY <1>4, <1>8, <1>10, <2>2, <3>2 DEF Instances, Upserting
    <3> QED BY <3>1, <3>2
  <2> QED BY <1>10, <2>1, <2>2 DEF Instances
<1>11. OwnerInv'
  <2>1. \A j, k \in Id : j # k => Instances(j)' \cap Instances(k)' = {}
    BY <1>1, <1>9, <1>10 DEF OwnerInv
  <2>2. \A d \in Call : /\ call'[d].state # "idle" => call'[d].id \in Id
                        /\ call'[d].state = "upsert" => call'[d].object \in Object
    BY <1>1, <1>2, <1>3, <1>4 DEF OwnerInv
  <2> QED BY <2>1, <2>2 DEF OwnerInv
<1>12. ASSUME NEW j \in Id
       PROVE  /\ \A p \in Instances(j)' :
                   /\ account'[p].last <= at
                   /\ sighted'[j] = {} => account'[p] = Made(at)
                   /\ sighted'[j] # {} => account'[p].first \in sighted'[j] /\ \A n \in sighted'[j] : account'[p].first <= n
              /\ \A d \in Upserting(j)' : account'[call'[d].object].last = at
              /\ cache'[j] # None /\ sighted'[j] = {} => Upserting(j)' # {}
  <2>1. ASSUME NEW p \in Instances(j)'
        PROVE  /\ account'[p].last <= at
               /\ sighted'[j] = {} => account'[p] = Made(at)
               /\ sighted'[j] # {} => account'[p].first \in sighted'[j] /\ \A n \in sighted'[j] : account'[p].first <= n
    <3>1. CASE p \in Instances(j)
      <4>1. p # o /\ p \in Object
        BY <1>9, <3>1 DEF Instances
      <4> QED BY <1>1, <1>2, <1>6, <3>1, <4>1 DEF InstanceInv
    <3>2. CASE p = o /\ j = i
      BY <1>2, <1>5, <1>6, <3>2
    <3> QED BY <1>10, <2>1, <3>1, <3>2
  <2>2. ASSUME NEW d \in Upserting(j)' PROVE account'[call'[d].object].last = at
    <3>1. CASE d = c
      BY <1>4, <1>6, <3>1
    <3>2. CASE d # c
      <4>1. d \in Upserting(j) /\ call'[d] = call[d] /\ call[d].object \in Instances(j)
        BY <1>1, <1>4, <1>8, <2>2, <3>2 DEF OwnerInv, Upserting, Instances
      <4>2. call[d].object # o /\ call[d].object \in Object
        BY <1>9, <4>1 DEF Instances
      <4> QED BY <1>1, <1>6, <4>1, <4>2 DEF InstanceInv
    <3> QED BY <3>1, <3>2
  <2>3. cache'[j] # None /\ sighted'[j] = {} => Upserting(j)' # {}
    BY <1>1, <1>2, <1>4, <1>8 DEF InstanceInv
  <2> QED BY <2>1, <2>2, <2>3
<1>13. InstanceInv(at)'
  BY <1>12 DEF InstanceInv, Made
<1>14. SpanInv' /\ \A j \in Id : \A n \in sighted'[j] : n <= at
  BY <1>1, <1>2 DEF SpanInv
<1> QED BY <1>7, <1>11, <1>13, <1>14 DEF AccountInv

\* The upsert is answered: the row spans the earlier blocks and the present one.
LEMMA UpsertedKeeps ==
  ASSUME NEW at \in Int, AccountInv(at), NEW c \in Call, Upserted(c, at)
  PROVE  AccountInv(at)'
<1> DEFINE i == call[c].id
           o == call[c].object
<1>1. /\ AccountTypeOK /\ OwnerInv /\ InstanceInv(at) /\ SpanInv
      /\ \A j \in Id : \A n \in sighted[j] : n <= at /\ n \in Int
      /\ \A p \in Object : account[p] \in Account
  BY AccountFacts
<1>2. /\ call[c].state = "upsert" /\ i \in Id /\ o \in Object /\ UNCHANGED <<saved, cache, account, savedSight>>
      /\ row' = [row EXCEPT ![i] = account[o]] /\ sighted' = [sighted EXCEPT ![i] = @ \cup {at}]
      /\ call' = [call EXCEPT ![c] = NoCall]
  BY <1>1 DEF Upserted, OwnerInv
<1>3. call'[c] = NoCall /\ \A d \in Call : d # c => call'[d] = call[d]
  BY <1>1, <1>2 DEF AccountTypeOK
<1>4. /\ row'[i] = account[o] /\ \A j \in Id : j # i => row'[j] = row[j] /\ sighted'[j] = sighted[j]
      /\ sighted'[i] = sighted[i] \cup {at}
  BY <1>1, <1>2 DEF AccountTypeOK
<1>5. AccountTypeOK'
  BY <1>1, <1>2 DEF AccountTypeOK, NoCall
<1>6. /\ \A j \in Id : Upserting(j)' = Upserting(j) \ {c}
      /\ \A j \in Id : j # i => c \notin Upserting(j)
      /\ c \in Upserting(i)
  BY <1>2, <1>3 DEF Upserting, NoCall
<1>7. \A j \in Id : Instances(j)' \subseteq Instances(j)
  BY <1>2, <1>3, <1>6 DEF Instances
<1>8. o \in Instances(i) /\ account[o].last = at
  BY <1>1, <1>2, <1>6 DEF Instances, InstanceInv
<1>9. OwnerInv'
  <2>1. \A j, k \in Id : j # k => Instances(j)' \cap Instances(k)' = {}
    BY <1>1, <1>7 DEF OwnerInv
  <2>2. \A d \in Call : /\ call'[d].state # "idle" => call'[d].id \in Id
                        /\ call'[d].state = "upsert" => call'[d].object \in Object
    BY <1>1, <1>3 DEF OwnerInv, NoCall
  <2> QED BY <2>1, <2>2 DEF OwnerInv
<1>10. ASSUME NEW p \in Instances(i)
       PROVE  account[p].first \in sighted'[i] /\ \A n \in sighted'[i] : account[p].first <= n
  <2>1. CASE sighted[i] = {}
    <3>1. account[p].first = at
      BY <1>1, <1>2, <1>10, <2>1 DEF InstanceInv, Made
    <3> QED BY <1>4, <2>1, <3>1
  <2>2. CASE sighted[i] # {}
    <3>1. account[p].first \in sighted[i] /\ \A n \in sighted[i] : account[p].first <= n
      BY <1>1, <1>2, <1>10, <2>2 DEF InstanceInv
    <3> QED BY <1>1, <1>2, <1>4, <3>1
  <2> QED BY <2>1, <2>2
<1>11. InstanceInv(at)'
  <2>1. ASSUME NEW j \in Id
        PROVE  /\ \A p \in Instances(j)' :
                    /\ account[p].last <= at
                    /\ sighted'[j] = {} => account[p] = Made(at)
                    /\ sighted'[j] # {} => account[p].first \in sighted'[j] /\ \A n \in sighted'[j] : account[p].first <= n
               /\ \A d \in Upserting(j)' : account[call'[d].object].last = at
               /\ cache[j] # None /\ sighted'[j] = {} => Upserting(j)' # {}
    <3>1. \A d \in Upserting(j)' : d \in Upserting(j) /\ call'[d] = call[d]
      BY <1>3, <1>6 DEF Upserting
    <3>2. CASE j = i
      <4>1. sighted'[j] # {}
        BY <1>4, <3>2
      <4> QED BY <1>1, <1>7, <1>10, <3>1, <3>2, <4>1 DEF InstanceInv
    <3>3. CASE j # i
      BY <1>1, <1>4, <1>6, <1>7, <3>1, <3>3 DEF InstanceInv
    <3> QED BY <3>2, <3>3
  <2> QED BY <1>2, <2>1 DEF InstanceInv, Made
<1>12. \A j \in Id : \A n \in sighted'[j] : n <= at
  BY <1>1, <1>4
<1>13. SpanInv'
  <2>1. Spans(row'[i], sighted'[i])
    <3>1. account[o] \in Account /\ account[o].last \in sighted'[i]
      BY <1>1, <1>2, <1>4, <1>8
    <3>2. account[o].first \in sighted'[i] /\ \A n \in sighted'[i] : account[o].first <= n /\ n <= account[o].last
      BY <1>2, <1>8, <1>10, <1>12
    <3> QED BY <1>4, <3>1, <3>2 DEF Spans
  <2>2. \A j \in Id : j # i => Spans(row'[j], sighted'[j])
    BY <1>1, <1>4 DEF SpanInv
  <2> QED BY <1>1, <1>2, <2>1, <2>2 DEF SpanInv
<1> QED BY <1>5, <1>9, <1>11, <1>12, <1>13 DEF AccountInv

\* With a new ctx and no call under way there is no instance.
LEMMA NoInstances ==
  ASSUME NEW at, AccountTypeOK', cache' = CacheOfNewCtx, AllIdle'
  PROVE  OwnerInv' /\ InstanceInv(at)'
<1>1. \A i \in Id : cache'[i] = None
  BY DEF CacheOfNewCtx
<1>2. \A i \in Id : Upserting(i)' = {}
  BY DEF AllIdle, Upserting
<1>3. \A i \in Id : Instances(i)' = {}
  BY <1>1, <1>2, NoneAssumption DEF Instances
<1> QED BY <1>1, <1>2, <1>3 DEF OwnerInv, InstanceInv, AllIdle
\* A step that leaves the calls and the present block alone.
LEMMA AccountFrame ==
  ASSUME NEW at, AccountInv(at), UNCHANGED accountVars
  PROVE  AccountInv(at)'
BY DEF accountVars, AccountInv, AccountTypeOK, OwnerInv, InstanceInv, SpanInv, Instances, Upserting, Made

\* Between two batches: whatever block comes next, it is above the sightings.
LEMMA BetweenBatches ==
  ASSUME NEW at, AccountTypeOK', SpanInv', cache' = CacheOfNewCtx, AllIdle',
         \A i \in Id : \A n \in sighted'[i] : n <= at
  PROVE  AccountInv(at)'
BY NoInstances DEF AccountInv

LEMMA RollbackKeeps ==
  ASSUME AccountTypeOK, SpanInv, RowsRolledBack
  PROVE  /\ AccountTypeOK' /\ SpanInv' /\ cache' = CacheOfNewCtx /\ AllIdle'
         /\ row' = saved' /\ sighted' = savedSight' /\ savedSight' = savedSight
<1>1. /\ row' = saved /\ sighted' = savedSight /\ cache' = CacheOfNewCtx
      /\ call' = [c \in Call |-> NoCall] /\ UNCHANGED <<saved, account, savedSight>>
  BY DEF RowsRolledBack
<1>2. AccountTypeOK'
  BY <1>1 DEF AccountTypeOK, CacheOfNewCtx, NoCall
<1> QED BY <1>1, <1>2 DEF SpanInv, AllIdle, NoCall

LEMMA CommitKeeps ==
  ASSUME AccountTypeOK, SpanInv, RowsCommitted
  PROVE  /\ AccountTypeOK' /\ SpanInv' /\ cache' = CacheOfNewCtx /\ AllIdle'
         /\ row' = saved' /\ sighted' = savedSight' /\ savedSight' = sighted
<1>1. /\ AllIdle /\ saved' = row /\ savedSight' = sighted /\ cache' = CacheOfNewCtx
      /\ UNCHANGED <<row, account, call, sighted>>
  BY DEF RowsCommitted
<1>2. AccountTypeOK'
  BY <1>1 DEF AccountTypeOK, CacheOfNewCtx
<1> QED BY <1>1, <1>2 DEF SpanInv, AllIdle

LEMMA InitSightings == BatchInit => AccountInv(BlockNumber) /\ HeightInv
<1> SUFFICES ASSUME BatchInit PROVE AccountInv(BlockNumber) /\ HeightInv
  OBVIOUS
<1>1. /\ row = [i \in Id |-> None] /\ saved = row /\ cache = [i \in Id |-> None]
      /\ account = [o \in Object |-> [first |-> 0, last |-> 0]] /\ call = [c \in Call |-> NoCall]
      /\ sighted = [i \in Id |-> {}] /\ savedSight = sighted
      /\ config = None /\ height = 0 /\ blocks = <<>> /\ phase = "idle"
  BY DEF BatchInit, RouterInit, AccountInit
<1>2. AccountTypeOK
  BY <1>1 DEF AccountTypeOK, Account, NoCall
<1>3. AllIdle /\ cache = CacheOfNewCtx
  BY <1>1 DEF AllIdle, NoCall, CacheOfNewCtx
<1>4. \A i \in Id : Upserting(i) = {} /\ Instances(i) = {} /\ cache[i] = None /\ sighted[i] = {} /\ savedSight[i] = {}
  BY <1>1, <1>3, NoneAssumption DEF Upserting, Instances, AllIdle
<1>5. OwnerInv /\ InstanceInv(BlockNumber) /\ SpanInv
  BY <1>1, <1>3, <1>4 DEF OwnerInv, InstanceInv, SpanInv, Spans, AllIdle
<1>6. AccountInv(BlockNumber)
  BY <1>2, <1>4, <1>5 DEF AccountInv
<1>7. HeightInv
  BY <1>1, <1>3, <1>4 DEF HeightInv
<1> QED BY <1>6, <1>7

\* The walk goes to the next block with no call under way: every cached instance
\* has been sighted by then.
LEMMA NextBlockKeeps ==
  ASSUME NEW at \in Int, AccountInv(at), AllIdle, UNCHANGED accountVars
  PROVE  AccountInv(at + 1)'
<1>1. /\ AccountTypeOK /\ OwnerInv /\ InstanceInv(at) /\ SpanInv
      /\ \A i \in Id : \A n \in sighted[i] : n <= at /\ n \in Int
      /\ \A o \in Object : account[o] \in Account
  BY AccountFacts
<1>2. AccountInv(at)'
  BY AccountFrame
<1>3. \A i \in Id : Upserting(i) = {} /\ (sighted[i] = {} => Instances(i) = {})
  <2>1. \A i \in Id : Upserting(i) = {}
    BY DEF AllIdle, Upserting
  <2>2. \A i \in Id : sighted[i] = {} => cache[i] = None
    BY <1>1, <2>1 DEF InstanceInv
  <2> QED BY <2>1, <2>2, NoneAssumption DEF Instances
<1>4. \A i \in Id : /\ Upserting(i)' = Upserting(i) /\ Instances(i)' = Instances(i)
                    /\ sighted'[i] = sighted[i] /\ cache'[i] = cache[i]
  BY DEF accountVars, Upserting, Instances
<1>5. ASSUME NEW i \in Id, NEW o \in Instances(i)
      PROVE  /\ account'[o].last <= at + 1 /\ sighted'[i] # {}
             /\ account'[o].first \in sighted'[i] /\ \A n \in sighted'[i] : account'[o].first <= n
  <2>1. o \in Object /\ account' = account /\ account[o].last \in Int
    BY <1>1, <1>5 DEF Instances, accountVars, Account
  <2> QED BY <1>1, <1>3, <1>4, <1>5, <2>1 DEF InstanceInv
<1>6. \A i \in Id : cache'[i] # None /\ sighted'[i] = {} => Upserting(i)' # {}
  BY <1>1, <1>4 DEF InstanceInv
<1>7. InstanceInv(at + 1)'
  BY <1>3, <1>4, <1>5, <1>6 DEF InstanceInv, Made
<1>8. \A i \in Id : \A n \in sighted'[i] : n <= at + 1
  BY <1>1, <1>4
<1> QED BY <1>2, <1>7, <1>8 DEF AccountInv

LEMMA SightingsKeep ==
  ASSUME BatchInv, [BatchNext]_batchVars
  PROVE  AccountInv(BlockNumber)' /\ HeightInv'
<1>1. RouterInv /\ WalkInv /\ AccountInv(BlockNumber) /\ HeightInv /\ AccountTypeOK /\ SpanInv
  BY DEF BatchInv, RouterInv, AccountInv
<1>2. /\ height \in Int /\ bi \in Nat /\ Len(blocks) \in Nat /\ IsArray(blocks)
      /\ BlockNumber \in Int
  BY <1>1 DEF HeightInv, WalkInv, IsArray, BlockNumber
<1>3. PICK at \in Int : at = BlockNumber
  BY <1>2
<1>4. AccountInv(at) /\ \A i \in Id : \A n \in sighted[i] : n \in Int
  BY <1>1, <1>3 DEF AccountInv, InstanceInv, Made, AccountTypeOK
<1>5. ASSUME AccountInv(at)', UNCHANGED <<height, bi>> PROVE AccountInv(BlockNumber)'
  <2>1. at = BlockNumber'
    BY <1>3, <1>5 DEF BlockNumber
  <2> QED BY <1>5, <2>1 DEF AccountInv, InstanceInv, Made
<1>6. ASSUME AccountTypeOK', SpanInv', cache' = CacheOfNewCtx, AllIdle', BlockNumber' \in Int,
             \A i \in Id : \A n \in sighted'[i] : n <= BlockNumber'
      PROVE  AccountInv(BlockNumber)'
  <2>1. PICK next \in Int : next = BlockNumber'
    BY <1>6
  <2>2. AccountInv(next)'
    BY <1>6, <2>1, BetweenBatches
  <2> QED BY <2>1, <2>2 DEF AccountInv, InstanceInv, Made
<1>7. ASSUME NEW c \in Configs, Configure(c) PROVE AccountInv(BlockNumber)' /\ HeightInv'
  <2>1. /\ config = None /\ height' = c.from - 1 /\ c.from \in Int
        /\ UNCHANGED <<blocks, bi, phase, row, saved, cache, account, call, sighted, savedSight>>
    BY <1>7, ConfigsAssumption DEF Configure, routerVars, accountVars
  <2>2. /\ blocks = <<>> /\ phase = "idle" /\ AllIdle /\ cache = CacheOfNewCtx
        /\ \A i \in Id : sighted[i] = {} /\ savedSight[i] = {}
    BY <1>1, <2>1 DEF HeightInv
  <2>3. AccountTypeOK' /\ SpanInv' /\ cache' = CacheOfNewCtx /\ AllIdle' /\ BlockNumber' \in Int
    BY <1>1, <1>2, <2>1, <2>2 DEF AccountTypeOK, SpanInv, CacheOfNewCtx, AllIdle, BlockNumber
  <2>4. AccountInv(BlockNumber)'
    BY <1>6, <2>1, <2>2, <2>3
  <2>5. HeightInv'
    BY <1>1, <2>1, <2>2, <2>3 DEF HeightInv, CacheOfNewCtx
  <2> QED BY <2>4, <2>5
<1>8. CASE UNCHANGED batchVars
  <2>1. UNCHANGED accountVars /\ UNCHANGED <<height, bi, blocks, phase, config>>
    BY <1>8 DEF batchVars, routerVars
  <2>2. AccountInv(BlockNumber)'
    BY <1>4, <1>5, <2>1, AccountFrame
  <2>3. HeightInv'
    BY <1>1, <2>1 DEF HeightInv, accountVars, AllIdle, CacheOfNewCtx
  <2> QED BY <2>2, <2>3
<1>9. CASE Begins
  <2>1. /\ config # None /\ phase = "idle" /\ bi' = 1 /\ phase' = "walking"
        /\ UNCHANGED <<config, height, row, saved, cache, account, call, sighted, savedSight>>
        /\ \E b \in Batches : blocks' = b
    BY <1>9 DEF Begins, Start, accountVars
  <2>2. Len(blocks') \in Nat
    BY <2>1, BatchesAssumption DEF IsArray
  <2>3. AllIdle /\ cache = CacheOfNewCtx /\ sighted = savedSight /\ \A i \in Id : \A n \in sighted[i] : n <= height
    BY <1>1, <2>1 DEF HeightInv
  <2>4. AccountTypeOK' /\ SpanInv' /\ cache' = CacheOfNewCtx /\ AllIdle' /\ BlockNumber' \in Int
    BY <1>1, <1>2, <2>1, <2>3 DEF AccountTypeOK, SpanInv, CacheOfNewCtx, AllIdle, BlockNumber
  <2>5. \A i \in Id : \A n \in sighted'[i] : n <= BlockNumber' /\ n <= height' + Len(blocks')
    BY <1>2, <1>4, <2>1, <2>2, <2>3 DEF BlockNumber
  <2>6. AccountInv(BlockNumber)'
    BY <1>6, <2>4, <2>5
  <2>7. HeightInv'
    BY <1>1, <2>1, <2>4, <2>5 DEF HeightInv
  <2> QED BY <2>6, <2>7
<1>10. CASE NextBlock /\ UNCHANGED <<accountVars, config, height, rows>>
  <2>1. /\ bi' = bi + 1 /\ phase = "walking" /\ UNCHANGED <<blocks, phase, config, height>> /\ UNCHANGED accountVars
    BY <1>10 DEF NextBlock, Walking
  <2>2. AccountInv(at + 1)'
    BY <1>1, <1>4, <2>1, NextBlockKeeps DEF HeightInv
  <2>3. at + 1 = BlockNumber'
    BY <1>2, <1>3, <2>1 DEF BlockNumber
  <2>4. AccountInv(BlockNumber)'
    BY <2>2, <2>3 DEF AccountInv, InstanceInv, Made
  <2>5. HeightInv'
    BY <1>1, <2>1 DEF HeightInv, accountVars, AllIdle, CacheOfNewCtx
  <2> QED BY <2>4, <2>5
<1>11. CASE (SkipCall \/ SkipDrift \/ Dispatch) /\ UNCHANGED <<accountVars, config, height, rows>>
  <2>1. /\ UNCHANGED <<blocks, bi, config, height>> /\ UNCHANGED accountVars
        /\ phase = "walking" /\ phase' \in {"walking", "running"}
    BY <1>11 DEF SkipCall, SkipDrift, Dispatch, Walking
  <2>2. AccountInv(BlockNumber)'
    BY <1>4, <1>5, <2>1, AccountFrame
  <2>3. HeightInv'
    BY <1>1, <2>1 DEF HeightInv, accountVars, AllIdle, CacheOfNewCtx
  <2> QED BY <2>2, <2>3
<1>12. ASSUME NEW c \in Call, NEW i \in Id, Sights(c, i) PROVE AccountInv(BlockNumber)' /\ HeightInv'
  <2>1. /\ phase = "running" /\ UNCHANGED <<blocks, bi, phase, config, height>>
        /\ CallHits(c, i, at) \/ CallMisses(c, i)
    BY <1>3, <1>12 DEF Sights, routerVars
  <2>2. UNCHANGED <<sighted, savedSight>>
    BY <2>1 DEF CallHits, CallMisses
  <2>3. AccountInv(BlockNumber)'
    BY <1>4, <1>5, <2>1, HitKeeps, MissKeeps
  <2>4. HeightInv'
    BY <1>1, <2>1, <2>2 DEF HeightInv
  <2> QED BY <2>3, <2>4
<1>13. ASSUME NEW c \in Call, SightingGoesOn(c) PROVE AccountInv(BlockNumber)' /\ HeightInv'
  <2>1. /\ UNCHANGED <<blocks, bi, phase, config, height>>
        /\ Loaded(c, at) \/ Upserted(c, at)
    BY <1>3, <1>13 DEF SightingGoesOn, routerVars
  <2>2. phase = "running"
    BY <1>1, <2>1 DEF HeightInv, AllIdle, Loaded, Upserted
  <2>3. AccountInv(BlockNumber)'
    BY <1>4, <1>5, <2>1, LoadedKeeps, UpsertedKeeps
  <2>4. savedSight' = savedSight /\ \A i \in Id : sighted'[i] \subseteq sighted[i] \cup {at}
    BY <1>1, <2>1 DEF Loaded, Upserted, AccountTypeOK
  <2>5. at <= height + Len(blocks)
    BY <1>1, <1>2, <1>3, <2>2 DEF BlockNumber, WalkInv
  <2>6. HeightInv'
    BY <1>1, <2>1, <2>2, <2>4, <2>5 DEF HeightInv
  <2> QED BY <2>3, <2>6
<1>14. CASE HandlerDone
  <2>1. /\ AllIdle /\ UNCHANGED accountVars /\ UNCHANGED <<blocks, bi, config, height>>
        /\ phase = "running" /\ phase' = "walking"
    BY <1>14 DEF HandlerDone, HandlerResolves
  <2>2. AccountInv(BlockNumber)'
    BY <1>4, <1>5, <2>1, AccountFrame
  <2>3. HeightInv'
    BY <1>1, <2>1 DEF HeightInv, accountVars, AllIdle, CacheOfNewCtx
  <2> QED BY <2>2, <2>3
<1>15. CASE BatchFails \/ Restarts
  <2>1. /\ RowsRolledBack /\ phase # "idle" /\ phase' = "idle" /\ UNCHANGED <<blocks, bi, config, height>>
    BY <1>15 DEF BatchFails, HandlerRejects, Restarts
  <2>2. /\ AccountTypeOK' /\ SpanInv' /\ cache' = CacheOfNewCtx /\ AllIdle'
        /\ row' = saved' /\ sighted' = savedSight' /\ savedSight' = savedSight
    BY <1>1, <2>1, RollbackKeeps
  <2>3. \A i \in Id : \A n \in sighted'[i] : n \in Int /\ n <= height
    BY <1>1, <2>2 DEF HeightInv, AccountTypeOK
  <2>4. \A i \in Id : \A n \in sighted'[i] : n <= BlockNumber' /\ n <= height' + Len(blocks')
    BY <1>2, <2>1, <2>3 DEF BlockNumber
  <2>5. AccountInv(BlockNumber)'
    BY <1>2, <1>6, <2>1, <2>2, <2>4 DEF BlockNumber
  <2>6. config # None
    BY <1>1, <2>1 DEF HeightInv
  <2>7. HeightInv'
    BY <1>1, <2>1, <2>2, <2>3, <2>4, <2>6 DEF HeightInv, CacheOfNewCtx
  <2> QED BY <2>5, <2>7
<1>16. CASE BatchCommits
  <2>1. /\ RowsCommitted /\ phase # "idle" /\ phase' = "idle" /\ UNCHANGED <<blocks, bi, config>>
        /\ height' = height + Len(blocks)
    BY <1>16 DEF BatchCommits, Returns
  <2>2. /\ AccountTypeOK' /\ SpanInv' /\ cache' = CacheOfNewCtx /\ AllIdle'
        /\ row' = saved' /\ sighted' = savedSight' /\ savedSight' = sighted
    BY <1>1, <2>1, CommitKeeps
  <2>3. \A i \in Id : \A n \in sighted'[i] : n \in Int /\ n <= height'
    BY <1>1, <1>4, <2>1, <2>2 DEF HeightInv
  <2>4. height' \in Int /\ BlockNumber' \in Int
    BY <1>2, <2>1 DEF BlockNumber
  <2>5. \A i \in Id : \A n \in sighted'[i] : n <= BlockNumber' /\ n <= height' + Len(blocks')
    BY <1>2, <2>1, <2>3, <2>4 DEF BlockNumber
  <2>6. AccountInv(BlockNumber)'
    BY <1>6, <2>2, <2>4, <2>5
  <2>7. config # None
    BY <1>1, <2>1 DEF HeightInv
  <2>8. HeightInv'
    BY <2>1, <2>2, <2>3, <2>4, <2>5, <2>7 DEF HeightInv, CacheOfNewCtx
  <2> QED BY <2>6, <2>8
<1>17. CASE Walks
  BY <1>10, <1>11, <1>17 DEF Walks
<1> QED BY <1>7, <1>8, <1>9, <1>12, <1>13, <1>14, <1>15, <1>16, <1>17
        DEF BatchNext, ConfigureThrows, Exhausted

LEMMA BatchInvariant == BatchSpec => []BatchInv
<1>1. BatchInit => BatchInv
  BY InitBatch, InitSightings DEF BatchInv
<1>2. BatchInv /\ [BatchNext]_batchVars => BatchInv'
  BY StepOfRouter, RouterKeeps, DecodedKeeps, SightingsKeep DEF BatchInv
<1> QED BY <1>1, <1>2, PTL DEF BatchSpec

\* account.ts, getOrCreateAccount: the row's first and last block are exactly
\* those of the first and the last sighting, for any number of accounts, calls
\* under way at once and batches, committed or rolled back.
THEOREM RowsSpanSightings == BatchSpec => []RowSpansSightings
<1>1. BatchInv => RowSpansSightings
  <2> SUFFICES ASSUME BatchInv, NEW i \in Id
               PROVE  IF sighted[i] = {} THEN row[i] = None
                      ELSE row[i] = [first |-> Min(sighted[i]), last |-> Max(sighted[i])]
    BY DEF RowSpansSightings
  <2>1. Spans(row[i], sighted[i]) /\ sighted[i] \in SUBSET Int
    BY DEF BatchInv, AccountInv, SpanInv, AccountTypeOK
  <2> QED BY <2>1, SpanIsMinMax
<1> QED BY BatchInvariant, <1>1, PTL

-----------------------------------------------------------------------------
\* The parts of an id.
LEMMA IdParts ==
  ASSUME NEW a \in Nat, NEW b \in Nat, NEW c \in Nat, NEW s \in Seq(Word)
  PROVE  LET id == <<a, b, c>> \o s
         IN /\ Len(s) \in Nat /\ Len(id) = Len(s) + 3 /\ DOMAIN id = 1 .. Len(s) + 3
            /\ DOMAIN s = 1 .. Len(s) /\ id \in Seq(Nat \cup Word)
            /\ id[1] = a /\ id[2] = b /\ id[3] = c
            /\ \A i \in 1 .. Len(s) : id[i + 3] = s[i]
<1> DEFINE t == <<a, b, c>>
<1>1. t \in Seq(Nat \cup Word) /\ s \in Seq(Nat \cup Word) /\ Len(t) = 3
  OBVIOUS
<1>2. t[1] = a /\ t[2] = b /\ t[3] = c
  OBVIOUS
<1> HIDE DEF t
<1>3. /\ t \o s \in Seq(Nat \cup Word) /\ Len(t \o s) = Len(s) + 3 /\ Len(s) \in Nat
      /\ \A i \in 1 .. Len(s) + 3 : (t \o s)[i] = IF i <= 3 THEN t[i] ELSE s[i - 3]
  <2>1. /\ t \o s \in Seq(Nat \cup Word) /\ Len(t \o s) = Len(t) + Len(s)
        /\ \A i \in 1 .. Len(t) + Len(s) : (t \o s)[i] = IF i <= Len(t) THEN t[i] ELSE s[i - Len(t)]
    BY <1>1, ConcatProperties, Zenon
  <2>2. Len(s) \in Nat /\ 3 + Len(s) = Len(s) + 3
    OBVIOUS
  <2> QED BY <1>1, <2>1, <2>2
<1>4. DOMAIN (t \o s) = 1 .. Len(s) + 3 /\ DOMAIN s = 1 .. Len(s)
  BY <1>1, <1>3
<1>5. /\ (t \o s)[1] = a /\ (t \o s)[2] = b /\ (t \o s)[3] = c
      /\ \A i \in 1 .. Len(s) : (t \o s)[i + 3] = s[i]
  <2>1. 1 \in 1 .. Len(s) + 3 /\ 2 \in 1 .. Len(s) + 3 /\ 3 \in 1 .. Len(s) + 3
    BY <1>3
  <2>2. \A i \in 1 .. Len(s) : i + 3 \in 1 .. Len(s) + 3 /\ ~(i + 3 <= 3) /\ (i + 3) - 3 = i
    BY <1>3
  <2> QED BY <1>2, <1>3, <2>1, <2>2
<1> QED BY <1>3, <1>4, <1>5 DEF t

\* Two ids that are equal are of one coordinate.
LEMMA IdsDiffer ==
  ASSUME NEW a \in Nat, NEW b \in Nat, NEW c \in Nat, NEW s \in Seq(Word),
         NEW x \in Nat, NEW y \in Nat, NEW z \in Nat, NEW t \in Seq(Word),
         <<a, b, c>> \o s = <<x, y, z>> \o t
  PROVE  a = x /\ c = z
<1>1. (<<a, b, c>> \o s)[1] = a /\ (<<a, b, c>> \o s)[3] = c
  BY IdParts
<1>2. (<<x, y, z>> \o t)[1] = x /\ (<<x, y, z>> \o t)[3] = z
  BY IdParts
<1> QED BY <1>1, <1>2

\* An id has, among the suffixes of its length, its own only.
LEMMA OwnSuffix ==
  ASSUME NEW a \in Nat, NEW b \in Nat, NEW c \in Nat, NEW s \in Seq(Word), NEW o \in Seq(Word),
         Len(o) = Len(s)
  PROVE  IsSuffix(o, <<a, b, c>> \o s) <=> o = s
<1> DEFINE id == <<a, b, c>> \o s
           n == Len(s)
           front == SubSeq(Reverse(id), 1, n)
           back == SubSeq(Reverse(o), 1, n)
<1>1. /\ n \in Nat /\ Len(id) = n + 3 /\ DOMAIN s = 1 .. n /\ DOMAIN o = 1 .. n
      /\ \A i \in 1 .. n : id[i + 3] = s[i]
  BY IdParts
<1> HIDE DEF id, n
<1>2. Reverse(id) = [i \in 1 .. n + 3 |-> id[n + 3 - i + 1]]
  BY <1>1 DEF Reverse
<1>3. Reverse(o) = [i \in 1 .. n |-> o[n - i + 1]]
  BY <1>1 DEF Reverse, n
<1>4. Len(Reverse(o)) = n /\ Len(Reverse(id)) = n + 3
  BY <1>1, <1>2, <1>3
<1>5. front = [i \in 1 .. n |-> Reverse(id)[i]] /\ back = [i \in 1 .. n |-> Reverse(o)[i]]
  <2>1. front = [i \in 1 .. (n - 1 + 1) |-> Reverse(id)[1 + i - 1]]
    BY <1>1
  <2>2. back = [i \in 1 .. (n - 1 + 1) |-> Reverse(o)[1 + i - 1]]
    BY <1>1
  <2>3. n - 1 + 1 = n /\ \A i \in 1 .. n : 1 + i - 1 = i
    BY <1>1
  <2> QED BY <2>1, <2>2, <2>3
<1>6. \A i \in 1 .. n : front[i] = s[n - i + 1] /\ back[i] = o[n - i + 1]
  <2> SUFFICES ASSUME NEW i \in 1 .. n PROVE front[i] = s[n - i + 1] /\ back[i] = o[n - i + 1]
    OBVIOUS
  <2>1. n - i + 1 \in 1 .. n /\ n + 3 - i + 1 = (n - i + 1) + 3 /\ i \in 1 .. n + 3
    BY <1>1
  <2>2. front[i] = id[n + 3 - i + 1] /\ back[i] = o[n - i + 1]
    BY <1>2, <1>3, <1>5, <2>1
  <2> QED BY <1>1, <2>1, <2>2
<1>7. IsSuffix(o, id) <=> back = front
  BY <1>1, <1>4 DEF IsSuffix, IsPrefix
<1>8. ASSUME back = front PROVE o = s
  <2>1. \A j \in 1 .. n : o[j] = s[j]
    <3> SUFFICES ASSUME NEW j \in 1 .. n PROVE o[j] = s[j]
      OBVIOUS
    <3>1. n - j + 1 \in 1 .. n /\ n - (n - j + 1) + 1 = j
      BY <1>1
    <3> QED BY <1>6, <1>8, <3>1
  <2> QED BY <1>1, <2>1
<1>9. ASSUME o = s PROVE back = front
  BY <1>5, <1>6, <1>9
<1> QED BY <1>7, <1>8, <1>9 DEF id

\* chainCoordTransform reads back what chainCoordIdMake wrote, in its family
\* and in no other.
LEMMA ParsesBack ==
  ASSUME NEW a \in Nat, NEW b \in Nat, NEW c \in Nat, NEW s \in Seq(Word), NEW o \in Seq(Word)
  PROVE  /\ parse(<<a, b, c>> \o s, s) = Coord(a, b, c)
         /\ Coord(a, b, c) # Malformed
         /\ o # s => parse(<<a, b, c>> \o s, o) = Malformed
<1> DEFINE id == <<a, b, c>> \o s
<1>1. /\ Len(s) \in Nat /\ Len(id) = Len(s) + 3 /\ id[1] = a /\ id[2] = b /\ id[3] = c
      /\ id \in Seq(Nat \cup Word)
  BY IdParts
<1> HIDE DEF id
<1>2. HasSuffix(id, s)
  BY <1>1, OwnSuffix DEF HasSuffix, id
<1>3. Stripped(id, s) = <<a, b, c>>
  <2>1. Stripped(id, s) = SubSeq(id, 1, 3)
    BY <1>1 DEF Stripped
  <2>2. \A i \in 1 .. 3 : id[i] \in Nat \cup Word
    BY <1>1
  <2>3. /\ SubSeq(id, 1, 3) \in Seq(Nat \cup Word) /\ Len(SubSeq(id, 1, 3)) = 3
        /\ \A i \in 1 .. 3 : SubSeq(id, 1, 3)[i] = id[i]
    BY <2>2, SubSeqProperties
  <2>4. SubSeq(id, 1, 3) = <<a, b, c>>
    <3> DEFINE parts == SubSeq(id, 1, 3)
               t == <<a, b, c>>
    <3>1. /\ t \in Seq(Nat \cup Word) /\ Len(t) = 3 /\ t[1] = a /\ t[2] = b /\ t[3] = c
      OBVIOUS
    <3>2. /\ parts \in Seq(Nat \cup Word) /\ Len(parts) = 3
          /\ parts[1] = a /\ parts[2] = b /\ parts[3] = c
      BY <1>1, <2>3
    <3> HIDE DEF parts, t
    <3>3. \A i \in 1 .. 3 : parts[i] = t[i]
      BY <3>1, <3>2
    <3>4. parts = t
      BY <3>1, <3>2, <3>3, SeqEqual
    <3> QED BY <3>4 DEF parts, t
  <2> QED BY <2>1, <2>4
<1>4. ToSet(<<a, b, c>>) \cap Word = {}
  <2>1. ToSet(<<a, b, c>>) \subseteq Nat
    BY DEF ToSet
  <2> QED BY <2>1, CoordAssumption
<1>5. parse(id, s) = Coord(a, b, c)
  BY <1>2, <1>3, <1>4 DEF parse
<1>6. Coord(a, b, c) # Malformed
  BY CoordAssumption DEF Coord
<1>7. ASSUME o # s PROVE parse(id, o) = Malformed
  <2> SUFFICES ASSUME HasSuffix(id, o), Len(Stripped(id, o)) = 3 PROVE FALSE
    BY DEF parse
  <2>1. Len(o) \in Nat /\ Len(o) < Len(id)
    BY DEF HasSuffix
  <2>2. Len(Stripped(id, o)) = Len(id) - Len(o)
    <3> DEFINE m == Len(id) - Len(o)
    <3>1. m \in Nat /\ m >= 1 /\ m <= Len(id) /\ DOMAIN id = 1 .. Len(id)
      BY <1>1, <2>1
    <3> HIDE DEF m
    <3>2. \A i \in 1 .. m : id[i] \in Nat \cup Word
      BY <1>1, <3>1
    <3>3. Len(SubSeq(id, 1, m)) = m
      BY <3>1, <3>2, SubSeqProperties
    <3> QED BY <3>3 DEF Stripped, m
  <2>3. Len(id) - Len(o) = 3
    BY <2>2, Zenon
  <2>4. Len(o) = Len(s)
    BY <1>1, <2>1, <2>3
  <2> QED BY <1>7, <2>4, OwnSuffix DEF HasSuffix, id
<1> QED BY <1>5, <1>6, <1>7 DEF id

\* indexInBlock tells the events of a block apart.
LEMMA EventIndex ==
  ASSUME NEW block, NEW j \in Nat \ {0}, NEW k \in Nat \ {0}, j < k, block[j].kind = "event"
  PROVE  Cardinality({m \in 1 .. j - 1 : block[m].kind = "event"})
           # Cardinality({m \in 1 .. k - 1 : block[m].kind = "event"})
<1> DEFINE S(n) == {m \in 1 .. n - 1 : block[m].kind = "event"}
<1>1. IsFiniteSet(1 .. j - 1) /\ IsFiniteSet(1 .. k - 1)
  BY FS_Interval
<1>2. IsFiniteSet(S(j)) /\ IsFiniteSet(S(k))
  <2>1. S(j) \subseteq 1 .. j - 1 /\ S(k) \subseteq 1 .. k - 1
    OBVIOUS
  <2> QED BY <1>1, <2>1, FS_Subset
<1>3. Cardinality(S(j)) \in Nat /\ Cardinality(S(k)) \in Nat
  BY <1>2, FS_CardinalityType
<1>4. j \notin S(j) /\ S(j) \cup {j} \subseteq S(k)
  OBVIOUS
<1> HIDE DEF S
<1>5. Cardinality(S(j) \cup {j}) = Cardinality(S(j)) + 1
  BY <1>2, <1>4, FS_AddElement
<1>6. Cardinality(S(j) \cup {j}) <= Cardinality(S(k))
  BY <1>2, <1>4, FS_Subset
<1>7. Cardinality(S(j)) # Cardinality(S(k))
  BY <1>3, <1>5, <1>6
<1> QED BY <1>7 DEF S

\* A count of some of the items before one.
LEMMA CountIsNat ==
  ASSUME NEW n \in Nat, NEW S \in SUBSET (1 .. n - 1)
  PROVE  Cardinality(S) \in Nat
<1>1. IsFiniteSet(1 .. n - 1)
  BY FS_Interval
<1>2. IsFiniteSet(S)
  BY <1>1, FS_Subset
<1> QED BY <1>2, FS_CardinalityType

\* Where the events with an override are.
LEMMA RowEventPlace ==
  ASSUME RouterInv, NEW e
  PROVE  e \in RowEvents <=>
           \E b \in DOMAIN blocks : \E k \in DOMAIN blocks[b] :
             /\ e = <<b, k>> /\ blocks[b][k].kind = "event"
             /\ blocks[b][k].name \in Plain \cup Tracked
BY DEF RowEvents

\* The id of an event's row is a coordinate and the suffix of its family.
LEMMA RowIdParts ==
  ASSUME RouterInv, RangeInv, phase # "idle",
         NEW b \in DOMAIN blocks, NEW k \in DOMAIN blocks[b],
         blocks[b][k].kind = "event", blocks[b][k].name \in Plain \cup Tracked
  PROVE  /\ b \in Nat \ {0} /\ k \in Nat \ {0} /\ height + b \in Nat /\ b <= Len(blocks)
         /\ Suffix[blocks[b][k].name] \in Seq(Word)
         /\ \E x \in Nat, z \in Nat :
              /\ z = Cardinality({m \in 1 .. k - 1 : blocks[b][m].kind = "event"})
              /\ RowId(b, k) = <<height + b, x, z>> \o Suffix[blocks[b][k].name]
<1>1. b \in Nat \ {0} /\ k \in Nat \ {0} /\ b <= Len(blocks)
  BY DEF RouterInv, WalkInv, IsArray
<1>2. height \in Int /\ height >= -1
  BY DEF RangeInv
<1>3. height + b \in Nat
  BY <1>1, <1>2
<1>4. Suffix[blocks[b][k].name] \in Seq(Word) /\ blocks[b][k].extrinsic \in Nat \cup {None}
  BY ItemsAssumption DEF RangeInv
<1> DEFINE before == {m \in 1 .. k - 1 : blocks[b][m].kind = "event"}
           x == IF blocks[b][k].extrinsic = None THEN 0 ELSE blocks[b][k].extrinsic
           z == Cardinality(before)
<1>5. x \in Nat
  BY <1>4
<1>6. z \in Nat
  <2>1. before \in SUBSET (1 .. k - 1)
    OBVIOUS
  <2> HIDE DEF before
  <2> QED BY <1>1, <2>1, CountIsNat
<1>7. RowId(b, k) = <<height + b, x, z>> \o Suffix[blocks[b][k].name]
  BY DEF RowId, chainCoordIdMake, extractEventMeta, Coord
<1> QED BY <1>1, <1>3, <1>4, <1>5, <1>6, <1>7

\* No two events of a batch have one id.
LEMMA RowIdsDiffer ==
  ASSUME RouterInv, RangeInv, phase # "idle",
         NEW b \in DOMAIN blocks, NEW k \in DOMAIN blocks[b],
         blocks[b][k].kind = "event", blocks[b][k].name \in Plain \cup Tracked,
         NEW c \in DOMAIN blocks, NEW j \in DOMAIN blocks[c],
         blocks[c][j].kind = "event", blocks[c][j].name \in Plain \cup Tracked,
         RowId(b, k) = RowId(c, j)
  PROVE  b = c /\ k = j
<1> DEFINE count(d, n) == Cardinality({m \in 1 .. n - 1 : blocks[d][m].kind = "event"})
<1>1. /\ b \in Nat \ {0} /\ k \in Nat \ {0} /\ height + b \in Nat
      /\ Suffix[blocks[b][k].name] \in Seq(Word)
  BY RowIdParts
<1>2. /\ c \in Nat \ {0} /\ j \in Nat \ {0} /\ height + c \in Nat
      /\ Suffix[blocks[c][j].name] \in Seq(Word)
  BY RowIdParts
<1>3. PICK x \in Nat, z \in Nat :
        z = count(b, k) /\ RowId(b, k) = <<height + b, x, z>> \o Suffix[blocks[b][k].name]
  BY RowIdParts
<1>4. PICK y \in Nat, w \in Nat :
        w = count(c, j) /\ RowId(c, j) = <<height + c, y, w>> \o Suffix[blocks[c][j].name]
  BY RowIdParts
<1>5. height + b = height + c /\ z = w
  <2> DEFINE p == height + b
             q == height + c
             s == Suffix[blocks[b][k].name]
             t == Suffix[blocks[c][j].name]
  <2>1. <<p, x, z>> \o s = <<q, y, w>> \o t
    BY <1>3, <1>4
  <2>2. p \in Nat /\ q \in Nat /\ s \in Seq(Word) /\ t \in Seq(Word)
    BY <1>1, <1>2
  <2> HIDE DEF p, q, s, t
  <2>3. p = q /\ z = w
    BY <2>1, <2>2, IdsDiffer
  <2> QED BY <2>3 DEF p, q
<1>6. b = c
  BY <1>1, <1>2, <1>5 DEF RangeInv
<1>7. count(b, k) = count(b, j)
  BY <1>3, <1>4, <1>5, <1>6
<1>8. ~(k < j) /\ ~(j < k)
  BY <1>1, <1>2, <1>6, <1>7, EventIndex
<1> QED BY <1>1, <1>2, <1>6, <1>8

\* A handler runs for the subscribed event that was dispatched.
LEMMA RunningKeeps ==
  ASSUME RunningInv, [BatchNext]_batchVars
  PROVE  RunningInv'
<1>1. CASE phase' # "running"
  BY <1>1 DEF RunningInv
<1>2. CASE Dispatch
  <2>1. /\ ii <= Len(blocks[bi]) /\ Item.kind = "event" /\ Item.name \in Subscribed
        /\ UNCHANGED <<blocks, bi, ii>>
    BY <1>2 DEF Dispatch, Parses
  <2> QED BY <2>1 DEF RunningInv, Item
<1>3. CASE UNCHANGED routerVars
  BY <1>3 DEF routerVars, RunningInv, Item
<1>4. CASE NextBlock \/ SkipCall \/ SkipDrift
  BY <1>1, <1>4 DEF NextBlock, SkipCall, SkipDrift, Walking
<1> QED BY <1>1, <1>2, <1>3, <1>4 DEF BatchNext, batchVars, Configure, ConfigureThrows, Begins, Start,
           Walks, HandlerDone, HandlerResolves, BatchFails, HandlerRejects, BatchCommits, Returns,
           Restarts, Exhausted, Sights, SightingGoesOn

\* Batches stay within the range they began in.
LEMMA RangeKeeps ==
  ASSUME RouterInv, RangeInv, [BatchNext]_batchVars
  PROVE  RangeInv'
<1>1. Len(blocks) \in Nat
  BY DEF RouterInv, WalkInv, IsArray
<1>2. ASSUME NEW c \in Configs, Configure(c) PROVE RangeInv'
  <2>1. config = None /\ config' = c /\ height' = c.from - 1 /\ phase' = phase
    BY <1>2 DEF Configure, routerVars
  <2>2. phase' = "idle"
    BY <2>1 DEF RangeInv
  <2>3. c.from \in Nat
    BY ConfigsAssumption
  <2> QED BY <2>1, <2>2, <2>3 DEF RangeInv
<1>3. CASE Begins
  BY <1>3 DEF Begins, Start, RangeInv
<1>4. CASE UNCHANGED <<config, height>> /\ (phase' = "idle" \/ (UNCHANGED blocks /\ phase # "idle"))
  BY <1>4 DEF RangeInv
<1>5. CASE BatchCommits
  BY <1>1, <1>5 DEF BatchCommits, Returns, RangeInv
<1>6. CASE UNCHANGED <<config, height, blocks, phase>>
  BY <1>6 DEF RangeInv
<1>7. CASE Walks \/ HandlerDone \/ BatchFails \/ Restarts
  BY <1>4, <1>7 DEF Walks, NextBlock, SkipCall, SkipDrift, Dispatch, Walking, HandlerDone,
     HandlerResolves, BatchFails, HandlerRejects, Restarts
<1>8. CASE UNCHANGED <<routerVars, config, height>>
  BY <1>6, <1>8 DEF routerVars
<1> QED BY <1>2, <1>3, <1>5, <1>7, <1>8 DEF BatchNext, batchVars, ConfigureThrows, Exhausted, Sights,
           SightingGoesOn

\* The walk goes past an item that has no row.
LEMMA PassingKeepsRows ==
  ASSUME RouterInv, RowsInv, phase # "idle", phase' # "idle", UNCHANGED <<blocks, height, rows>>,
         \A e \in RowEvents : Behind(e[1], e[2])' <=> Behind(e[1], e[2])
  PROVE  RowsInv'
<1>1. RowEvents' = RowEvents
  BY DEF RowEvents
<1>2. \A b, k : RowId(b, k)' = RowId(b, k)
  BY DEF RowId, extractEventMeta
<1>3. \A id \in DOMAIN rows : /\ rows[id] \in RowEvents /\ Behind(rows[id][1], rows[id][2])
                             /\ id = RowId(rows[id][1], rows[id][2])
  BY DEF RowsInv
<1>4. \A id \in DOMAIN rows : Behind(rows[id][1], rows[id][2])'
  BY <1>3
<1>5. \A e \in RowEvents : Behind(e[1], e[2])' => e \in Range(rows)
  BY DEF RowsInv
<1> QED BY <1>1, <1>2, <1>3, <1>4, <1>5 DEF RowsInv

\* A handler that is done has upserted the row of its event under an id that no
\* earlier event has.
LEMMA UpsertKeepsRows ==
  ASSUME RouterInv, RunningInv, RangeInv, RowsInv, HandlerDone
  PROVE  RowsInv'
<1>1. /\ phase = "running" /\ phase' = "walking" /\ ii' = ii + 1 /\ UNCHANGED <<blocks, bi, height>>
      /\ rows' = Upserts
  BY DEF HandlerDone, HandlerResolves
<1>2. /\ bi \in DOMAIN blocks /\ ii \in DOMAIN blocks[bi] /\ bi \in Nat \ {0} /\ ii \in Nat \ {0}
      /\ Item.kind = "event" /\ Item.name \in Subscribed
  BY <1>1 DEF RouterInv, WalkInv, IsArray, RunningInv
<1>3. \A e \in RowEvents : Behind(e[1], e[2])' <=> Behind(e[1], e[2]) \/ e = <<bi, ii>>
  <2> SUFFICES ASSUME NEW b \in DOMAIN blocks, NEW k \in DOMAIN blocks[b]
               PROVE  Behind(b, k)' <=> Behind(b, k) \/ <<b, k>> = <<bi, ii>>
    BY RowEventPlace
  <2>1. b \in Nat /\ k \in Nat
    BY DEF RouterInv, WalkInv, IsArray
  <2> QED BY <1>1, <1>2, <2>1 DEF Behind
<1>4. CASE Item.name \in Unhandled
  <2>1. <<bi, ii>> \notin RowEvents
    <3> SUFFICES ASSUME <<bi, ii>> \in RowEvents PROVE FALSE
      OBVIOUS
    <3>1. PICK b, k : <<bi, ii>> = <<b, k>> /\ blocks[b][k].name \in Plain \cup Tracked
      BY RowEventPlace
    <3> QED BY <1>4, <3>1, RouterAssumption DEF Item
  <2>2. rows' = rows
    BY <1>1, <1>4 DEF Upserts
  <2> QED BY <1>1, <1>3, <2>1, <2>2, PassingKeepsRows
<1>5. CASE Item.name \notin Unhandled
  <2> DEFINE new == RowId(bi, ii)
             here == <<bi, ii>>
             passed(e) == e[1] < bi \/ (e[1] = bi /\ e[2] < ii + 1)
  <2>1. blocks[bi][ii].kind = "event" /\ blocks[bi][ii].name \in Plain \cup Tracked
    BY <1>2, <1>5 DEF Subscribed, Item
  <2>2. here \in RowEvents
    BY <1>2, <2>1, RowEventPlace
  <2>3. rows' = [id \in DOMAIN rows \cup {new} |-> IF id = new THEN here ELSE rows[id]]
    BY <1>1, <1>5 DEF Upserts
  <2>4. new \notin DOMAIN rows
    <3> SUFFICES ASSUME new \in DOMAIN rows PROVE FALSE
      OBVIOUS
    <3>1. /\ rows[new] \in RowEvents /\ Behind(rows[new][1], rows[new][2])
          /\ new = RowId(rows[new][1], rows[new][2])
      BY <1>1 DEF RowsInv
    <3>2. PICK b, k :
            /\ b \in DOMAIN blocks /\ k \in DOMAIN blocks[b] /\ rows[new] = <<b, k>> /\ blocks[b][k].kind = "event"
            /\ blocks[b][k].name \in Plain \cup Tracked
      BY <3>1, RowEventPlace
    <3>3. RowId(b, k) = RowId(bi, ii) /\ Behind(b, k)
      BY <3>1, <3>2
    <3>4. b = bi /\ k = ii
      BY <1>1, <1>2, <2>1, <3>2, <3>3, RowIdsDiffer
    <3> QED BY <1>2, <3>3, <3>4 DEF Behind
  <2> HIDE DEF new
  <2>5. /\ DOMAIN rows' = DOMAIN rows \cup {new} /\ rows'[new] = here
        /\ \A id \in DOMAIN rows : rows'[id] = rows[id]
        /\ rows' = [id \in DOMAIN rows' |-> rows'[id]]
    BY <2>3, <2>4
  <2>6. IsFiniteSet(DOMAIN rows')
    <3>1. IsFiniteSet(DOMAIN rows)
      BY <1>1 DEF RowsInv
    <3> QED BY <2>5, <3>1, FS_AddElement
  <2>7. RowEvents' = RowEvents /\ \A b, k : RowId(b, k)' = RowId(b, k)
    BY <1>1 DEF RowEvents, RowId, extractEventMeta
  <2>8. ASSUME NEW id \in DOMAIN rows'
        PROVE  /\ rows'[id] \in RowEvents /\ passed(rows'[id])
               /\ id = RowId(rows'[id][1], rows'[id][2])
    <3>1. CASE id \in DOMAIN rows
      <4>1. /\ rows[id] \in RowEvents /\ Behind(rows[id][1], rows[id][2])
            /\ id = RowId(rows[id][1], rows[id][2])
        BY <1>1, <3>1 DEF RowsInv
      <4>2. PICK b, k : b \in DOMAIN blocks /\ k \in DOMAIN blocks[b] /\ rows[id] = <<b, k>>
        BY <4>1, RowEventPlace
      <4>3. b \in Nat /\ k \in Nat
        BY <4>2 DEF RouterInv, WalkInv, IsArray
      <4>4. passed(rows[id])
        BY <1>2, <4>1, <4>2, <4>3 DEF Behind
      <4> QED BY <2>5, <3>1, <4>1, <4>4
    <3>2. CASE id = new
      <4>1. rows'[id] = here /\ here[1] = bi /\ here[2] = ii
        BY <2>5, <3>2
      <4> QED BY <1>2, <2>2, <3>2, <4>1 DEF new
    <3> QED BY <2>5, <3>1, <3>2
  <2>9. ASSUME NEW e \in RowEvents, Behind(e[1], e[2])' PROVE e \in Range(rows')
    <3>1. CASE e = here
      BY <2>5, <3>1 DEF Range
    <3>2. CASE e # here
      <4>1. e \in Range(rows)
        BY <1>1, <1>3, <2>9, <3>2 DEF RowsInv
      <4> QED BY <2>5, <4>1 DEF Range
    <3> QED BY <3>1, <3>2
  <2>10. \A id \in DOMAIN rows' : Behind(rows[id][1], rows[id][2])'
    BY <1>1, <2>8 DEF Behind
  <2>11. \A id \in DOMAIN rows' : id = RowId(rows[id][1], rows[id][2])'
    BY <1>1, <2>8 DEF RowId, extractEventMeta
  <2> QED BY <2>5, <2>6, <2>7, <2>8, <2>9, <2>10, <2>11 DEF RowsInv
<1> QED BY <1>4, <1>5

\* The rows, step by step.
LEMMA RowsKeep ==
  ASSUME RouterInv, RunningInv, RangeInv, RowsInv, [BatchNext]_batchVars
  PROVE  RowsInv'
<1>1. /\ bi \in Nat \ {0} /\ ii \in Nat \ {0}
      /\ \A b \in DOMAIN blocks : b \in Nat /\ \A k \in DOMAIN blocks[b] : k \in Nat /\ k <= Len(blocks[b])
  BY DEF RouterInv, WalkInv, IsArray
<1>2. CASE phase' = "idle"
  BY <1>2 DEF RowsInv
<1>3. CASE Begins
  <2>1. /\ bi' = 1 /\ ii' = 1 /\ rows' = <<>> /\ \E b \in Batches : blocks' = b
    BY <1>3 DEF Begins, Start
  <2>2. IsArray(blocks') /\ \A b \in DOMAIN blocks' : IsArray(blocks'[b])
    BY <2>1, BatchesAssumption
  <2>3. \A e \in RowEvents' : ~Behind(e[1], e[2])'
    <3> SUFFICES ASSUME NEW b \in DOMAIN blocks', NEW k \in DOMAIN blocks'[b]
                 PROVE  ~Behind(b, k)'
      BY DEF RowEvents
    <3> QED BY <2>1, <2>2 DEF Behind, IsArray
  <2>4. DOMAIN rows' = {} /\ rows' = [id \in DOMAIN rows' |-> rows'[id]]
    BY <2>1
  <2>5. IsFiniteSet(DOMAIN rows')
    BY <2>4, FS_EmptySet
  <2> QED BY <2>3, <2>4, <2>5 DEF RowsInv
<1>4. ASSUME phase # "idle", phase' # "idle", UNCHANGED <<blocks, height, rows>>,
             \A b \in DOMAIN blocks : \A k \in DOMAIN blocks[b] :
               blocks[b][k].kind = "event" /\ blocks[b][k].name \in Plain \cup Tracked =>
                 (Behind(b, k)' <=> Behind(b, k))
      PROVE  RowsInv'
  <2>1. \A e \in RowEvents : Behind(e[1], e[2])' <=> Behind(e[1], e[2])
    BY <1>4, RowEventPlace
  <2> QED BY <1>4, <2>1, PassingKeepsRows
<1>5. CASE Walks /\ NextBlock
  <2>1. /\ phase # "idle" /\ phase' = phase /\ UNCHANGED <<blocks, height, rows>>
        /\ bi' = bi + 1 /\ ii' = 1 /\ ii > Len(blocks[bi])
    BY <1>5 DEF Walks, NextBlock, Walking
  <2>2. \A b \in DOMAIN blocks : \A k \in DOMAIN blocks[b] : Behind(b, k)' <=> Behind(b, k)
    <3> SUFFICES ASSUME NEW b \in DOMAIN blocks, NEW k \in DOMAIN blocks[b]
                 PROVE  Behind(b, k)' <=> Behind(b, k)
      OBVIOUS
    <3>1. b \in Nat /\ k \in Nat \ {0} /\ k <= Len(blocks[b]) /\ Len(blocks[b]) \in Nat
      BY DEF RouterInv, WalkInv, IsArray
    <3>2. CASE b = bi
      BY <1>1, <2>1, <3>1, <3>2 DEF Behind
    <3>3. CASE b # bi
      BY <1>1, <2>1, <3>1, <3>3 DEF Behind
    <3> QED BY <3>2, <3>3
  <2> QED BY <1>4, <2>1, <2>2
<1>6. CASE Walks /\ (SkipCall \/ SkipDrift)
  <2>1. /\ phase # "idle" /\ phase' = phase /\ UNCHANGED <<blocks, bi, height, rows>> /\ ii' = ii + 1
        /\ ~(Item.kind = "event" /\ Item.name \in Plain \cup Tracked)
    BY <1>6 DEF Walks, SkipCall, SkipDrift, Walking, Parses, Subscribed
  <2>2. ASSUME NEW b \in DOMAIN blocks, NEW k \in DOMAIN blocks[b],
               blocks[b][k].kind = "event", blocks[b][k].name \in Plain \cup Tracked
        PROVE  Behind(b, k)' <=> Behind(b, k)
    <3>1. b \in Nat /\ k \in Nat /\ ~(b = bi /\ k = ii)
      BY <1>1, <2>1, <2>2 DEF Item
    <3> QED BY <1>1, <2>1, <3>1 DEF Behind
  <2> QED BY <1>4, <2>1, <2>2
<1>7. CASE Walks /\ Dispatch
  <2>1. /\ phase # "idle" /\ phase' = "running" /\ UNCHANGED <<blocks, bi, ii, height, rows>>
    BY <1>7 DEF Walks, Dispatch, Walking
  <2> QED BY <1>4, <2>1 DEF Behind
<1>8. CASE UNCHANGED <<routerVars, height, rows>>
  <2>1. UNCHANGED <<blocks, bi, ii, phase, height, rows>>
    BY <1>8 DEF routerVars
  <2> QED BY <1>2, <1>4, <2>1 DEF Behind
<1>9. ASSUME NEW c \in Configs, Configure(c) PROVE RowsInv'
  BY <1>2, <1>9 DEF Configure, routerVars, RangeInv
<1>10. CASE BatchFails \/ BatchCommits \/ Restarts
  BY <1>2, <1>10 DEF BatchFails, HandlerRejects, BatchCommits, Returns, Restarts
<1> QED BY <1>3, <1>5, <1>6, <1>7, <1>8, <1>9, <1>10, UpsertKeepsRows DEF BatchNext, batchVars,
           ConfigureThrows, Walks, Exhausted, Sights, SightingGoesOn

\* No batch is under way yet.
LEMMA InitIds == BatchInit => IdInv
<1> SUFFICES ASSUME BatchInit PROVE IdInv
  OBVIOUS
<1>1. phase = "idle" /\ height = 0 /\ config = None
  BY DEF BatchInit, RouterInit
<1> QED BY <1>1 DEF IdInv, RunningInv, RangeInv, RowsInv

\* It is strong enough: at the end of the walk every event is behind it.
LEMMA IdsSuffice ==
  ASSUME RouterInv, IdInv
  PROVE  OneRowPerEvent
<1> SUFFICES ASSUME phase = "walking", bi > Len(blocks) PROVE OneRowPerEvent
  BY DEF OneRowPerEvent
<1> USE DEF IdInv
<1>1. /\ IsFiniteSet(DOMAIN rows) /\ rows = [id \in DOMAIN rows |-> rows[id]]
      /\ \A id \in DOMAIN rows : /\ rows[id] \in RowEvents
                                /\ id = RowId(rows[id][1], rows[id][2])
      /\ \A e \in RowEvents : Behind(e[1], e[2]) => e \in Range(rows)
  BY DEF RowsInv
<1>2. \A e \in RowEvents : Behind(e[1], e[2])
  <2> SUFFICES ASSUME NEW b \in DOMAIN blocks, NEW k \in DOMAIN blocks[b] PROVE Behind(b, k)
    BY RowEventPlace
  <2> QED BY DEF Behind, RouterInv, WalkInv, IsArray
<1>3. Range(rows) = RowEvents
  BY <1>1, <1>2 DEF Range
<1>4. Cardinality(DOMAIN rows) = Cardinality(RowEvents)
  <2>1. rows \in [DOMAIN rows -> RowEvents]
    BY <1>1
  <2>2. \A id, other \in DOMAIN rows : rows[id] = rows[other] => id = other
    BY <1>1
  <2>3. \A e \in RowEvents : \E id \in DOMAIN rows : rows[id] = e
    BY <1>3 DEF Range
  <2>4. rows \in Bijection(DOMAIN rows, RowEvents)
    BY <2>1, <2>2, <2>3 DEF Bijection, Injection, Surjection, IsInjective
  <2>5. ExistsBijection(DOMAIN rows, RowEvents)
    BY <2>4 DEF ExistsBijection
  <2> QED BY <1>1, <2>5, FS_Bijection
<1>5. ASSUME NEW id \in DOMAIN rows
      PROVE  LET name == blocks[rows[id][1]][rows[id][2]].name
                 coord == parse(id, Suffix[name])
             IN /\ coord # Malformed /\ coord.blockNumber > height
                /\ config.to # None => coord.blockNumber <= config.to
                /\ \A other \in Plain \cup Tracked :
                     Suffix[other] # Suffix[name] => parse(id, Suffix[other]) = Malformed
  <2>1. PICK b, k : /\ b \in DOMAIN blocks /\ k \in DOMAIN blocks[b] /\ rows[id] = <<b, k>>
                    /\ blocks[b][k].kind = "event" /\ blocks[b][k].name \in Plain \cup Tracked
    BY <1>1, RowEventPlace
  <2> DEFINE name == blocks[b][k].name
             s == Suffix[name]
  <2>2. /\ b \in Nat \ {0} /\ height + b \in Nat /\ b <= Len(blocks) /\ s \in Seq(Word)
        /\ \E x \in Nat, z \in Nat : RowId(b, k) = <<height + b, x, z>> \o s
    BY <2>1, RowIdParts
  <2>3. PICK x \in Nat, z \in Nat : id = <<height + b, x, z>> \o s
    <3>1. id = RowId(rows[id][1], rows[id][2]) /\ rows[id][1] = b /\ rows[id][2] = k
      BY <1>1, <2>1
    <3>2. id = RowId(b, k)
      BY <3>1
    <3> QED BY <2>2, <3>2, Zenon
  <2>4. height + b > height /\ (config.to # None => height + b <= config.to)
    <3>1. height \in Int /\ Len(blocks) \in Nat
      BY DEF RangeInv, RouterInv, WalkInv, IsArray
    <3>2. ASSUME config.to # None PROVE height + b <= config.to
      <4>1. height + Len(blocks) <= config.to /\ config.to \in Nat
        BY <3>2, ConfigsAssumption DEF RangeInv
      <4> QED BY <2>2, <3>1, <4>1
    <3> QED BY <2>2, <3>1, <3>2
  <2> DEFINE n == height + b
  <2>5. n \in Nat
    BY <2>2
  <2> HIDE DEF n, name, s
  <2>6. id = <<n, x, z>> \o s
    BY <2>3 DEF n
  <2>7. parse(id, s) = Coord(n, x, z) /\ Coord(n, x, z) # Malformed
    BY <2>2, <2>5, <2>6, ParsesBack
  <2>8. ASSUME NEW other \in Plain \cup Tracked, Suffix[other] # s
        PROVE  parse(id, Suffix[other]) = Malformed
    <3>1. Suffix[other] \in Seq(Word)
      BY ItemsAssumption
    <3> QED BY <2>2, <2>5, <2>6, <2>8, <3>1, ParsesBack
  <2>9. Coord(n, x, z).blockNumber = n
    BY DEF Coord
  <2>10. rows[id][1] = b /\ rows[id][2] = k
    BY <2>1
  <2>11. n > height /\ (config.to # None => n <= config.to)
    BY <2>4 DEF n
  <2> QED BY <2>7, <2>8, <2>9, <2>10, <2>11 DEF name, s
<1> QED BY <1>3, <1>4, <1>5 DEF OneRowPerEvent

\* chainCoord.ts, the ids of event rows: at the end of a batch there is one row
\* for every event with an override, under an id that parses back in its
\* family only, to a block of the batch, for batches of any size, any suffixes
\* and any range.
THEOREM EventsHaveOneRow == BatchSpec => []OneRowPerEvent
<1>1. RouterInv /\ IdInv /\ [BatchNext]_batchVars => IdInv'
  BY RunningKeeps, RangeKeeps, RowsKeep DEF IdInv
<1>2. RouterInv /\ IdInv => OneRowPerEvent
  BY IdsSuffice
<1> QED BY InitIds, RouterInvariant, <1>1, <1>2, PTL DEF BatchSpec
=============================================================================
