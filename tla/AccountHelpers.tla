--------------------------- MODULE AccountHelpers ---------------------------
(***************************************************************************)
(* getOrCreateAccount of packages/indexer/squid-common/src/account.ts.  A  *)
(* handler may have several calls under way at once (Promise.all over the  *)
(* parties of a transfer); `at` is the block number they pass.             *)
(*                                                                         *)
(* External: the rows of a batch are one transaction, committed or rolled  *)
(* back as a whole, and every batch has a ctx, and so a cache, of its own. *)
(* The Store answers one query at a time.                                  *)
(***************************************************************************)
EXTENDS Integers, FiniteSets, FiniteSetsExt

CONSTANTS
  Id,         \* account addresses
  Call,       \* names for the calls under way at once
  Object,     \* names for account instances
  None

ASSUME NoneAssumption == None \notin Object /\ None \notin [first : Int, last : Int]

VARIABLES
  row,        \* id -> the row in the transaction, or None
  saved,      \* id -> the committed row, or None
  cache,      \* id -> the cached instance of this ctx, or None
  account,    \* instance -> its first and last block
  call,       \* call -> [state, id, object]
  sighted,    \* history: id -> blocks of the completed calls, as in row
  savedSight  \* history: id -> blocks of the completed calls, as in saved

accountVars == <<row, saved, cache, account, call, sighted, savedSight>>

NoCall == [state |-> "idle", id |-> None, object |-> None]

AccountInit ==
  /\ row = [i \in Id |-> None] /\ saved = row
  /\ cache = [i \in Id |-> None]
  /\ account = [o \in Object |-> [first |-> 0, last |-> 0]]
  /\ call = [c \in Call |-> NoCall]
  /\ sighted = [i \in Id |-> {}] /\ savedSight = sighted

-----------------------------------------------------------------------------
AllIdle == \A c \in Call : call[c].state = "idle"

FreshAccount(o) ==
  /\ \A i \in Id : cache[i] # o
  /\ \A c \in Call : call[c].object # o

\* lastSeenAtBlock only moves forward.
Advanced(acc, at) == IF at > acc.last THEN [acc EXCEPT !.last = at] ELSE acc

\* account.make
Made(at) == [first |-> at, last |-> at]

\* getOrCreateAccount with the account cached: advanced, then sent to the Store.
CallHits(c, i, at) ==
  /\ call[c].state = "idle" /\ cache[i] # None
  /\ account' = [account EXCEPT ![cache[i]] = Advanced(@, at)]
  /\ call' = [call EXCEPT ![c] = [state |-> "upsert", id |-> i, object |-> cache[i]]]
  /\ UNCHANGED <<row, saved, cache, sighted, savedSight>>

\* getOrCreateAccount up to the await of store.get.
CallMisses(c, i) ==
  /\ call[c].state = "idle" /\ cache[i] = None
  /\ call' = [call EXCEPT ![c] = [state |-> "get", id |-> i, object |-> None]]
  /\ UNCHANGED <<row, saved, cache, account, sighted, savedSight>>

\* The Store answered: the row, or a new account, replaces whatever another
\* call cached meanwhile; it is advanced and sent to the Store.
Loaded(c, at) ==
  LET i == call[c].id
      acc == IF row[i] = None THEN Made(at) ELSE row[i]
  IN /\ call[c].state = "get"
     /\ \E o \in Object :
          /\ FreshAccount(o)
          /\ account' = [account EXCEPT ![o] = Advanced(acc, at)]
          /\ cache' = [cache EXCEPT ![i] = o]
          /\ call' = [call EXCEPT ![c].state = "upsert", ![c].object = o]
     /\ UNCHANGED <<row, saved, sighted, savedSight>>

\* The upsert is answered and the call returns.
Upserted(c, at) ==
  LET i == call[c].id
  IN /\ call[c].state = "upsert"
     /\ row' = [row EXCEPT ![i] = account[call[c].object]]
     /\ sighted' = [sighted EXCEPT ![i] = @ \cup {at}]
     /\ call' = [call EXCEPT ![c] = NoCall]
     /\ UNCHANGED <<saved, cache, account, savedSight>>

\* Fault: one cache for all batches.
CacheOfShared == cache

\* The cache of a new ctx.
CacheOfNewCtx == [i \in Id |-> None]

\* The transaction is committed; the next batch has a new ctx.
RowsCommitted ==
  /\ AllIdle
  /\ saved' = row /\ savedSight' = sighted
  /\ cache' = CacheOfNewCtx
  /\ UNCHANGED <<row, account, call, sighted>>

\* The transaction is rolled back, with the calls under way.
RowsRolledBack ==
  /\ row' = saved /\ sighted' = savedSight
  /\ cache' = CacheOfNewCtx
  /\ call' = [c \in Call |-> NoCall]
  /\ UNCHANGED <<saved, account, savedSight>>

-----------------------------------------------------------------------------
\* The row spans exactly the blocks the account was sighted in: its first and
\* last block, with concurrent calls, cached instances and rolled-back batches.
RowSpansSightings ==
  \A i \in Id :
    IF sighted[i] = {} THEN row[i] = None
    ELSE row[i] = [first |-> Min(sighted[i]), last |-> Max(sighted[i])]
-----------------------------------------------------------------------------
Account == [first : Int, last : Int]

AccountTypeOK ==
  /\ row \in [Id -> Account \cup {None}] /\ saved \in [Id -> Account \cup {None}]
  /\ cache \in [Id -> Object \cup {None}] /\ account \in [Object -> Account]
  /\ call \in [Call -> [state : {"idle", "get", "upsert"}, id : Id \cup {None}, object : Object \cup {None}]]
  /\ sighted \in [Id -> SUBSET Int] /\ savedSight \in [Id -> SUBSET Int]

\* The record's first and last block are the first and the last of the blocks.
Spans(r, S) ==
  IF S = {} THEN r = None
  ELSE r \in Account /\ r.first \in S /\ r.last \in S /\ \A n \in S : r.first <= n /\ n <= r.last

\* The calls for the account whose upsert is under way.
Upserting(i) == {c \in Call : call[c].state = "upsert" /\ call[c].id = i}

\* The instances of the account that are cached or on their way to the Store.
Instances(i) == {o \in Object : o = cache[i] \/ \E c \in Upserting(i) : call[c].object = o}

\* Whose instance is whose.
OwnerInv ==
  /\ \A i, j \in Id : i # j => Instances(i) \cap Instances(j) = {}
  /\ \A c \in Call : /\ call[c].state # "idle" => call[c].id \in Id
                     /\ call[c].state = "upsert" => call[c].object \in Object

\* An instance knows the first sighting, and nothing of a later block than the
\* present one; the present block, if it is on its way to the Store.
InstanceInv(at) ==
  \A i \in Id :
    /\ \A o \in Instances(i) :
         /\ account[o].last <= at
         /\ sighted[i] = {} => account[o] = Made(at)
         /\ sighted[i] # {} => account[o].first \in sighted[i] /\ \A n \in sighted[i] : account[o].first <= n
    /\ \A c \in Upserting(i) : account[call[c].object].last = at
    /\ cache[i] # None /\ sighted[i] = {} => Upserting(i) # {}

\* The rows of the transaction, and the committed ones.
SpanInv == \A i \in Id : Spans(row[i], sighted[i]) /\ Spans(saved[i], savedSight[i])

\* What the calls preserve, while `at` is the present block.
AccountInv(at) ==
  /\ AccountTypeOK /\ OwnerInv /\ InstanceInv(at) /\ SpanInv
  /\ \A i \in Id : \A n \in sighted[i] : n <= at
=============================================================================
