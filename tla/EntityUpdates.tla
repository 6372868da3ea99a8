---------------------------- MODULE EntityUpdates ----------------------------
(***************************************************************************)
(* withEntity and getOrCreateAndUpdate of packages/indexer/squid-common/   *)
(* src/entity.ts, over the entity cache that stands in for ctx.store: load *)
(* a row by id, make one when it is missing (getOrCreateAndUpdate) or skip *)
(* (withEntity), mutate and save.  Each task is one call of a helper; the  *)
(* handler that withEntity runs mutates the entity and saves it.           *)
(***************************************************************************)
EXTENDS EntityCache

CONSTANT Free   \* the tasks of a handler that uses the cache without the helpers

VARIABLES
  step,       \* task -> where its call is; "free": the task uses the cache itself
  helper,     \* task -> "withEntity" or "getOrCreateAndUpdate"
  target,     \* task -> the id it was called for, or None
  includes,   \* history: version -> the calls whose mutation it includes
  overlap     \* history: a call came beside another's load of its row

updateVars == <<cacheVars, step, helper, target, includes, overlap>>

\* All tasks are calls of the helpers, or the free ones use the cache in any way.
UpdateInit ==
  /\ CacheInit
  /\ step \in {[t \in Task |-> "off"],
              [t \in Task |-> IF t \in Free THEN "free" ELSE "failed"]}
  /\ helper \in IF \A t \in Task : step[t] = "off"
                THEN [Task -> {"withEntity", "getOrCreateAndUpdate"}]
                ELSE [Task -> {"withEntity"}]
  /\ target = [t \in Task |-> None]
  /\ includes = [v \in Version |-> {}] /\ overlap = FALSE

Moves(t, s) == step' = [step EXCEPT ![t] = s] /\ UNCHANGED <<helper, target, includes, overlap>>

\* The call has begun its load and not sent its save.
Loading(t) == step[t] \in {"loading", "loaded"}

-----------------------------------------------------------------------------
\* The caller passes ctx.store.get(Entity, id): a hit, or a query.
LoadHits(t, i) ==
  /\ step[t] = "off" /\ GetHit(t, i)
  /\ step' = [step EXCEPT ![t] = "loaded"] /\ target' = [target EXCEPT ![t] = i]
  /\ overlap' = (overlap \/ \E u \in Task \ {t} : step[u] = "loading" /\ target[u] = i)
  /\ UNCHANGED <<helper, includes>>
LoadMisses(t, i) ==
  /\ step[t] = "off" /\ GetMiss(t, i)
  /\ step' = [step EXCEPT ![t] = "loading"] /\ target' = [target EXCEPT ![t] = i]
  /\ overlap' = (overlap \/ \E u \in Task \ {t} : Loading(u) /\ target[u] = i)
  /\ UNCHANGED <<helper, includes>>

\* The query is answered and the promise of the load resolves.
LoadReturns(t) == step[t] = "loading" /\ ReadReturns(t) /\ Moves(t, "loaded")

\* withEntity logs an absent entity and returns null.
Skips(t) ==
  /\ step[t] = "loaded" /\ held[t] = None /\ helper[t] = "withEntity"
  /\ Moves(t, "skipped") /\ UNCHANGED cacheVars

\* Fault: the entity is saved as it was loaded, and mutated after.
SavedFirst(t) == IF held[t] = None THEN version + 1 ELSE instance[held[t]].version

\* What the save of t carries: the entity, mutated.
Saved(t) == version + 1

\* (await load) ?? make(), mutate, and store.save up to its await: one job.
Updates(t) ==
  /\ step[t] = "loaded" /\ version < MaxVersion
  /\ held[t] = None => helper[t] = "getOrCreateAndUpdate"
  /\ \E o \in Object :
       /\ IF held[t] = None THEN FreshObject(o) ELSE o = held[t]
       /\ instance' = [instance EXCEPT ![o] = [id |-> target[t], version |-> version + 1]]
       /\ includes' = [includes EXCEPT ![version + 1] =
            {t} \cup IF held[t] = None THEN {} ELSE includes[instance[o].version]]
       /\ unsaved' = unsaved \cup {o}
       /\ held' = [held EXCEPT ![t] = o]
       /\ Send(t, "upsert", target[t], o, Saved(t))
  /\ version' = version + 1
  /\ step' = [step EXCEPT ![t] = "saving"]
  /\ UNCHANGED <<db, cache, helper, target, overlap>>

SaveReturns(t) == step[t] = "saving" /\ WriteReturns(t) /\ Moves(t, "done")

\* The Store answers, or rejects: then the helper does, and the batch is over.
StoreAnswers(t) ==
  /\ Answers(t) /\ UNCHANGED <<step, helper, target, includes, overlap>>
CallRejects(t) ==
  /\ step[t] \in {"loading", "saving"} /\ Rejects(t)
  /\ step' = [u \in Task |-> "failed"]
  /\ UNCHANGED <<helper, target, includes, overlap>>

UsesCache(t) ==
  /\ step[t] = "free" /\ (CallsCache(t) \/ Rejects(t) \/ ReadReturns(t) \/ WriteReturns(t))
  /\ UNCHANGED <<step, helper, target, includes, overlap>>

UpdatesOver ==
  (\A t \in Task : step[t] \in {"done", "skipped", "failed"}) /\ UNCHANGED updateVars

UpdateNext ==
  \/ \E t \in Task :
       \/ \E i \in Id : LoadHits(t, i) \/ LoadMisses(t, i)
       \/ LoadReturns(t) \/ Skips(t) \/ Updates(t) \/ SaveReturns(t)
       \/ StoreAnswers(t) \/ CallRejects(t) \/ UsesCache(t)
  \/ UpdatesOver

UpdateSpec == UpdateInit /\ [][UpdateNext]_updateVars

-----------------------------------------------------------------------------
\* "One path, one save": the row includes the mutation of every call that
\* returned, and of no call that skipped, however the calls interleave, unless
\* one came beside another's load of the row: while that was under way, or with a
\* query of its own before the other's save was sent (then two instances of the
\* row are about, and the later save drops what the earlier one changed).
UpdatesKept ==
  ~overlap =>
    \A t \in Task : /\ step[t] = "done" => t \in includes[db[target[t]]]
                    /\ step[t] = "skipped" => t \notin includes[db[target[t]]]

-----------------------------------------------------------------------------
UpdateTypeOK ==
  /\ step \in [Task -> {"free", "failed", "off", "loading", "loaded", "skipped", "saving", "done"}]
  /\ helper \in [Task -> {"withEntity", "getOrCreateAndUpdate"}]
  /\ target \in [Task -> Id \cup {None}]
  /\ includes \in [Version -> SUBSET Task] /\ overlap \in BOOLEAN
  /\ version <= MaxVersion

\* Where a call of a helper is tells what its task has asked for and holds.
CallOf(t) ==
  /\ step[t] \in {"off", "loaded", "skipped", "done"} => ~Pending(t)
  /\ step[t] \in {"off", "loading"} => held[t] = None
  /\ step[t] \in {"loading", "loaded", "skipped", "saving", "done"} => target[t] \in Id
  /\ step[t] = "loading" => Pending(t) /\ query[t].kind = "get" /\ query[t].id = target[t]
  /\ step[t] = "loaded" => held[t] = None \/ instance[held[t]].id = target[t]
  /\ step[t] = "saving" => Pending(t) /\ query[t].kind = "upsert" /\ query[t].id = target[t]

CallInv == \A t \in Task : CallOf(t)

\* The tasks are calls of the helpers and none has failed.
Calling == \A t \in Task : step[t] \notin {"free", "failed"}

\* The calls for the row whose mutation was made and did not fail.
Applied(i) == {t \in Task : target[t] = i /\ step[t] \in {"saving", "done"}}

\* The instances a call for the row may yet be given, holds, or is saving.
Live(i) ==
  {o \in Object :
     \/ o = cache[i]
     \/ \E t \in Task : /\ target[t] = i
                        /\ \/ step[t] = "loaded" /\ held[t] = o
                           \/ step[t] = "saving" /\ query[t].object = o}

\* A row has one instance at a time, and it includes every mutation made.
OneInstance ==
  \A i \in Id : \A o \in Live(i) :
    /\ \A p \in Live(i) : o = p
    /\ Applied(i) \subseteq includes[instance[o].version]

\* The row and the saves in the line make a lineage: each includes the calls
\* that returned and the saves ahead of it.
Lineage ==
  /\ \A t \in Task : step[t] = "done" => t \in includes[db[target[t]]]
  /\ \A t \in Task : step[t] = "saving" =>
       /\ t \in includes[query[t].version]
       /\ \A u \in Task :
            step[u] = "done" /\ target[u] = target[t] => u \in includes[query[t].version]
  /\ \A a, b \in DOMAIN line :
       /\ a < b /\ step[line[a]] = "saving" /\ step[line[b]] = "saving"
       /\ target[line[a]] = target[line[b]]
       => line[a] \in includes[query[line[b]].version]

\* A load under way is the only one for its row and behind the row's saves; one
\* that found no row is alone with it.
LoadsAlone ==
  /\ \A t \in Task : step[t] = "loading" \/ (step[t] = "loaded" /\ held[t] = None) =>
       \A u \in Task : u # t /\ Loading(u) => target[u] # target[t]
  /\ \A a, b \in DOMAIN line :
       step[line[a]] = "loading" /\ step[line[b]] = "saving" /\ target[line[a]] = target[line[b]] => b < a
  /\ \A t \in Task : step[t] = "loaded" /\ held[t] = None =>
       cache[target[t]] = None /\ Applied(target[t]) = {}

\* Which mutations a version can include, and which rows there are.
Included ==
  /\ includes[0] = {}
  /\ \A v \in Version : \A t \in includes[v] : step[t] \in {"saving", "done"}
  /\ \A i \in Id : cache[i] # None => db[i] # 0

\* The tasks use the cache freely or their batch is over; or they are calls of
\* the helpers, and without an overlap nothing is lost.
KeptInv ==
  \/ \A t \in Task : step[t] \in {"free", "failed"}
  \/ /\ Calling
     /\ ~overlap => OneInstance /\ Lineage /\ LoadsAlone /\ Included

UpdateInv == CacheInv /\ UpdateTypeOK /\ CallInv /\ KeptInv
=============================================================================
