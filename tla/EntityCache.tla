----------------------------- MODULE EntityCache -----------------------------
(***************************************************************************)
(* createEntityCache of packages/indexer/squid-common/src/entityCache.ts:  *)
(* a read-through, write-through cache of entity instances over the Store  *)
(* of one batch.  Rows and instances carry a version in place of columns;  *)
(* one entity class stands for all, since each has a cache of its own.     *)
(*                                                                         *)
(* Tasks are the async calls a handler has under way at once.  A method    *)
(* runs in two jobs around its await: the call, which looks at the cache   *)
(* and sends the query, and the continuation, which fills or empties it.   *)
(* The Store (external) runs the queries of a batch on one connection: in  *)
(* order, and the next is answered after the continuation of the last ran. *)
(***************************************************************************)
EXTENDS Naturals, Sequences

CONSTANTS
  Task,         \* concurrent calls
  Id,           \* entity ids
  Object,       \* names for entity instances
  None,         \* JavaScript's undefined
  MaxVersion    \* bound of the versions: 0 is "no row"

ASSUME NoneIsNew == None \notin Object /\ None \notin Id
ASSUME VersionBound == MaxVersion \in Nat \ {0}

Version == 0 .. MaxVersion

VARIABLES
  db,        \* id -> version of the row, 0 when there is none
  cache,     \* id -> the cached instance, or None
  instance,  \* instance -> [id, version]
  unsaved,   \* history: instances mutated since they were last read or written
  held,      \* task -> the instance it works on, or None
  query,     \* task -> its query in the Store, or NoQuery
  line,      \* the tasks whose queries the connection has yet to finish, in order
  version    \* history: the last version made

cacheVars == <<db, cache, instance, unsaved, held, query, line, version>>

Reads == {"get", "find"}
Writes == {"insert", "upsert", "remove"}

NoQuery == [kind |-> "none", id |-> None, object |-> None, version |-> 0, state |-> "none"]

\* A batch starts with rows in the database and an empty cache.
CacheInit ==
  /\ db \in [Id -> {0, 1}]
  /\ cache = [i \in Id |-> None]
  /\ instance = [o \in Object |-> [id |-> None, version |-> 0]]
  /\ unsaved = {}
  /\ held = [t \in Task |-> None]
  /\ query = [t \in Task |-> NoQuery]
  /\ line = <<>>
  /\ version = 1

-----------------------------------------------------------------------------
Idle(t) == query[t].state = "none"

\* Nothing refers to the instance, so its name may stand for a new one.
FreshObject(o) ==
  /\ \A i \in Id : cache[i] # o
  /\ \A t \in Task : held[t] # o /\ query[t].object # o

Send(t, kind, i, o, v) ==
  /\ query' = [query EXCEPT ![t] =
       [kind |-> kind, id |-> i, object |-> o, version |-> v, state |-> "sent"]]
  /\ line' = Append(line, t)

\* The continuation of the query at the head of the line runs.
Finish(t) ==
  /\ query' = [query EXCEPT ![t] = NoQuery]
  /\ line' = Tail(line)

\* get, getOrFail: a hit returns the cached instance.
GetHit(t, i) ==
  /\ Idle(t) /\ cache[i] # None
  /\ held' = [held EXCEPT ![t] = cache[i]]
  /\ UNCHANGED <<db, cache, instance, unsaved, query, line, version>>

\* The cache has no instance for the id.
Miss(i) == cache[i] = None

\* get, getOrFail: a miss asks the Store.
GetMiss(t, i) ==
  /\ Idle(t) /\ Miss(i)
  /\ Send(t, "get", i, None, 0)
  /\ UNCHANGED <<db, cache, instance, unsaved, held, version>>

\* find, findOne: asks the Store whatever is cached.
Find(t, i) ==
  /\ Idle(t)
  /\ Send(t, "find", i, None, 0)
  /\ UNCHANGED <<db, cache, instance, unsaved, held, version>>

\* The handler makes an entity of its own (external).
Make(t, i) ==
  /\ Idle(t) /\ version < MaxVersion
  /\ \E o \in Object :
       /\ FreshObject(o)
       /\ instance' = [instance EXCEPT ![o] = [id |-> i, version |-> version + 1]]
       /\ held' = [held EXCEPT ![t] = o]
       /\ unsaved' = unsaved \cup {o}
  /\ version' = version + 1
  /\ UNCHANGED <<db, cache, query, line>>

\* The handler assigns to fields of the instance it holds (external).
Mutate(t) ==
  /\ Idle(t) /\ held[t] # None /\ version < MaxVersion
  /\ instance' = [instance EXCEPT ![held[t]].version = version + 1]
  /\ unsaved' = unsaved \cup {held[t]}
  /\ version' = version + 1
  /\ UNCHANGED <<db, cache, held, query, line>>

\* insert, upsert, save, remove: the query carries what the instance holds now.
Write(t, kind) ==
  /\ Idle(t) /\ held[t] # None
  /\ Send(t, kind, instance[held[t]].id, held[t], instance[held[t]].version)
  /\ UNCHANGED <<db, cache, instance, unsaved, held, version>>

\* The Store answers the query at the head of the line; insert fails on an
\* existing row.
Answers(t) ==
  LET q == query[t]
      stores == q.kind \in {"insert", "upsert"}
  IN /\ q.state = "sent" /\ t = Head(line)
     /\ q.kind = "insert" => db[q.id] = 0
     /\ db' = IF stores THEN [db EXCEPT ![q.id] = q.version]
              ELSE IF q.kind = "remove" THEN [db EXCEPT ![q.id] = 0] ELSE db
     /\ query' = [query EXCEPT ![t].state = "answered",
                               ![t].version = IF q.kind \in Reads THEN db[q.id] ELSE q.version]
     /\ unsaved' = IF stores /\ instance[q.object].version = q.version
                   THEN unsaved \ {q.object} ELSE unsaved
     /\ UNCHANGED <<cache, instance, held, line, version>>

\* Any query may reject, and so does the method: nothing is cached.
Rejects(t) ==
  /\ query[t].state = "sent" /\ t = Head(line)
  /\ Finish(t)
  /\ UNCHANGED <<db, cache, instance, unsaved, held, version>>

\* A read of no row caches nothing.
Found(t) == query[t].version # 0

\* The continuation of get, getOrFail and find: the row becomes a new
\* instance; get caches it, whatever is cached by now.
ReadReturns(t) ==
  /\ query[t].state = "answered" /\ query[t].kind \in Reads
  /\ Finish(t)
  /\ \/ /\ ~Found(t)
        /\ UNCHANGED <<cache, instance, unsaved, held>>
     \/ /\ Found(t)
        /\ \E o \in Object :
             /\ FreshObject(o)
             /\ instance' = [instance EXCEPT ![o] = [id |-> query[t].id, version |-> query[t].version]]
             /\ unsaved' = unsaved \ {o}
             /\ held' = [held EXCEPT ![t] = o]
             /\ cache' = IF query[t].kind = "get"
                         THEN [cache EXCEPT ![query[t].id] = o] ELSE cache
  /\ UNCHANGED <<db, version>>

\* Fault: remove does not invalidate.
CachedAfterKept(q) == IF q.kind = "remove" THEN cache[q.id] ELSE q.object

\* populate caches what was written, invalidate drops what was removed.
CachedAfter(q) == IF q.kind = "remove" THEN None ELSE q.object

\* The continuation of insert, upsert and save (populate) and of remove
\* (invalidate).
WriteReturns(t) ==
  /\ query[t].state = "answered" /\ query[t].kind \in Writes
  /\ Finish(t)
  /\ cache' = [cache EXCEPT ![query[t].id] = CachedAfter(query[t])]
  /\ UNCHANGED <<db, instance, unsaved, held, version>>

\* The handler drops the instance it holds (external).
Drop(t) ==
  /\ Idle(t) /\ held[t] # None
  /\ held' = [held EXCEPT ![t] = None]
  /\ UNCHANGED <<db, cache, instance, unsaved, query, line, version>>

CallsCache(t) ==
  \/ \E i \in Id : GetHit(t, i) \/ GetMiss(t, i) \/ Find(t, i) \/ Make(t, i)
  \/ \E kind \in Writes : Write(t, kind)
  \/ Mutate(t) \/ Drop(t)

CacheNext ==
  \E t \in Task :
    CallsCache(t) \/ Answers(t) \/ Rejects(t) \/ ReadReturns(t) \/ WriteReturns(t)

CacheSpec == CacheInit /\ [][CacheNext]_cacheVars

-----------------------------------------------------------------------------
\* No query on the row is between the Store and its continuation.
Quiet(i) == \A t \in Task : query[t].id = i => query[t].state = "sent"

\* "cached(entity) => matches the row most recently written or read by id":
\* a cached instance nobody has mutated since equals the row, whatever reads
\* and writes of other tasks were under way.
CacheCoherent ==
  \A i \in Id :
    cache[i] # None /\ cache[i] \notin unsaved /\ Quiet(i)
      => instance[cache[i]] = [id |-> i, version |-> db[i]]

\* "Subsequent reads of the same (entityClass, id) within the batch return the
\* cached instance - which is the same object the caller may have mutated": a
\* read never puts another instance in the place of a cached one; only a write
\* does.
ReadsKeepInstance ==
  [][\A i \in Id :
       cache[i] # None /\ cache'[i] \notin {None, cache[i]}
         => \E t \in Task : query[t].id = i /\ query[t].kind \in Writes /\ WriteReturns(t)
    ]_cacheVars

-----------------------------------------------------------------------------
Pending(t) == query[t].state # "none"
Writing(t) == Pending(t) /\ query[t].kind \in Writes

Query ==
  [kind : {"none"} \cup Reads \cup Writes, id : Id \cup {None}, object : Object \cup {None},
   version : Nat, state : {"none", "sent", "answered"}]

CacheTypeOK ==
  /\ db \in [Id -> Nat] /\ cache \in [Id -> Object \cup {None}]
  /\ instance \in [Object -> [id : Id \cup {None}, version : Nat]]
  /\ unsaved \in SUBSET Object /\ held \in [Task -> Object \cup {None}]
  /\ query \in [Task -> Query] /\ line \in Seq(Task) /\ version \in Nat

\* The line holds the tasks with a query, each once, and only the head's may be
\* answered: nothing comes between an answer and its continuation.
LineInv ==
  /\ \A a, b \in DOMAIN line : line[a] = line[b] => a = b
  /\ \A t \in Task : Pending(t) <=> \E a \in DOMAIN line : line[a] = t
  /\ \A t \in Task : query[t].state = "answered" => t = line[1]

\* Whose instance is whose, and what a query carries.
ObjectInv ==
  /\ \A i \in Id : cache[i] # None => instance[cache[i]].id = i
  /\ \A t \in Task : held[t] # None => instance[held[t]].id \in Id
  /\ \A t \in Task :
       /\ ~Pending(t) => query[t] = NoQuery
       /\ Pending(t) => query[t].id \in Id /\ query[t].kind \in Reads \cup Writes
       /\ Pending(t) /\ query[t].kind \in Reads => query[t].object = None
       /\ Writing(t) => query[t].object \in Object /\ instance[query[t].object].id = query[t].id

\* Versions only grow: a write carries its instance's version, or an older one
\* if the instance was mutated since, and the writes of an instance reach the
\* Store in the order of their versions.
VersionInv ==
  /\ \A i \in Id : db[i] <= version
  /\ \A o \in Object : instance[o].version <= version
  /\ \A t \in Task : Writing(t) =>
       /\ query[t].version <= instance[query[t].object].version
       /\ query[t].version # instance[query[t].object].version => query[t].object \in unsaved
  /\ \A a, b \in DOMAIN line :
       /\ a <= b /\ Writing(line[a]) /\ Writing(line[b])
       /\ query[line[a]].object = query[line[b]].object
       => query[line[a]].version <= query[line[b]].version

\* A write on the row is between the Store and its continuation.
BeingWritten(i) ==
  \E t \in Task : query[t].state = "answered" /\ query[t].id = i /\ query[t].kind \in Writes

\* An answer tells the row as it is until the continuation has run, and so does
\* a cached instance that nobody mutated, unless a write is about to replace it.
AnswerInv ==
  /\ \A t \in Task :
       query[t].state = "answered" /\ query[t].kind # "remove" => query[t].version = db[query[t].id]
  /\ \A i \in Id :
       cache[i] # None /\ cache[i] \notin unsaved /\ ~BeingWritten(i)
         => instance[cache[i]].version = db[i]

\* What the steps preserve.
CacheInv == CacheTypeOK /\ LineInv /\ ObjectInv /\ VersionInv /\ AnswerInv
=============================================================================
