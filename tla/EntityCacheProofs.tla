-------------------------- MODULE EntityCacheProofs --------------------------
(***************************************************************************)
(* Theorems about the entity cache and the helpers on top of it, for every *)
(* set of tasks, rows and instances and every bound of the versions.       *)
(***************************************************************************)
EXTENDS EntityUpdates, TLAPS

\* What Append does to the line.
LEMMA AppendFacts ==
  ASSUME NEW S, NEW s \in Seq(S), NEW e \in S
  PROVE  /\ Append(s, e) \in Seq(S) /\ Len(s) \in Nat
         /\ DOMAIN s = 1 .. Len(s) /\ DOMAIN Append(s, e) = 1 .. Len(s) + 1
         /\ \A a \in DOMAIN s : Append(s, e)[a] = s[a]
         /\ Append(s, e)[Len(s) + 1] = e
OBVIOUS

\* What Tail does to the line.
LEMMA TailFacts ==
  ASSUME NEW S, NEW s \in Seq(S), s # <<>>
  PROVE  /\ Tail(s) \in Seq(S) /\ Len(s) \in Nat \ {0}
         /\ DOMAIN s = 1 .. Len(s) /\ DOMAIN Tail(s) = 1 .. Len(s) - 1
         /\ \A a \in DOMAIN Tail(s) : Tail(s)[a] = s[a + 1]
         /\ Head(s) = s[1]
OBVIOUS

\* A query is sent: its task, which had none, joins the line.
LEMMA SendLine ==
  ASSUME CacheTypeOK, LineInv, NEW t \in Task, ~Pending(t),
         NEW kind \in Reads \cup Writes, NEW i \in Id, NEW o \in Object \cup {None}, NEW v \in Nat,
         Send(t, kind, i, o, v)
  PROVE  /\ LineInv' /\ query' \in [Task -> Query] /\ line' \in Seq(Task)
         /\ query'[t] = [kind |-> kind, id |-> i, object |-> o, version |-> v, state |-> "sent"]
         /\ \A u \in Task : u # t => query'[u] = query[u]
         /\ \A a \in DOMAIN line' :
              (a \in DOMAIN line /\ line'[a] = line[a] /\ line'[a] # t) \/ (line'[a] = t /\ a = Len(line) + 1)
         /\ DOMAIN line = 1 .. Len(line) /\ Len(line) \in Nat
<1>1. /\ query' \in [Task -> Query]
      /\ query'[t] = [kind |-> kind, id |-> i, object |-> o, version |-> v, state |-> "sent"]
      /\ \A u \in Task : u # t => query'[u] = query[u]
  BY DEF Send, CacheTypeOK, Query
<1>2. /\ line' \in Seq(Task) /\ Len(line) \in Nat
      /\ DOMAIN line = 1 .. Len(line) /\ DOMAIN line' = 1 .. Len(line) + 1
      /\ \A a \in DOMAIN line : line'[a] = line[a]
      /\ line'[Len(line) + 1] = t
  BY AppendFacts DEF Send, CacheTypeOK
<1>3. \A a \in DOMAIN line : line[a] # t /\ line[a] \in Task
  BY <1>2 DEF LineInv, CacheTypeOK
<1>4. \A a \in DOMAIN line' :
        (a \in DOMAIN line /\ line'[a] = line[a] /\ line'[a] # t) \/ (line'[a] = t /\ a = Len(line) + 1)
  BY <1>2, <1>3
<1>5. \A a, b \in DOMAIN line' : line'[a] = line'[b] => a = b
  BY <1>4 DEF LineInv
<1>6. \A u \in Task : Pending(u)' <=> \E a \in DOMAIN line' : line'[a] = u
  <2> SUFFICES ASSUME NEW u \in Task PROVE Pending(u)' <=> \E a \in DOMAIN line' : line'[a] = u
    OBVIOUS
  <2>1. CASE u = t
    BY <1>1, <1>2, <2>1 DEF Pending
  <2>2. CASE u # t
    BY <1>1, <1>2, <1>4, <2>2 DEF Pending, LineInv
  <2> QED BY <2>1, <2>2
<1>7. \A u \in Task : query'[u].state = "answered" => u = line'[1]
  BY <1>1, <1>2, <1>3 DEF LineInv, Pending
<1> QED BY <1>1, <1>2, <1>4, <1>5, <1>6, <1>7 DEF LineInv

\* The query at the head of the line is over.
LEMMA FinishLine ==
  ASSUME CacheTypeOK, LineInv, NoneIsNew, NEW t \in Task, Pending(t), t = line[1], Finish(t)
  PROVE  /\ LineInv' /\ query' \in [Task -> Query] /\ line' \in Seq(Task)
         /\ query'[t] = NoQuery
         /\ \A u \in Task : u # t => query'[u] = query[u] /\ query[u].state # "answered"
         /\ \A a \in DOMAIN line' : a \in Nat /\ a + 1 \in DOMAIN line /\ line'[a] = line[a + 1] /\ line'[a] # t
<1>1. /\ query' \in [Task -> Query] /\ query'[t] = NoQuery
      /\ \A u \in Task : u # t => query'[u] = query[u]
  BY DEF Finish, CacheTypeOK, Query, NoQuery
<1>2. PICK k \in DOMAIN line : line[k] = t
  BY DEF LineInv
<1>3. line # <<>> /\ line \in Seq(Task)
  BY <1>2 DEF CacheTypeOK
<1>4. /\ line' \in Seq(Task) /\ Len(line) \in Nat \ {0}
      /\ DOMAIN line = 1 .. Len(line) /\ DOMAIN line' = 1 .. Len(line) - 1
      /\ \A a \in DOMAIN line' : line'[a] = line[a + 1]
  BY <1>3, TailFacts DEF Finish
<1>5. \A a \in DOMAIN line' : a \in Nat /\ a + 1 \in DOMAIN line /\ line'[a] = line[a + 1] /\ line'[a] # t
  BY <1>4 DEF LineInv
<1>6. \A a, b \in DOMAIN line' : line'[a] = line'[b] => a = b
  BY <1>4, <1>5 DEF LineInv
<1>7. \A u \in Task : u # t => query[u].state # "answered"
  BY DEF LineInv
<1>8. \A u \in Task : Pending(u)' <=> \E a \in DOMAIN line' : line'[a] = u
  <2> SUFFICES ASSUME NEW u \in Task PROVE Pending(u)' <=> \E a \in DOMAIN line' : line'[a] = u
    OBVIOUS
  <2>1. CASE u = t
    BY <1>1, <1>5, <2>1 DEF Pending, NoQuery
  <2>2. ASSUME u # t, Pending(u)' PROVE \E a \in DOMAIN line' : line'[a] = u
    <3>1. PICK b \in DOMAIN line : line[b] = u
      BY <1>1, <2>2 DEF LineInv, Pending
    <3>2. b # 1 /\ b - 1 \in DOMAIN line' /\ line'[b - 1] = u
      BY <1>4, <2>2, <3>1
    <3> QED BY <3>2
  <2>3. ASSUME u # t, NEW a \in DOMAIN line', line'[a] = u PROVE Pending(u)'
    BY <1>1, <1>5, <2>3 DEF LineInv, Pending
  <2> QED BY <2>1, <2>2, <2>3
<1> QED BY <1>1, <1>4, <1>5, <1>6, <1>7, <1>8 DEF LineInv, NoQuery

\* A batch that starts.
LEMMA InitCache == CacheInit => CacheInv
<1> SUFFICES ASSUME CacheInit PROVE CacheInv
  OBVIOUS
<1>1. CacheTypeOK
  BY NoneIsNew DEF CacheInit, CacheTypeOK, Query, NoQuery
<1>2. /\ \A t \in Task : query[t] = NoQuery /\ held[t] = None
      /\ \A i \in Id : cache[i] = None /\ db[i] <= 1
      /\ \A o \in Object : instance[o].version = 0
      /\ version = 1 /\ line = <<>>
  BY DEF CacheInit
<1>3. DOMAIN line = {}
  BY <1>2
<1>4. LineInv
  BY <1>2, <1>3 DEF LineInv, Pending, NoQuery
<1>5. ObjectInv
  BY <1>2 DEF ObjectInv, Pending, Writing, NoQuery
<1>6. VersionInv
  BY <1>2, <1>3 DEF VersionInv, Pending, Writing, NoQuery
<1>7. AnswerInv
  BY <1>2 DEF AnswerInv, NoQuery
<1> QED BY <1>1, <1>4, <1>5, <1>6, <1>7 DEF CacheInv

\* A call that misses, a find or a write sends its query; a write carries what
\* its instance holds.
LEMMA SendKeeps ==
  ASSUME CacheInv, NEW t \in Task, ~Pending(t),
         NEW kind \in Reads \cup Writes, NEW i \in Id, NEW o \in Object \cup {None}, NEW v \in Nat,
         Send(t, kind, i, o, v),
         kind \in Reads => o = None,
         kind \in Writes => o \in Object /\ instance[o].id = i /\ instance[o].version = v,
         UNCHANGED <<db, cache, instance, unsaved, held, version>>
  PROVE  CacheInv'
<1>1. CacheTypeOK /\ LineInv /\ ObjectInv /\ VersionInv /\ AnswerInv
  BY DEF CacheInv
<1>2. /\ LineInv' /\ query' \in [Task -> Query] /\ line' \in Seq(Task)
      /\ query'[t] = [kind |-> kind, id |-> i, object |-> o, version |-> v, state |-> "sent"]
      /\ \A u \in Task : u # t => query'[u] = query[u]
      /\ \A a \in DOMAIN line' :
           (a \in DOMAIN line /\ line'[a] = line[a] /\ line'[a] # t) \/ (line'[a] = t /\ a = Len(line) + 1)
      /\ DOMAIN line = 1 .. Len(line) /\ Len(line) \in Nat
  BY <1>1, SendLine
<1>3. CacheTypeOK'
  BY <1>1, <1>2 DEF CacheTypeOK
<1>4. ObjectInv'
  BY <1>1, <1>2 DEF ObjectInv, Pending, Writing
<1>5. \A a \in DOMAIN line : line[a] \in Task
  BY <1>1, <1>2 DEF CacheTypeOK
<1>6. VersionInv'
  <2>1. \A u \in Task : Writing(u)' =>
          /\ query'[u].version <= instance[query'[u].object].version
          /\ query'[u].version # instance[query'[u].object].version => query'[u].object \in unsaved
    BY <1>1, <1>2 DEF VersionInv, Pending, Writing, CacheTypeOK
  <2>2. ASSUME NEW a \in DOMAIN line', NEW b \in DOMAIN line', a <= b,
               Writing(line[a])', Writing(line[b])',
               query'[line'[a]].object = query'[line'[b]].object
        PROVE  query'[line'[a]].version <= query'[line'[b]].version
    <3>1. CASE line'[b] # t
      <4>1. line'[a] # t /\ a \in DOMAIN line /\ b \in DOMAIN line
        BY <1>2, <2>2, <3>1
      <4> QED BY <1>1, <1>2, <1>5, <2>2, <3>1, <4>1 DEF VersionInv, Pending, Writing
    <3>2. CASE line'[b] = t
      <4>1. line'[a] \in Task
        BY <1>2, <1>5, <2>2
      <4>2. query'[line'[a]].version <= instance[query'[line'[a]].object].version
        BY <2>1, <2>2, <4>1
      <4>3. query'[line'[b]].version = instance[query'[line'[b]].object].version
        BY <1>2, <2>2, <3>2 DEF Writing, Pending
      <4> QED BY <2>2, <4>2, <4>3
    <3> QED BY <3>1, <3>2
  <2> QED BY <1>1, <2>1, <2>2 DEF VersionInv
<1>7. AnswerInv'
  <2>1. \A u \in Task : query'[u].state = "answered" => u # t
    BY <1>2
  <2>2. \A j \in Id : BeingWritten(j)' <=> BeingWritten(j)
    BY <1>2, <2>1 DEF BeingWritten, Pending
  <2> QED BY <1>1, <1>2, <2>1, <2>2 DEF AnswerInv
<1> QED BY <1>2, <1>3, <1>4, <1>6, <1>7 DEF CacheInv

\* The query at the head of the line is over, whatever its continuation did to
\* the cache and to an instance that nothing referred to.
LEMMA FinishKeeps ==
  ASSUME CacheInv, NEW t \in Task, Pending(t), t = line[1], Finish(t), UNCHANGED <<db, version>>,
         instance' \in [Object -> [id : Id \cup {None}, version : Nat]], unsaved' \in SUBSET Object,
         held' \in [Task -> Object \cup {None}], cache' \in [Id -> Object \cup {None}],
         \A o \in Object : FreshObject(o) \/ (instance'[o] = instance[o] /\ (o \in unsaved' <=> o \in unsaved)),
         \A o \in Object : instance'[o].version <= version,
         \A u \in Task : held'[u] # None => instance'[held'[u]].id \in Id,
         \A i \in Id : cache'[i] # None =>
           /\ instance'[cache'[i]].id = i
           /\ cache'[i] \notin unsaved' => instance'[cache'[i]].version = db[i]
  PROVE  CacheInv'
<1>1. CacheTypeOK /\ LineInv /\ ObjectInv /\ VersionInv /\ AnswerInv
  BY DEF CacheInv
<1>2. /\ LineInv' /\ query' \in [Task -> Query] /\ line' \in Seq(Task)
      /\ query'[t] = NoQuery
      /\ \A u \in Task : u # t => query'[u] = query[u] /\ query[u].state # "answered"
      /\ \A a \in DOMAIN line' : a \in Nat /\ a + 1 \in DOMAIN line /\ line'[a] = line[a + 1] /\ line'[a] # t
  BY <1>1, NoneIsNew, FinishLine
<1>3. CacheTypeOK'
  BY <1>1, <1>2 DEF CacheTypeOK
<1>4. \A u \in Task : Writing(u)' =>
        LET o == query[u].object IN
        /\ u # t /\ query'[u] = query[u] /\ Writing(u) /\ o \in Object
        /\ instance'[o] = instance[o] /\ (o \in unsaved' <=> o \in unsaved)
  BY <1>1, <1>2 DEF Writing, Pending, NoQuery, FreshObject, ObjectInv
<1>5. ObjectInv'
  <2>1. \A u \in Task : Writing(u)' =>
          query'[u].object \in Object /\ instance'[query'[u].object].id = query'[u].id
    BY <1>1, <1>4 DEF ObjectInv
  <2>2. \A u \in Task :
          /\ ~Pending(u)' => query'[u] = NoQuery
          /\ Pending(u)' => query'[u].id \in Id /\ query'[u].kind \in Reads \cup Writes
          /\ Pending(u)' /\ query'[u].kind \in Reads => query'[u].object = None
    <3>1. ASSUME NEW u \in Task, u # t, query'[u] = query[u]
          PROVE /\ ~Pending(u)' => query'[u] = NoQuery
                /\ Pending(u)' => query'[u].id \in Id /\ query'[u].kind \in Reads \cup Writes
                /\ Pending(u)' /\ query'[u].kind \in Reads => query'[u].object = None
      BY <1>1, <3>1 DEF ObjectInv, Pending
    <3>2. ~Pending(t)'
      BY <1>2 DEF Pending, NoQuery
    <3> QED BY <1>2, <3>1, <3>2
  <2> QED BY <2>1, <2>2 DEF ObjectInv
<1>6. VersionInv'
  <2>1. ASSUME NEW a \in DOMAIN line', NEW b \in DOMAIN line', a <= b,
               Writing(line[a])', Writing(line[b])',
               query'[line'[a]].object = query'[line'[b]].object
        PROVE  query'[line'[a]].version <= query'[line'[b]].version
    <3>1. line'[a] \in Task /\ line'[b] \in Task
      BY <1>2
    <3>2. a + 1 \in DOMAIN line /\ b + 1 \in DOMAIN line /\ a + 1 <= b + 1
      BY <1>2, <2>1
    <3> QED BY <1>1, <1>2, <1>4, <2>1, <3>1, <3>2 DEF VersionInv
  <2>2. \A u \in Task : Writing(u)' =>
          /\ query'[u].version <= instance'[query'[u].object].version
          /\ query'[u].version # instance'[query'[u].object].version => query'[u].object \in unsaved'
    BY <1>1, <1>4 DEF VersionInv
  <2> QED BY <1>1, <2>1, <2>2 DEF VersionInv
<1>7. AnswerInv'
  BY <1>2 DEF AnswerInv, NoQuery
<1> QED BY <1>2, <1>3, <1>5, <1>6, <1>7 DEF CacheInv

\* A query rejects: nothing is cached.
LEMMA RejectsKeeps ==
  ASSUME CacheInv, NEW t \in Task, Rejects(t)
  PROVE  CacheInv'
<1>1. CacheTypeOK /\ LineInv /\ ObjectInv /\ VersionInv /\ AnswerInv
  BY DEF CacheInv
<1>2. Pending(t) /\ t = line[1]
  <2>1. Pending(t) /\ t = Head(line)
    BY DEF Rejects, Pending
  <2>2. line # <<>> /\ line \in Seq(Task)
    BY <1>1, <2>1 DEF LineInv, CacheTypeOK
  <2> QED BY <2>1, <2>2, TailFacts
<1>3. \A i \in Id : ~BeingWritten(i)
  BY <1>1, <1>2 DEF BeingWritten, Rejects, LineInv
<1> QED BY <1>1, <1>2, <1>3, FinishKeeps
        DEF Rejects, CacheTypeOK, ObjectInv, VersionInv, AnswerInv

\* An answered query is the one at the head of the line.
LEMMA AnsweredIsHead ==
  ASSUME CacheInv, NEW t \in Task, query[t].state = "answered"
  PROVE  /\ Pending(t) /\ t = line[1] /\ query[t].id \in Id
         /\ \A i \in Id : BeingWritten(i) => i = query[t].id /\ query[t].kind \in Writes
<1>1. LineInv /\ ObjectInv
  BY DEF CacheInv
<1>2. Pending(t)
  BY DEF Pending
<1> QED BY <1>1, <1>2 DEF LineInv, ObjectInv, BeingWritten

\* The row that was read becomes a new instance, as the row still is.
LEMMA ReadReturnsKeeps ==
  ASSUME CacheInv, NEW t \in Task, ReadReturns(t)
  PROVE  CacheInv'
<1>1. CacheTypeOK /\ LineInv /\ ObjectInv /\ VersionInv /\ AnswerInv
  BY DEF CacheInv
<1>2. /\ Pending(t) /\ t = line[1] /\ query[t].id \in Id /\ query[t].kind \in Reads
      /\ query[t].version = db[query[t].id] /\ \A i \in Id : ~BeingWritten(i)
      /\ Finish(t) /\ UNCHANGED <<db, version>>
  BY <1>1, AnsweredIsHead DEF ReadReturns, Reads, Writes, AnswerInv
<1>3. CASE UNCHANGED <<cache, instance, unsaved, held>>
  BY <1>1, <1>2, <1>3, FinishKeeps DEF CacheTypeOK, ObjectInv, VersionInv, AnswerInv
<1>4. ASSUME NEW o \in Object, FreshObject(o),
             instance' = [instance EXCEPT ![o] = [id |-> query[t].id, version |-> query[t].version]],
             unsaved' = unsaved \ {o}, held' = [held EXCEPT ![t] = o],
             cache' = [cache EXCEPT ![query[t].id] = o] \/ cache' = cache
      PROVE  CacheInv'
  <2>1. /\ instance' \in [Object -> [id : Id \cup {None}, version : Nat]] /\ unsaved' \in SUBSET Object
        /\ held' \in [Task -> Object \cup {None}] /\ cache' \in [Id -> Object \cup {None}]
    BY <1>1, <1>2, <1>4 DEF CacheTypeOK
  <2>2. \A p \in Object : p # o => instance'[p] = instance[p] /\ (p \in unsaved' <=> p \in unsaved)
    BY <1>1, <1>4 DEF CacheTypeOK
  <2>3. /\ instance'[o].id = query[t].id /\ instance'[o].version = db[query[t].id] /\ o # None
    BY <1>1, <1>2, <1>4, NoneIsNew DEF CacheTypeOK
  <2>4. \A p \in Object : instance'[p].version <= version
    BY <1>1, <1>2, <2>2, <2>3 DEF VersionInv
  <2>5. \A u \in Task : held'[u] # None => instance'[held'[u]].id \in Id
    BY <1>1, <1>2, <1>4, <2>2, <2>3 DEF CacheTypeOK, ObjectInv
  <2>6. ASSUME NEW i \in Id, cache'[i] # None
        PROVE  /\ instance'[cache'[i]].id = i
               /\ cache'[i] \notin unsaved' => instance'[cache'[i]].version = db[i]
    <3>1. CASE cache'[i] = cache[i]
      <4>1. cache[i] \in Object /\ cache[i] # o
        BY <1>1, <1>4, <2>6, <3>1 DEF CacheTypeOK, FreshObject
      <4> QED BY <1>1, <1>2, <2>2, <2>6, <3>1, <4>1 DEF ObjectInv, AnswerInv
    <3>2. CASE cache'[i] # cache[i]
      BY <1>1, <1>4, <2>3, <3>2 DEF CacheTypeOK
    <3> QED BY <3>1, <3>2
  <2> QED BY <1>2, <1>4, <2>1, <2>2, <2>4, <2>5, <2>6, FinishKeeps
<1> QED BY <1>3, <1>4 DEF ReadReturns

\* populate and invalidate leave the cache as the row is, or with an instance
\* that was mutated while its write was under way.
LEMMA WriteReturnsKeeps ==
  ASSUME CacheInv, NEW t \in Task, WriteReturns(t)
  PROVE  CacheInv'
<1>1. CacheTypeOK /\ LineInv /\ ObjectInv /\ VersionInv /\ AnswerInv
  BY DEF CacheInv
<1>2. /\ Pending(t) /\ t = line[1] /\ query[t].id \in Id /\ query[t].kind \in Writes
      /\ Finish(t) /\ UNCHANGED <<db, instance, unsaved, held, version>>
      /\ \A i \in Id : i # query[t].id => ~BeingWritten(i)
      /\ cache' = [cache EXCEPT ![query[t].id] = CachedAfter(query[t])]
  BY AnsweredIsHead DEF WriteReturns
<1>3. query[t].object \in Object /\ instance[query[t].object].id = query[t].id
  BY <1>1, <1>2 DEF ObjectInv, Writing
<1>4. query[t].kind # "remove" /\ query[t].object \notin unsaved
        => instance[query[t].object].version = db[query[t].id]
  BY <1>1, <1>2, <1>3 DEF VersionInv, AnswerInv, Writing, WriteReturns
<1>5. cache' \in [Id -> Object \cup {None}]
  BY <1>1, <1>2, <1>3 DEF CacheTypeOK, CachedAfter
<1>6. ASSUME NEW i \in Id, cache'[i] # None
      PROVE  /\ instance[cache'[i]].id = i
             /\ cache'[i] \notin unsaved => instance[cache'[i]].version = db[i]
  <2>1. CASE i = query[t].id
    BY <1>1, <1>2, <1>3, <1>4, <1>6, <2>1 DEF CacheTypeOK, CachedAfter
  <2>2. CASE i # query[t].id
    BY <1>1, <1>2, <1>6, <2>2 DEF CacheTypeOK, ObjectInv, AnswerInv
  <2> QED BY <2>1, <2>2
<1> QED BY <1>1, <1>2, <1>5, <1>6, FinishKeeps DEF CacheTypeOK, ObjectInv, VersionInv

\* The Store answers the head of the line.  A write takes its instance off the
\* unsaved ones only if that holds what was written, and then so do the later
\* writes of the instance that are still in the line.
LEMMA AnswersKeeps ==
  ASSUME CacheInv, NEW t \in Task, Answers(t)
  PROVE  CacheInv'
<1> DEFINE q == query[t]
           stores == q.kind \in {"insert", "upsert"}
<1>1. CacheTypeOK /\ LineInv /\ ObjectInv /\ VersionInv /\ AnswerInv
  BY DEF CacheInv
<1>2. /\ q.state = "sent" /\ Pending(t) /\ UNCHANGED <<cache, instance, held, line, version>>
      /\ q \in Query /\ q.id \in Id /\ q.kind \in Reads \cup Writes
  BY <1>1 DEF Answers, Pending, ObjectInv, CacheTypeOK
<1>3. t = line[1] /\ line # <<>> /\ DOMAIN line = 1 .. Len(line) /\ Len(line) \in Nat \ {0}
  <2>1. t = Head(line)
    BY DEF Answers
  <2>2. line # <<>> /\ line \in Seq(Task)
    BY <1>1, <1>2 DEF LineInv, CacheTypeOK
  <2> QED BY <2>1, <2>2, TailFacts
<1>4. db' = IF stores THEN [db EXCEPT ![q.id] = q.version]
            ELSE IF q.kind = "remove" THEN [db EXCEPT ![q.id] = 0] ELSE db
  BY DEF Answers
<1>5. query' = [query EXCEPT ![t].state = "answered",
                             ![t].version = IF q.kind \in Reads THEN db[q.id] ELSE q.version]
  BY DEF Answers
<1>6. unsaved' = IF stores /\ instance[q.object].version = q.version
                 THEN unsaved \ {q.object} ELSE unsaved
  BY DEF Answers
<1>7. /\ query'[t].state = "answered" /\ query'[t].id = q.id /\ query'[t].kind = q.kind
      /\ query'[t].object = q.object
      /\ query'[t].version = IF q.kind \in Reads THEN db[q.id] ELSE q.version
      /\ \A u \in Task : u # t => query'[u] = query[u]
      /\ query' \in [Task -> Query]
  BY <1>1, <1>2, <1>5 DEF CacheTypeOK, Query
<1>8. db' \in [Id -> Nat] /\ unsaved' \in SUBSET Object
  BY <1>1, <1>2, <1>4, <1>6 DEF CacheTypeOK, Query
<1>9. CacheTypeOK'
  BY <1>1, <1>2, <1>7, <1>8 DEF CacheTypeOK
<1>10. \A u \in Task : (Pending(u)' <=> Pending(u)) /\ (Writing(u)' <=> Writing(u))
  BY <1>2, <1>7 DEF Pending, Writing
<1>11. LineInv'
  BY <1>1, <1>2, <1>3, <1>7, <1>10 DEF LineInv
<1>12. ObjectInv'
  <2>1. \A u \in Task : query'[u].id = query[u].id /\ query'[u].kind = query[u].kind
                          /\ query'[u].object = query[u].object
    BY <1>7
  <2>2. \A u \in Task : ~Pending(u)' => query'[u] = NoQuery
    BY <1>1, <1>2, <1>7, <1>10 DEF ObjectInv
  <2> QED BY <1>1, <1>2, <1>10, <2>1, <2>2 DEF ObjectInv
<1>13. \A u \in Task : Writing(u) => query'[u].version = query[u].version /\ query'[u].object = query[u].object
  BY <1>7 DEF Writing, Reads, Writes
<1>14. ASSUME NEW u \in Task, Writing(u), query[u].version # instance[query[u].object].version
       PROVE  query[u].object \in unsaved'
  <2>1. query[u].object \in unsaved
    BY <1>1, <1>14 DEF VersionInv
  <2>2. CASE stores /\ instance[q.object].version = q.version /\ query[u].object = q.object
    <3>1. Writing(t)
      BY <1>2, <2>2 DEF Writing, Writes
    <3>2. PICK b \in DOMAIN line : line[b] = u
      BY <1>1, <1>14 DEF LineInv, Writing
    <3>3. 1 \in DOMAIN line /\ 1 <= b
      BY <1>3, <3>2
    <3>4. q.version <= query[u].version
      BY <1>1, <1>3, <1>14, <2>2, <3>1, <3>2, <3>3 DEF VersionInv
    <3>5. query[u].version <= instance[query[u].object].version
      BY <1>1, <1>14 DEF VersionInv
    <3>6. query[u].version \in Nat /\ q.version \in Nat
      BY <1>1, <1>2 DEF CacheTypeOK, Query
    <3> QED BY <1>14, <2>2, <3>4, <3>5, <3>6
  <2> QED BY <1>6, <2>1, <2>2
<1>15. VersionInv'
  <2>1. \A i \in Id : db'[i] <= version
    <3>1. stores => q.version <= version
      <4> SUFFICES ASSUME stores PROVE q.version <= version
        OBVIOUS
      <4>1. Writing(t) /\ q.object \in Object
        BY <1>1, <1>2 DEF Writing, Writes, ObjectInv
      <4>2. q.version <= instance[q.object].version /\ instance[q.object].version <= version
        BY <1>1, <4>1 DEF VersionInv
      <4> QED BY <1>1, <1>2, <4>1, <4>2 DEF CacheTypeOK, Query
    <3> QED BY <1>1, <1>2, <1>4, <3>1 DEF VersionInv, CacheTypeOK
  <2>2. \A u \in Task : Writing(u)' =>
          /\ query'[u].version <= instance'[query'[u].object].version
          /\ query'[u].version # instance'[query'[u].object].version => query'[u].object \in unsaved'
    BY <1>1, <1>2, <1>10, <1>13, <1>14 DEF VersionInv
  <2>3. \A a \in DOMAIN line : line[a] \in Task
    BY <1>1 DEF CacheTypeOK
  <2>4. \A a, b \in DOMAIN line' :
          a <= b /\ Writing(line[a])' /\ Writing(line[b])' /\ query'[line'[a]].object = query'[line'[b]].object
            => query'[line'[a]].version <= query'[line'[b]].version
    BY <1>1, <1>2, <1>10, <1>13, <2>3 DEF VersionInv
  <2> QED BY <1>1, <1>2, <2>1, <2>2, <2>4 DEF VersionInv
<1>16. AnswerInv'
  <2>1. \A u \in Task : query'[u].state = "answered" => u = t
    BY <1>2, <1>3, <1>11 DEF LineInv, CacheTypeOK
  <2>2. q.kind # "remove" => query'[t].version = db'[q.id]
    BY <1>1, <1>2, <1>4, <1>7 DEF CacheTypeOK, Reads, Writes
  <2>3. ASSUME NEW i \in Id, cache[i] # None, cache[i] \notin unsaved', ~BeingWritten(i)'
        PROVE  instance[cache[i]].version = db'[i]
    <3>1. \A u \in Task : query[u].state # "answered"
      BY <1>1, <1>2, <1>3 DEF LineInv
    <3>2. ~BeingWritten(i)
      BY <3>1 DEF BeingWritten
    <3>3. q.kind \in Writes => i # q.id
      BY <1>7, <2>3 DEF BeingWritten
    <3>4. db'[i] = db[i]
      BY <1>1, <1>2, <1>4, <3>3 DEF CacheTypeOK, Writes
    <3>5. cache[i] \notin unsaved
      <4>1. stores => q.object # cache[i]
        BY <1>1, <1>2, <2>3, <3>3 DEF ObjectInv, Writing, Writes
      <4> QED BY <1>6, <2>3, <4>1
    <3> QED BY <1>1, <2>3, <3>2, <3>4, <3>5 DEF AnswerInv
  <2> QED BY <1>2, <1>7, <2>1, <2>2, <2>3 DEF AnswerInv
<1> QED BY <1>9, <1>11, <1>12, <1>15, <1>16 DEF CacheInv
\* The handler changes an instance, a new one or the one it holds, and a helper
\* sends its save in the same job: no older version of the instance is behind it.
LEMMA ChangeKeeps ==
  ASSUME CacheInv, NEW t \in Task, ~Pending(t), NEW i \in Id, NEW o \in Object,
         FreshObject(o) \/ instance[o].id = i,
         instance' = [instance EXCEPT ![o] = [id |-> i, version |-> version + 1]],
         unsaved' = unsaved \cup {o}, held' = [held EXCEPT ![t] = o], version' = version + 1,
         UNCHANGED <<query, line>> \/ Send(t, "upsert", i, o, version + 1),
         UNCHANGED <<db, cache>>
  PROVE  CacheInv'
<1> DEFINE saved == [kind |-> "upsert", id |-> i, object |-> o, version |-> version + 1, state |-> "sent"]
<1>1. CacheTypeOK /\ LineInv /\ ObjectInv /\ VersionInv /\ AnswerInv
  BY DEF CacheInv
<1>2. /\ LineInv' /\ query' \in [Task -> Query] /\ line' \in Seq(Task)
      /\ \A u \in Task : query'[u] = query[u] \/ (u = t /\ query'[u] = saved)
      /\ \A a \in DOMAIN line' :
           \/ a \in DOMAIN line /\ line'[a] = line[a] /\ line'[a] # t
           \/ line'[a] = t /\ query'[t] = saved /\ a = Len(line) + 1
      /\ DOMAIN line = 1 .. Len(line) /\ Len(line) \in Nat
  <2>1. CASE UNCHANGED <<query, line>>
    <3>1. LineInv' /\ \A a \in DOMAIN line : line[a] # t
      BY <1>1, <2>1 DEF LineInv, Pending
    <3> QED BY <1>1, <2>1, <3>1 DEF CacheTypeOK
  <2>2. CASE Send(t, "upsert", i, o, version + 1)
    <3>1. version + 1 \in Nat /\ "upsert" \in Reads \cup Writes
      BY <1>1 DEF CacheTypeOK, Writes
    <3> QED BY <1>1, <2>2, <3>1, SendLine
  <2> QED BY <2>1, <2>2
<1>3. CacheTypeOK'
  BY <1>1, <1>2 DEF CacheTypeOK
<1>4. /\ instance'[o].id = i /\ instance'[o].version = version + 1
      /\ \A p \in Object : p # o => instance'[p] = instance[p]
  BY <1>1 DEF CacheTypeOK
<1>5. \A u \in Task : Writing(u)' =>
        \/ u = t /\ query'[u] = saved
        \/ /\ query'[u] = query[u] /\ Writing(u) /\ query[u].object \in Object
           /\ query[u].object = o => query[u].id = i
  BY <1>1, <1>2 DEF Writing, Pending, ObjectInv, FreshObject
<1>6. ObjectInv'
  <2>1. \A j \in Id : cache'[j] # None => instance'[cache'[j]].id = j
    BY <1>1, <1>4 DEF CacheTypeOK, ObjectInv, FreshObject
  <2>2. \A u \in Task : held'[u] # None => instance'[held'[u]].id \in Id
    BY <1>1, <1>4 DEF CacheTypeOK, ObjectInv
  <2>3. \A u \in Task : Writing(u)' =>
          query'[u].object \in Object /\ instance'[query'[u].object].id = query'[u].id
    BY <1>1, <1>4, <1>5 DEF ObjectInv
  <2>4. \A u \in Task :
          /\ ~Pending(u)' => query'[u] = NoQuery
          /\ Pending(u)' => query'[u].id \in Id /\ query'[u].kind \in Reads \cup Writes
          /\ Pending(u)' /\ query'[u].kind \in Reads => query'[u].object = None
    BY <1>1, <1>2 DEF ObjectInv, Pending, Reads, Writes
  <2> QED BY <2>1, <2>2, <2>3, <2>4 DEF ObjectInv
<1>7. \A u \in Task : Writing(u)' => query'[u].version \in Nat /\ query[u].version \in Nat
  BY <1>1, <1>2 DEF CacheTypeOK, Query
<1>8. VersionInv'
  <2>1. \A j \in Id : db'[j] <= version'
    BY <1>1 DEF VersionInv, CacheTypeOK
  <2>2. \A p \in Object : instance'[p].version <= version'
    BY <1>1, <1>4 DEF VersionInv, CacheTypeOK
  <2>3. \A u \in Task : Writing(u)' =>
          /\ query'[u].version <= instance'[query'[u].object].version
          /\ query'[u].version # instance'[query'[u].object].version => query'[u].object \in unsaved'
    BY <1>1, <1>4, <1>5, <1>7 DEF VersionInv, CacheTypeOK
  <2>4. ASSUME NEW a \in DOMAIN line', NEW b \in DOMAIN line', a <= b,
               Writing(line[a])', Writing(line[b])',
               query'[line'[a]].object = query'[line'[b]].object
        PROVE  query'[line'[a]].version <= query'[line'[b]].version
    <3>1. line'[a] \in Task /\ line'[b] \in Task
      BY <1>2
    <3>2. CASE line'[b] = t
      <4>1. query'[line'[b]].version = version + 1 /\ query'[line'[b]].object = o
        BY <1>2, <2>4, <3>2
      <4>2. query'[line'[a]].version <= instance'[o].version
        BY <2>3, <2>4, <3>1, <4>1
      <4> QED BY <1>4, <4>1, <4>2
    <3>3. CASE line'[b] # t
      <4>1. line'[a] # t /\ a \in DOMAIN line /\ b \in DOMAIN line /\ line'[a] = line[a] /\ line'[b] = line[b]
        BY <1>2, <2>4, <3>3
      <4>2. Writing(line[a]) /\ Writing(line[b]) /\ query'[line[a]] = query[line[a]] /\ query'[line[b]] = query[line[b]]
        BY <1>5, <2>4, <3>1, <3>3, <4>1
      <4> QED BY <1>1, <2>4, <4>1, <4>2 DEF VersionInv
    <3> QED BY <3>2, <3>3
  <2> QED BY <2>1, <2>2, <2>3, <2>4 DEF VersionInv
<1>9. AnswerInv'
  <2>1. \A u \in Task : query'[u].state = "answered" => query'[u] = query[u]
    BY <1>2
  <2>2. \A u \in Task : query[u].state = "answered" => query'[u] = query[u]
    BY <1>2 DEF Pending
  <2>3. \A j \in Id : BeingWritten(j)' <=> BeingWritten(j)
    BY <2>1, <2>2 DEF BeingWritten
  <2>4. \A j \in Id : cache[j] # None /\ cache[j] \notin unsaved' => instance'[cache[j]] = instance[cache[j]]
    BY <1>1, <1>4 DEF CacheTypeOK
  <2> QED BY <1>1, <2>1, <2>3, <2>4 DEF AnswerInv
<1> QED BY <1>2, <1>3, <1>6, <1>8, <1>9 DEF CacheInv

\* A task takes an instance from the cache, or drops the one it holds.
LEMMA HoldKeeps ==
  ASSUME CacheInv, NEW t \in Task, NEW o \in Object \cup {None}, o # None => instance[o].id \in Id,
         held' = [held EXCEPT ![t] = o],
         UNCHANGED <<db, cache, instance, unsaved, query, line, version>>
  PROVE  CacheInv'
<1>1. \A u \in Task : (Pending(u)' <=> Pending(u)) /\ (Writing(u)' <=> Writing(u))
  BY DEF Pending, Writing
<1>2. CacheTypeOK' /\ ObjectInv'
  BY <1>1 DEF CacheInv, CacheTypeOK, ObjectInv
<1>3. LineInv' /\ VersionInv' /\ AnswerInv'
  BY <1>1 DEF CacheInv, CacheTypeOK, LineInv, VersionInv, AnswerInv, BeingWritten, Writing, Pending
<1> QED BY <1>2, <1>3 DEF CacheInv

\* Every use a task makes of the cache.
LEMMA CallKeeps ==
  ASSUME CacheInv, NEW t \in Task, CallsCache(t)
  PROVE  CacheInv'
<1>1. CacheTypeOK /\ ObjectInv
  BY DEF CacheInv
<1>2. ASSUME NEW i \in Id, GetHit(t, i) PROVE CacheInv'
  <2>1. cache[i] \in Object /\ instance[cache[i]].id \in Id
    BY <1>1, <1>2 DEF GetHit, CacheTypeOK, ObjectInv
  <2> QED BY <1>2, <2>1, HoldKeeps DEF GetHit
<1>3. ASSUME NEW i \in Id, GetMiss(t, i) \/ Find(t, i) PROVE CacheInv'
  <2>1. ~Pending(t) /\ {"get", "find"} \subseteq Reads /\ Reads \cap Writes = {} /\ 0 \in Nat
    BY <1>3 DEF GetMiss, Find, Idle, Pending, Reads, Writes
  <2>2. CASE GetMiss(t, i)
    BY <2>1, <2>2, SendKeeps DEF GetMiss
  <2>3. CASE Find(t, i)
    BY <2>1, <2>3, SendKeeps DEF Find
  <2> QED BY <1>3, <2>2, <2>3
<1>4. ASSUME NEW i \in Id, Make(t, i) PROVE CacheInv'
  BY <1>4, ChangeKeeps DEF Make, Idle, Pending
<1>5. ASSUME NEW kind \in Writes, Write(t, kind) PROVE CacheInv'
  <2>1. /\ held[t] \in Object /\ instance[held[t]].id \in Id /\ instance[held[t]].version \in Nat
        /\ ~Pending(t) /\ kind \notin Reads
    BY <1>1, <1>5 DEF Write, Idle, Pending, CacheTypeOK, ObjectInv, Reads, Writes
  <2> QED BY <1>5, <2>1, SendKeeps DEF Write
<1>6. ASSUME Mutate(t) PROVE CacheInv'
  <2>1. held[t] \in Object /\ instance[held[t]].id \in Id /\ ~Pending(t)
    BY <1>1, <1>6 DEF Mutate, Idle, Pending, CacheTypeOK, ObjectInv
  <2>2. instance' = [instance EXCEPT ![held[t]] = [id |-> instance[held[t]].id, version |-> version + 1]]
    <3>1. instance[held[t]] \in [id : Id \cup {None}, version : Nat]
      BY <1>1, <2>1 DEF CacheTypeOK
    <3>2. [instance[held[t]] EXCEPT !.version = version + 1]
            = [id |-> instance[held[t]].id, version |-> version + 1]
      BY <3>1
    <3> QED BY <1>6, <3>2 DEF Mutate
  <2>3. held' = [held EXCEPT ![t] = held[t]]
    BY <1>1, <1>6 DEF Mutate, CacheTypeOK
  <2>4. /\ unsaved' = unsaved \cup {held[t]} /\ version' = version + 1
        /\ UNCHANGED <<query, line>> /\ UNCHANGED <<db, cache>>
    BY <1>6 DEF Mutate
  <2> QED BY <2>1, <2>2, <2>3, <2>4, ChangeKeeps
<1>7. ASSUME Drop(t) PROVE CacheInv'
  BY <1>7, HoldKeeps DEF Drop
<1> QED BY <1>2, <1>3, <1>4, <1>5, <1>6, <1>7 DEF CallsCache

\* The coherence the cache promises follows: with no query on the row between
\* the Store and its continuation, no write is about to replace what is cached.
LEMMA CacheIsCoherent == CacheInv => CacheCoherent
<1> SUFFICES ASSUME CacheInv, NEW i \in Id, cache[i] # None, cache[i] \notin unsaved, Quiet(i)
             PROVE  instance[cache[i]] = [id |-> i, version |-> db[i]]
  BY DEF CacheCoherent
<1>1. ~BeingWritten(i)
  BY DEF Quiet, BeingWritten
<1>2. instance[cache[i]].id = i /\ instance[cache[i]].version = db[i]
  BY <1>1 DEF CacheInv, ObjectInv, AnswerInv
<1>3. instance[cache[i]] \in [id : Id \cup {None}, version : Nat]
  BY DEF CacheInv, CacheTypeOK
<1> QED BY <1>2, <1>3

-----------------------------------------------------------------------------
\* A batch that starts, with calls of the helpers or without.
LEMMA InitUpdates == UpdateInit => UpdateInv
<1> SUFFICES ASSUME UpdateInit PROVE UpdateInv
  OBVIOUS
<1>1. CacheInv
  BY InitCache DEF UpdateInit
<1>2. /\ \A t \in Task : query[t] = NoQuery /\ held[t] = None /\ ~Pending(t)
      /\ \A i \in Id : cache[i] = None
      /\ version = 1 /\ line = <<>> /\ 0 \in Version
  BY VersionBound DEF UpdateInit, CacheInit, Pending, NoQuery, Version
<1>3. UpdateTypeOK
  BY <1>2, VersionBound DEF UpdateInit, UpdateTypeOK
<1>4. \/ \A t \in Task : step[t] = "off"
      \/ \A t \in Task : step[t] \in {"free", "failed"}
  BY DEF UpdateInit
<1>5. CallInv
  BY <1>2, <1>4 DEF CallInv, CallOf
<1>6. ASSUME \A t \in Task : step[t] = "off" PROVE OneInstance /\ Lineage /\ LoadsAlone /\ Included
  <2>1. \A i \in Id : Live(i) = {}
    BY <1>2, <1>6, NoneIsNew DEF Live
  <2>2. DOMAIN line = {}
    BY <1>2
  <2>3. Lineage /\ LoadsAlone
    BY <1>6, <2>2 DEF Lineage, LoadsAlone
  <2> QED BY <1>2, <1>6, <2>1, <2>3 DEF OneInstance, Included, UpdateInit
<1>7. KeptInv
  BY <1>4, <1>6 DEF KeptInv, Calling
<1> QED BY <1>1, <1>3, <1>5, <1>7 DEF UpdateInv

\* Each step of a call, or of the Store, is a step of the cache; the save that a
\* helper sends in the job of its mutation is covered by ChangeKeeps.
LEMMA UpdatesKeepCache ==
  ASSUME UpdateInv, [UpdateNext]_updateVars
  PROVE  CacheInv'
<1>1. CacheInv /\ CacheTypeOK /\ ObjectInv /\ CallInv
  BY DEF UpdateInv, CacheInv
<1>2. ASSUME NEW t \in Task, NEW i \in Id, LoadHits(t, i) \/ LoadMisses(t, i) PROVE CacheInv'
  <2>1. CallsCache(t)
    BY <1>2 DEF LoadHits, LoadMisses, CallsCache
  <2> QED BY <1>1, <2>1, CallKeeps
<1>3. ASSUME NEW t \in Task, LoadReturns(t) PROVE CacheInv'
  BY <1>1, <1>3, ReadReturnsKeeps DEF LoadReturns
<1>4. ASSUME NEW t \in Task, Updates(t) PROVE CacheInv'
  <2>1. /\ ~Pending(t) /\ target[t] \in Id /\ UNCHANGED <<db, cache>> /\ version' = version + 1
        /\ held[t] # None => instance[held[t]].id = target[t]
    BY <1>1, <1>4 DEF Updates, CallInv, CallOf
  <2>2. PICK o \in Object :
          /\ IF held[t] = None THEN FreshObject(o) ELSE o = held[t]
          /\ instance' = [instance EXCEPT ![o] = [id |-> target[t], version |-> version + 1]]
          /\ unsaved' = unsaved \cup {o} /\ held' = [held EXCEPT ![t] = o]
          /\ Send(t, "upsert", target[t], o, version + 1)
    BY <1>4 DEF Updates, Saved
  <2> QED BY <1>1, <2>1, <2>2, ChangeKeeps
<1>5. ASSUME NEW t \in Task, SaveReturns(t) PROVE CacheInv'
  BY <1>1, <1>5, WriteReturnsKeeps DEF SaveReturns
<1>6. ASSUME NEW t \in Task, StoreAnswers(t) PROVE CacheInv'
  BY <1>1, <1>6, AnswersKeeps DEF StoreAnswers
<1>7. ASSUME NEW t \in Task, CallRejects(t) PROVE CacheInv'
  BY <1>1, <1>7, RejectsKeeps DEF CallRejects
<1>8. ASSUME NEW t \in Task, UsesCache(t) PROVE CacheInv'
  BY <1>1, <1>8, CallKeeps, RejectsKeeps, ReadReturnsKeeps, WriteReturnsKeeps DEF UsesCache
<1>9. ASSUME UNCHANGED cacheVars PROVE CacheInv'
  <2>1. \A t \in Task : (Pending(t)' <=> Pending(t)) /\ (Writing(t)' <=> Writing(t))
    BY <1>9 DEF cacheVars, Pending, Writing
  <2>2. CacheTypeOK' /\ ObjectInv'
    BY <1>1, <1>9, <2>1 DEF cacheVars, CacheTypeOK, ObjectInv
  <2>3. LineInv' /\ VersionInv' /\ AnswerInv'
    BY <1>1, <1>9, <2>1
       DEF cacheVars, CacheInv, CacheTypeOK, LineInv, VersionInv, AnswerInv, BeingWritten, Writing, Pending
  <2> QED BY <2>2, <2>3 DEF CacheInv
<1> QED BY <1>2, <1>3, <1>4, <1>5, <1>6, <1>7, <1>8, <1>9 DEF UpdateNext, UpdatesOver, Skips, updateVars

\* The calls' own variables keep their types.
LEMMA UpdatesKeepTypes ==
  ASSUME UpdateInv, [UpdateNext]_updateVars
  PROVE  UpdateTypeOK'
<1>1. UpdateTypeOK /\ version \in Nat /\ MaxVersion \in Nat
  BY VersionBound DEF UpdateInv, CacheInv, CacheTypeOK
<1>2. ASSUME NEW t \in Task, NEW i \in Id, LoadHits(t, i) \/ LoadMisses(t, i) PROVE UpdateTypeOK'
  BY <1>1, <1>2 DEF LoadHits, LoadMisses, GetHit, GetMiss, UpdateTypeOK
<1>3. ASSUME NEW t \in Task, LoadReturns(t) \/ Skips(t) \/ SaveReturns(t) PROVE UpdateTypeOK'
  BY <1>1, <1>3
     DEF LoadReturns, Skips, SaveReturns, ReadReturns, WriteReturns, Moves, cacheVars, UpdateTypeOK
<1>4. ASSUME NEW t \in Task, Updates(t) PROVE UpdateTypeOK'
  <2>1. version + 1 \in Version /\ version' = version + 1 /\ UNCHANGED <<helper, target, overlap>>
    BY <1>1, <1>4 DEF Updates, Version
  <2>2. step' = [step EXCEPT ![t] = "saving"]
    BY <1>4 DEF Updates
  <2>3. PICK o \in Object : includes' = [includes EXCEPT ![version + 1] =
            {t} \cup IF held[t] = None THEN {} ELSE includes[instance[o].version]] /\ (held[t] # None => o = held[t])
    BY <1>4 DEF Updates
  <2>4. held[t] # None => instance[o].version \in Version
    BY <1>1 DEF UpdateInv, CacheInv, CacheTypeOK, VersionInv, UpdateTypeOK, Version
  <2> QED BY <1>1, <2>1, <2>2, <2>3, <2>4 DEF UpdateTypeOK, Version
<1>5. ASSUME NEW t \in Task, StoreAnswers(t) \/ CallRejects(t) PROVE UpdateTypeOK'
  BY <1>1, <1>5 DEF StoreAnswers, CallRejects, Answers, Rejects, UpdateTypeOK
<1>6. ASSUME NEW t \in Task, UsesCache(t) PROVE UpdateTypeOK'
  BY <1>1, <1>6 DEF UsesCache, CallsCache, GetHit, GetMiss, Find, Make, Mutate, Write, Drop,
                    Rejects, ReadReturns, WriteReturns, UpdateTypeOK
<1>7. ASSUME UNCHANGED updateVars PROVE UpdateTypeOK'
  BY <1>1, <1>7 DEF updateVars, cacheVars, UpdateTypeOK
<1> QED BY <1>2, <1>3, <1>4, <1>5, <1>6, <1>7 DEF UpdateNext, UpdatesOver

\* A continuation at the head of the line that leaves another task alone.
LEMMA FinishFrame ==
  ASSUME CacheInv, NEW t \in Task, query[t].state = "answered", Finish(t)
  PROVE  /\ query'[t] = NoQuery /\ ~Pending(t)' /\ Pending(t) /\ t = line[1] /\ query[t].id \in Id
         /\ \A u \in Task : u # t => query'[u] = query[u]
         /\ \A a \in DOMAIN line' : a \in Nat /\ a + 1 \in DOMAIN line /\ line'[a] = line[a + 1] /\ line'[a] # t
<1>1. Pending(t) /\ t = line[1] /\ query[t].id \in Id /\ CacheTypeOK /\ LineInv
  BY AnsweredIsHead DEF CacheInv
<1>2. /\ query'[t] = NoQuery /\ \A u \in Task : u # t => query'[u] = query[u]
      /\ \A a \in DOMAIN line' : a \in Nat /\ a + 1 \in DOMAIN line /\ line'[a] = line[a + 1] /\ line'[a] # t
  BY <1>1, NoneIsNew, FinishLine
<1> QED BY <1>1, <1>2 DEF Pending, NoQuery

\* What LoadReturns gives the call: no row, or a new instance of it.
LEMMA LoadFrame ==
  ASSUME UpdateInv, NEW t \in Task, LoadReturns(t)
  PROVE  /\ query[t].state = "answered" /\ Finish(t) /\ query[t].id = target[t] /\ query[t].kind = "get"
         /\ target[t] \in Id /\ query[t].version = db[target[t]] /\ held[t] = None
         /\ UNCHANGED <<db, version, helper, target, includes, overlap>>
         /\ step[t] = "loading" /\ step' = [step EXCEPT ![t] = "loaded"]
         /\ \/ db[target[t]] = 0 /\ UNCHANGED <<cache, instance, unsaved, held>>
            \/ /\ db[target[t]] # 0
               /\ \E o \in Object :
                    /\ FreshObject(o) /\ held' = [held EXCEPT ![t] = o]
                    /\ instance' = [instance EXCEPT ![o] = [id |-> target[t], version |-> db[target[t]]]]
                    /\ cache' = [cache EXCEPT ![target[t]] = o]
<1>1. query[t].state = "answered" /\ step[t] = "loading" /\ CallOf(t) /\ AnswerInv
  BY DEF LoadReturns, ReadReturns, UpdateInv, CallInv, CacheInv
<1>2. /\ query[t].id = target[t] /\ target[t] \in Id /\ query[t].kind = "get" /\ held[t] = None
  BY <1>1 DEF CallOf
<1>3. query[t].version = db[target[t]]
  BY <1>1, <1>2 DEF AnswerInv
<1> QED BY <1>1, <1>2, <1>3 DEF LoadReturns, ReadReturns, Moves, Found

\* What Updates does: the mutation of the instance the call holds or made, and
\* its save at the end of the line.
LEMMA UpdateFrame ==
  ASSUME UpdateInv, NEW t \in Task, Updates(t)
  PROVE  /\ step[t] = "loaded" /\ step' = [step EXCEPT ![t] = "saving"] /\ target[t] \in Id
         /\ version + 1 \in Version /\ version' = version + 1 /\ version \in Nat
         /\ UNCHANGED <<db, cache, helper, target, overlap>>
         /\ query'[t].kind = "upsert" /\ query'[t].id = target[t] /\ query'[t].state = "sent"
         /\ query'[t].version = version + 1
         /\ \A u \in Task : u # t => query'[u] = query[u] /\ held'[u] = held[u]
         /\ \A a \in DOMAIN line' :
              \/ a \in DOMAIN line /\ line'[a] = line[a] /\ line'[a] # t /\ line'[a] \in Task /\ a \in 1 .. Len(line)
              \/ line'[a] = t /\ a = Len(line) + 1
         /\ Len(line) \in Nat
         /\ LET o == held'[t] IN
            /\ o \in Object /\ query'[t].object = o
            /\ IF held[t] = None THEN FreshObject(o) ELSE o = held[t] /\ instance[o].id = target[t]
            /\ instance'[o] = [id |-> target[t], version |-> version + 1]
            /\ \A p \in Object : p # o => instance'[p] = instance[p]
            /\ includes'[version + 1] = {t} \cup IF held[t] = None THEN {} ELSE includes[instance[o].version]
            /\ \A v \in Version : v # version + 1 => includes'[v] = includes[v]
<1>1. /\ step[t] = "loaded" /\ CallOf(t) /\ CacheTypeOK /\ LineInv /\ UpdateTypeOK
  BY DEF Updates, UpdateInv, CallInv, CacheInv
<1>2. /\ ~Pending(t) /\ target[t] \in Id
      /\ held[t] # None => instance[held[t]].id = target[t]
  BY <1>1 DEF CallOf
<1>3. PICK o \in Object :
        /\ IF held[t] = None THEN FreshObject(o) ELSE o = held[t]
        /\ instance' = [instance EXCEPT ![o] = [id |-> target[t], version |-> version + 1]]
        /\ includes' = [includes EXCEPT ![version + 1] =
             {t} \cup IF held[t] = None THEN {} ELSE includes[instance[o].version]]
        /\ held' = [held EXCEPT ![t] = o]
        /\ Send(t, "upsert", target[t], o, version + 1)
  BY DEF Updates, Saved
<1>4. version + 1 \in Version /\ version \in Nat /\ version + 1 \in Nat /\ "upsert" \in Reads \cup Writes
  BY <1>1, VersionBound DEF Updates, Version, CacheTypeOK, Writes
<1>5. /\ query'[t] = [kind |-> "upsert", id |-> target[t], object |-> o, version |-> version + 1, state |-> "sent"]
      /\ \A u \in Task : u # t => query'[u] = query[u]
      /\ \A a \in DOMAIN line' :
           (a \in DOMAIN line /\ line'[a] = line[a] /\ line'[a] # t) \/ (line'[a] = t /\ a = Len(line) + 1)
      /\ DOMAIN line = 1 .. Len(line) /\ Len(line) \in Nat
  BY <1>1, <1>2, <1>3, <1>4, SendLine
<1>6. \A a \in DOMAIN line : line[a] \in Task
  BY <1>1 DEF CacheTypeOK
<1>7. held'[t] = o /\ \A u \in Task : u # t => held'[u] = held[u]
  BY <1>1, <1>3 DEF CacheTypeOK
<1>8. /\ instance'[o] = [id |-> target[t], version |-> version + 1]
      /\ \A p \in Object : p # o => instance'[p] = instance[p]
  BY <1>1, <1>3 DEF CacheTypeOK
<1>9. /\ includes'[version + 1] = {t} \cup IF held[t] = None THEN {} ELSE includes[instance[o].version]
      /\ \A v \in Version : v # version + 1 => includes'[v] = includes[v]
  BY <1>1, <1>3, <1>4 DEF UpdateTypeOK
<1>10. /\ step' = [step EXCEPT ![t] = "saving"] /\ version' = version + 1
       /\ UNCHANGED <<db, cache, helper, target, overlap>>
  BY DEF Updates
<1> QED BY <1>1, <1>2, <1>3, <1>4, <1>5, <1>6, <1>7, <1>8, <1>9, <1>10

\* A step of one task leaves the calls of the others where they are.
LEMMA OthersKept ==
  ASSUME UpdateInv, NEW t \in Task,
         \A u \in Task : u # t =>
           /\ step'[u] = step[u] /\ target'[u] = target[u] /\ held'[u] = held[u] /\ query'[u] = query[u]
           /\ held[u] # None => instance'[held[u]].id = instance[held[u]].id,
         CallOf(t)'
  PROVE  CallInv'
BY DEF UpdateInv, CallInv, CallOf, Pending

LEMMA UpdatesKeepCalls ==
  ASSUME UpdateInv, [UpdateNext]_updateVars
  PROVE  CallInv'
<1>1. CacheTypeOK /\ LineInv /\ ObjectInv /\ UpdateTypeOK /\ CallInv
  BY DEF UpdateInv, CacheInv
<1>2. ASSUME NEW t \in Task, NEW i \in Id, LoadHits(t, i) PROVE CallInv'
  <2>1. /\ cache[i] \in Object /\ instance[cache[i]].id = i /\ ~Pending(t)
    BY <1>1, <1>2 DEF LoadHits, GetHit, Idle, Pending, CacheTypeOK, ObjectInv
  <2>2. CallOf(t)'
    BY <1>1, <1>2, <2>1 DEF LoadHits, GetHit, CallOf, Pending, CacheTypeOK, UpdateTypeOK
  <2> QED BY <1>1, <1>2, <2>2, OthersKept DEF LoadHits, GetHit, CacheTypeOK, UpdateTypeOK
<1>3. ASSUME NEW t \in Task, NEW i \in Id, LoadMisses(t, i) PROVE CallInv'
  <2>1. held[t] = None
    BY <1>1, <1>3 DEF LoadMisses, CallInv, CallOf
  <2>2. CallOf(t)'
    BY <1>1, <1>3, <2>1 DEF LoadMisses, GetMiss, Send, CallOf, Pending, CacheTypeOK, UpdateTypeOK
  <2> QED BY <1>1, <1>3, <2>2, OthersKept DEF LoadMisses, GetMiss, Send, CacheTypeOK, UpdateTypeOK
<1>4. ASSUME NEW t \in Task, LoadReturns(t) PROVE CallInv'
  <2>1. /\ query'[t] = NoQuery /\ ~Pending(t)' /\ \A u \in Task : u # t => query'[u] = query[u]
    BY <1>4, LoadFrame, FinishFrame DEF UpdateInv
  <2>2. /\ step' = [step EXCEPT ![t] = "loaded"] /\ target' = target /\ target[t] \in Id /\ held[t] = None
    BY <1>4, LoadFrame
  <2>3. CASE UNCHANGED <<cache, instance, unsaved, held>>
    <3>1. CallOf(t)'
      BY <1>1, <2>1, <2>2, <2>3 DEF CallOf, UpdateTypeOK
    <3> QED BY <1>1, <2>1, <2>2, <2>3, <3>1, OthersKept DEF UpdateTypeOK
  <2>4. ASSUME NEW o \in Object, FreshObject(o), held' = [held EXCEPT ![t] = o],
               instance' = [instance EXCEPT ![o] = [id |-> target[t], version |-> db[target[t]]]]
        PROVE  CallInv'
    <3>1. CallOf(t)'
      BY <1>1, <2>1, <2>2, <2>4 DEF CallOf, UpdateTypeOK, CacheTypeOK
    <3>2. \A u \in Task : u # t => held'[u] = held[u] /\ (held[u] # None => instance'[held[u]].id = instance[held[u]].id)
      BY <1>1, <2>4 DEF FreshObject, CacheTypeOK
    <3> QED BY <1>1, <2>1, <2>2, <3>1, <3>2, OthersKept DEF UpdateTypeOK
  <2> QED BY <1>4, <2>3, <2>4, LoadFrame
<1>5. ASSUME NEW t \in Task, Skips(t) PROVE CallInv'
  <2>1. CallOf(t)'
    BY <1>1, <1>5 DEF Skips, Moves, cacheVars, CallInv, CallOf, Pending, UpdateTypeOK
  <2> QED BY <1>1, <1>5, <2>1, OthersKept DEF Skips, Moves, cacheVars, UpdateTypeOK
<1>6. ASSUME NEW t \in Task, Updates(t) PROVE CallInv'
  <2>1. /\ step' = [step EXCEPT ![t] = "saving"] /\ target' = target /\ target[t] \in Id
        /\ query'[t].kind = "upsert" /\ query'[t].id = target[t] /\ query'[t].state = "sent"
        /\ \A u \in Task : u # t => query'[u] = query[u] /\ held'[u] = held[u]
    BY <1>6, UpdateFrame
  <2>2. CallOf(t)'
    BY <1>1, <2>1 DEF CallOf, Pending, UpdateTypeOK
  <2>3. /\ held'[t] \in Object
        /\ IF held[t] = None THEN FreshObject(held'[t]) ELSE held'[t] = held[t] /\ instance[held'[t]].id = target[t]
        /\ instance'[held'[t]] = [id |-> target[t], version |-> version + 1]
        /\ \A p \in Object : p # held'[t] => instance'[p] = instance[p]
    BY <1>6, UpdateFrame
  <2>4. \A u \in Task : held[u] # None => instance'[held[u]].id = instance[held[u]].id
    BY <1>1, <2>3 DEF FreshObject, CacheTypeOK
  <2> QED BY <1>1, <2>1, <2>2, <2>4, OthersKept DEF UpdateTypeOK
<1>7. ASSUME NEW t \in Task, SaveReturns(t) PROVE CallInv'
  <2>1. /\ query[t].state = "answered" /\ Finish(t) /\ step' = [step EXCEPT ![t] = "done"]
        /\ UNCHANGED <<instance, held, target>> /\ step[t] = "saving"
    BY <1>7 DEF SaveReturns, WriteReturns, Moves
  <2>2. ~Pending(t)' /\ \A u \in Task : u # t => query'[u] = query[u]
    BY <2>1, FinishFrame DEF UpdateInv
  <2>3. CallOf(t)'
    BY <1>1, <2>1, <2>2 DEF CallInv, CallOf, UpdateTypeOK
  <2> QED BY <1>1, <2>1, <2>2, <2>3, OthersKept DEF UpdateTypeOK
<1>8. ASSUME NEW t \in Task, StoreAnswers(t) PROVE CallInv'
  <2>1. /\ query[t].state = "sent" /\ UNCHANGED <<instance, held, step, target>>
        /\ query'[t].state = "answered" /\ query'[t].kind = query[t].kind /\ query'[t].id = query[t].id
        /\ \A u \in Task : u # t => query'[u] = query[u]
    BY <1>1, <1>8 DEF StoreAnswers, Answers, CacheTypeOK, Query
  <2>2. CallOf(t)'
    BY <1>1, <2>1 DEF CallInv, CallOf, Pending
  <2> QED BY <2>1, <2>2, OthersKept
<1>9. ASSUME \A u \in Task : step'[u] \in {"free", "failed"} PROVE CallInv'
  BY <1>9 DEF CallInv, CallOf
<1>10. ASSUME NEW t \in Task, UsesCache(t) PROVE CallInv'
  BY <1>9, <1>10 DEF UsesCache, UpdateInv, KeptInv, Calling
<1>11. ASSUME NEW t \in Task, CallRejects(t) PROVE CallInv'
  BY <1>9, <1>11 DEF CallRejects
<1>12. ASSUME UNCHANGED updateVars PROVE CallInv'
  BY <1>1, <1>12 DEF updateVars, cacheVars, CallInv, CallOf, Pending
<1> QED BY <1>2, <1>3, <1>4, <1>5, <1>6, <1>7, <1>8, <1>10, <1>11, <1>12 DEF UpdateNext, UpdatesOver

\* An instance a call may use is one of its row, and not a new one.
LEMMA LiveFacts ==
  ASSUME UpdateInv, NEW i \in Id, NEW o \in Live(i)
  PROVE  /\ o \in Object /\ o # None /\ instance[o].id = i /\ ~FreshObject(o)
         /\ instance[o].version \in Version /\ instance[o].version <= version
<1>1. CacheTypeOK /\ ObjectInv /\ VersionInv /\ UpdateTypeOK /\ CallInv
  BY DEF UpdateInv, CacheInv
<1>2. o \in Object /\ o # None
  BY NoneIsNew DEF Live
<1>3. instance[o].version \in Version /\ instance[o].version <= version
  BY <1>1, <1>2, VersionBound DEF CacheTypeOK, VersionInv, UpdateTypeOK, Version
<1>4. CASE o = cache[i]
  BY <1>1, <1>2, <1>3, <1>4 DEF ObjectInv, FreshObject
<1>5. ASSUME NEW t \in Task, target[t] = i, step[t] = "loaded", held[t] = o
      PROVE  instance[o].id = i /\ ~FreshObject(o)
  BY <1>1, <1>2, <1>5 DEF CallInv, CallOf, FreshObject
<1>6. ASSUME NEW t \in Task, target[t] = i, step[t] = "saving", query[t].object = o
      PROVE  instance[o].id = i /\ ~FreshObject(o)
  BY <1>1, <1>6 DEF CallInv, CallOf, ObjectInv, Writing, Writes, FreshObject
<1> QED BY <1>2, <1>3, <1>4, <1>5, <1>6 DEF Live

\* The versions in use are not the next one.
LEMMA VersionsInUse ==
  ASSUME UpdateInv
  PROVE  /\ \A i \in Id : db[i] \in Version /\ db[i] <= version
         /\ \A t \in Task : step[t] = "saving" =>
              query[t].version \in Version /\ query[t].version <= version
         /\ version \in Nat
<1>1. CacheTypeOK /\ ObjectInv /\ VersionInv /\ UpdateTypeOK /\ CallInv
  BY DEF UpdateInv, CacheInv
<1>2. \A i \in Id : db[i] \in Version /\ db[i] <= version
  BY <1>1, VersionBound DEF CacheTypeOK, VersionInv, UpdateTypeOK, Version
<1>3. ASSUME NEW t \in Task, step[t] = "saving"
      PROVE  query[t].version \in Version /\ query[t].version <= version
  <2>1. Writing(t) /\ query[t].object \in Object /\ query[t].version \in Nat
    BY <1>1, <1>3 DEF CallInv, CallOf, ObjectInv, Writing, Writes, CacheTypeOK, Query
  <2>2. query[t].version <= instance[query[t].object].version /\ instance[query[t].object].version <= version
    BY <1>1, <2>1 DEF VersionInv
  <2> QED BY <1>1, <2>1, <2>2, VersionBound DEF CacheTypeOK, UpdateTypeOK, Version
<1> QED BY <1>1, <1>2, <1>3 DEF CacheTypeOK

\* A step that moves no call to or from its save leaves the lineage alone.
LEMMA LineageFrame ==
  ASSUME Lineage, UNCHANGED <<db, includes>>, line \in Seq(Task), line' \in Seq(Task),
         \A u \in Task : /\ step'[u] = "saving" <=> step[u] = "saving"
                         /\ step'[u] = "done" <=> step[u] = "done"
                         /\ step[u] \in {"saving", "done"} => target'[u] = target[u]
                         /\ step[u] = "saving" => query'[u].version = query[u].version,
         \A a, b \in DOMAIN line' :
           a < b /\ step'[line'[a]] = "saving" /\ step'[line'[b]] = "saving" =>
             \E c, d \in DOMAIN line : c < d /\ line[c] = line'[a] /\ line[d] = line'[b]
  PROVE  Lineage'
<1>1. \A u \in Task : step'[u] = "done" => u \in includes'[db'[target'[u]]]
  BY DEF Lineage
<1>2. \A u \in Task : step'[u] = "saving" =>
        /\ u \in includes'[query'[u].version]
        /\ \A w \in Task : step'[w] = "done" /\ target'[w] = target'[u] => w \in includes'[query'[u].version]
  BY DEF Lineage
<1>3. ASSUME NEW a \in DOMAIN line', NEW b \in DOMAIN line', a < b,
             step'[line'[a]] = "saving", step'[line'[b]] = "saving", target'[line'[a]] = target'[line'[b]]
      PROVE  line'[a] \in includes'[query'[line'[b]].version]
  <2>1. line'[a] \in Task /\ line'[b] \in Task
    OBVIOUS
  <2>2. PICK c \in DOMAIN line, d \in DOMAIN line : c < d /\ line[c] = line'[a] /\ line[d] = line'[b]
    BY <1>3
  <2> QED BY <1>3, <2>1, <2>2 DEF Lineage
<1> QED BY <1>1, <1>2, <1>3 DEF Lineage

\* A call that hits the cache shares the row's one instance.
LEMMA HitKept ==
  ASSUME UpdateInv, OneInstance, Lineage, LoadsAlone, Included,
         NEW t \in Task, NEW i \in Id, LoadHits(t, i), ~overlap'
  PROVE  OneInstance' /\ Lineage' /\ LoadsAlone' /\ Included'
<1>1. /\ step[t] = "off" /\ cache[i] # None /\ step' = [step EXCEPT ![t] = "loaded"]
      /\ target' = [target EXCEPT ![t] = i] /\ held' = [held EXCEPT ![t] = cache[i]]
      /\ UNCHANGED <<db, cache, instance, query, line, version, includes>>
  BY DEF LoadHits, GetHit
<1>2. CacheTypeOK /\ UpdateTypeOK
  BY DEF UpdateInv, CacheInv
<1>3. /\ step'[t] = "loaded" /\ target'[t] = i /\ held'[t] = cache[i]
      /\ \A u \in Task : u # t => step'[u] = step[u] /\ target'[u] = target[u] /\ held'[u] = held[u]
  BY <1>1, <1>2 DEF CacheTypeOK, UpdateTypeOK
<1>4. \A u \in Task : u # t /\ step[u] = "loading" => target[u] # i
  BY DEF LoadHits
<1>5. OneInstance'
  <2>1. \A j \in Id : Live(j)' \subseteq Live(j)
    BY <1>1, <1>2, <1>3 DEF Live
  <2>2. \A j \in Id : Applied(j)' = Applied(j)
    BY <1>1, <1>3 DEF Applied
  <2> QED BY <1>1, <2>1, <2>2 DEF OneInstance
<1>6. Lineage'
  BY <1>1, <1>2, <1>3, LineageFrame DEF CacheTypeOK
<1>7. \A a \in DOMAIN line : line[a] \in Task
  BY <1>2 DEF CacheTypeOK
<1>8. LoadsAlone'
  <2>1. ASSUME NEW u \in Task, step'[u] = "loading" \/ (step'[u] = "loaded" /\ held'[u] = None)
        PROVE  \A w \in Task : w # u /\ Loading(w)' => target'[w] # target'[u]
    <3>1. u # t
      BY <1>1, <1>3, <2>1
    <3>2. target'[u] # i
      BY <1>1, <1>3, <1>4, <2>1, <3>1 DEF LoadsAlone
    <3> QED BY <1>3, <2>1, <3>1, <3>2 DEF LoadsAlone, Loading
  <2>2. \A a, b \in DOMAIN line : step'[line[a]] = "loading" /\ step'[line[b]] = "saving"
                                   /\ target'[line[a]] = target'[line[b]] => b < a
    BY <1>3, <1>7 DEF LoadsAlone
  <2>3. \A u \in Task : step'[u] = "loaded" /\ held'[u] = None =>
          cache[target'[u]] = None /\ Applied(target[u])' = {}
    <3> SUFFICES ASSUME NEW u \in Task, step'[u] = "loaded", held'[u] = None
                 PROVE  cache[target'[u]] = None /\ Applied(target[u])' = {}
      OBVIOUS
    <3>1. u # t /\ step[u] = "loaded" /\ held[u] = None /\ target'[u] = target[u]
      BY <1>1, <1>3
    <3>2. cache[target[u]] = None /\ Applied(target[u]) = {}
      BY <3>1 DEF LoadsAlone
    <3> QED BY <1>1, <1>3, <3>1, <3>2 DEF Applied
  <2> QED BY <1>1, <2>1, <2>2, <2>3 DEF LoadsAlone
<1>9. Included'
  BY <1>1, <1>2, <1>3 DEF Included, UpdateTypeOK
<1> QED BY <1>5, <1>6, <1>8, <1>9

\* A call that misses is behind the saves of its row.
LEMMA MissKept ==
  ASSUME UpdateInv, OneInstance, Lineage, LoadsAlone, Included,
         NEW t \in Task, NEW i \in Id, LoadMisses(t, i), ~overlap'
  PROVE  OneInstance' /\ Lineage' /\ LoadsAlone' /\ Included'
<1>1. /\ step[t] = "off" /\ step' = [step EXCEPT ![t] = "loading"]
      /\ target' = [target EXCEPT ![t] = i] /\ Send(t, "get", i, None, 0)
      /\ UNCHANGED <<db, cache, instance, held, version, includes>>
  BY DEF LoadMisses, GetMiss
<1>2. CacheTypeOK /\ LineInv /\ UpdateTypeOK /\ ~Pending(t) /\ "get" \in Reads
  BY DEF UpdateInv, CacheInv, LoadMisses, GetMiss, Idle, Pending, Reads
<1>3. /\ step'[t] = "loading" /\ target'[t] = i
      /\ \A u \in Task : u # t => step'[u] = step[u] /\ target'[u] = target[u]
  BY <1>1, <1>2 DEF UpdateTypeOK
<1>4. /\ line \in Seq(Task) /\ line' \in Seq(Task)
      /\ \A u \in Task : u # t => query'[u] = query[u]
      /\ \A a \in DOMAIN line' :
           (a \in DOMAIN line /\ line'[a] = line[a] /\ line'[a] # t) \/ (line'[a] = t /\ a = Len(line) + 1)
      /\ DOMAIN line = 1 .. Len(line) /\ Len(line) \in Nat
  BY <1>1, <1>2, SendLine DEF CacheTypeOK
<1>5. \A u \in Task : u # t /\ Loading(u) => target[u] # i
  BY DEF LoadMisses
<1>6. OneInstance'
  <2>1. \A j \in Id : Live(j)' \subseteq Live(j)
    BY <1>1, <1>3, <1>4 DEF Live
  <2>2. \A j \in Id : Applied(j)' = Applied(j)
    BY <1>1, <1>3 DEF Applied
  <2> QED BY <1>1, <2>1, <2>2 DEF OneInstance
<1>7. Lineage'
  <2>1. \A a \in DOMAIN line' : step'[line'[a]] = "saving" => a \in DOMAIN line /\ line'[a] = line[a]
    BY <1>3, <1>4
  <2> QED BY <1>1, <1>3, <1>4, <2>1, LineageFrame
<1>8. LoadsAlone'
  <2>1. ASSUME NEW u \in Task, step'[u] = "loading" \/ (step'[u] = "loaded" /\ held'[u] = None)
        PROVE  \A w \in Task : w # u /\ Loading(w)' => target'[w] # target'[u]
    <3>1. CASE u = t
      BY <1>3, <1>5, <3>1 DEF Loading
    <3>2. CASE u # t
      <4>1. target'[u] # i
        BY <1>3, <1>5, <2>1, <3>2 DEF Loading
      <4> QED BY <1>1, <1>3, <2>1, <3>2, <4>1 DEF LoadsAlone, Loading
    <3> QED BY <3>1, <3>2
  <2>2. ASSUME NEW a \in DOMAIN line', NEW b \in DOMAIN line', step'[line'[a]] = "loading",
               step'[line'[b]] = "saving", target'[line'[a]] = target'[line'[b]]
        PROVE  b < a
    <3>1. b \in DOMAIN line /\ line'[b] = line[b] /\ line[b] # t /\ line[b] \in Task
      BY <1>3, <1>4, <2>2
    <3>2. CASE line'[a] = t
      BY <1>4, <2>2, <3>1, <3>2
    <3>3. CASE line'[a] # t
      <4>1. a \in DOMAIN line /\ line'[a] = line[a] /\ line[a] \in Task
        BY <1>4, <3>3
      <4> QED BY <1>3, <2>2, <3>1, <3>3, <4>1 DEF LoadsAlone
    <3> QED BY <3>2, <3>3
  <2>3. \A u \in Task : step'[u] = "loaded" /\ held'[u] = None =>
          cache'[target'[u]] = None /\ Applied(target[u])' = {}
    <3> SUFFICES ASSUME NEW u \in Task, step'[u] = "loaded", held'[u] = None
                 PROVE  cache'[target'[u]] = None /\ Applied(target[u])' = {}
      OBVIOUS
    <3>1. u # t /\ step[u] = "loaded" /\ held[u] = None /\ target'[u] = target[u]
      BY <1>1, <1>3
    <3>2. cache[target[u]] = None /\ Applied(target[u]) = {}
      BY <3>1 DEF LoadsAlone
    <3> QED BY <1>1, <1>3, <3>1, <3>2 DEF Applied
  <2> QED BY <1>1, <2>1, <2>2, <2>3 DEF LoadsAlone
<1>9. Included'
  BY <1>1, <1>2, <1>3 DEF Included, UpdateTypeOK
<1> QED BY <1>6, <1>7, <1>8, <1>9

\* A load returns when no save of its row is left in the line: what it read
\* includes the calls that are done, and no one else uses the row.
LEMMA LoadKept ==
  ASSUME UpdateInv, OneInstance, Lineage, LoadsAlone, Included,
         NEW t \in Task, LoadReturns(t)
  PROVE  OneInstance' /\ Lineage' /\ LoadsAlone' /\ Included'
<1> DEFINE i == target[t]
<1>1. CacheTypeOK /\ LineInv /\ UpdateTypeOK /\ CallInv /\ CacheInv
  BY DEF UpdateInv, CacheInv
<1>2. /\ query[t].state = "answered" /\ Finish(t) /\ i \in Id /\ held[t] = None
      /\ UNCHANGED <<db, version, target, includes>>
      /\ step[t] = "loading" /\ step' = [step EXCEPT ![t] = "loaded"]
  BY LoadFrame
<1>3. step'[t] = "loaded" /\ \A u \in Task : u # t => step'[u] = step[u]
  BY <1>1, <1>2 DEF UpdateTypeOK
<1>4. /\ t = line[1] /\ Pending(t) /\ \A u \in Task : u # t => query'[u] = query[u]
      /\ \A a \in DOMAIN line' : a \in Nat /\ a + 1 \in DOMAIN line /\ line'[a] = line[a + 1] /\ line'[a] # t
  BY <1>1, <1>2, FinishFrame
<1>5. line \in Seq(Task) /\ line' \in Seq(Task) /\ \A a \in DOMAIN line : a \in Nat \ {0}
  BY <1>1, UpdatesKeepCache DEF CacheTypeOK, CacheInv, UpdateNext
<1>6. \A u \in Task : step[u] = "saving" => target[u] # i
  <2> SUFFICES ASSUME NEW u \in Task, step[u] = "saving", target[u] = i PROVE FALSE
    OBVIOUS
  <2>1. Pending(u)
    BY <1>1 DEF CallInv, CallOf
  <2>2. PICK b \in DOMAIN line : line[b] = u
    BY <1>1, <2>1 DEF LineInv
  <2>3. PICK a \in DOMAIN line : line[a] = t
    BY <1>1, <1>4 DEF LineInv
  <2>4. 1 \in DOMAIN line
    BY <1>5, <2>3
  <2>5. b < 1
    BY <1>2, <1>4, <2>2, <2>4 DEF LoadsAlone
  <2> QED BY <1>5, <2>2, <2>5
<1>7. \A u \in Task : u # t /\ Loading(u) => target[u] # i
  BY <1>2 DEF LoadsAlone
<1>8. \A j : Applied(j)' = Applied(j)
  BY <1>2, <1>3 DEF Applied
<1>9. \A u \in Applied(i) : u \in includes[db[i]]
  BY <1>6 DEF Applied, Lineage
<1>10. Lineage'
  <2>1. ASSUME NEW a \in DOMAIN line', NEW b \in DOMAIN line', a < b
        PROVE  \E c, d \in DOMAIN line : c < d /\ line[c] = line'[a] /\ line[d] = line'[b]
    <3>1. a + 1 \in DOMAIN line /\ b + 1 \in DOMAIN line /\ a + 1 < b + 1
      BY <1>4, <2>1
    <3> QED BY <1>4, <3>1
  <2> QED BY <1>2, <1>3, <1>4, <1>5, <2>1, LineageFrame
<1>11. /\ \A u \in Task : u # t => held'[u] = held[u]
       /\ db[i] = 0 => UNCHANGED <<cache, instance, held>>
       /\ db[i] # 0 => /\ held'[t] \in Object /\ FreshObject(held'[t]) /\ cache' = [cache EXCEPT ![i] = held'[t]]
                       /\ instance'[held'[t]].version = db[i]
                       /\ \A p \in Object : p # held'[t] => instance'[p] = instance[p]
  <2>1. CASE db[i] = 0
    BY <2>1, LoadFrame
  <2>2. CASE db[i] # 0
    <3>1. PICK o \in Object :
            /\ FreshObject(o) /\ held' = [held EXCEPT ![t] = o]
            /\ instance' = [instance EXCEPT ![o] = [id |-> target[t], version |-> db[target[t]]]]
            /\ cache' = [cache EXCEPT ![target[t]] = o]
      BY <2>2, LoadFrame
    <3>2. held'[t] = o
      BY <1>1, <3>1 DEF CacheTypeOK
    <3> QED BY <1>1, <1>2, <2>2, <3>1, <3>2 DEF CacheTypeOK
  <2> QED BY <2>1, <2>2
<1>12. db[i] = 0 => cache[i] = None /\ held'[t] = None
  BY <1>2, <1>11 DEF Included
<1>13. OneInstance'
  <2>1. CASE db[i] = 0
    <3>1. \A j \in Id : Live(j)' \subseteq Live(j)
      BY <1>2, <1>3, <1>4, <1>11, <1>12, <2>1, NoneIsNew DEF Live
    <3> QED BY <1>2, <1>8, <1>11, <2>1, <3>1 DEF OneInstance
  <2>2. CASE db[i] # 0
    <3>1. Live(i)' \subseteq {held'[t]}
      BY <1>1, <1>2, <1>3, <1>4, <1>6, <1>7, <1>11, <2>2 DEF Live, Loading, CacheTypeOK
    <3>2. \A j \in Id : j # i => Live(j)' \subseteq Live(j)
      BY <1>1, <1>2, <1>3, <1>4, <1>11, <2>2 DEF Live, CacheTypeOK
    <3>3. ASSUME NEW j \in Id, j # i, NEW o \in Live(j) PROVE instance'[o] = instance[o]
      BY <1>11, <2>2, <3>3, LiveFacts
    <3>4. Applied(i) \subseteq includes[instance'[held'[t]].version]
      BY <1>9, <1>11, <2>2
    <3>5. ASSUME NEW j \in Id, NEW o \in Live(j)'
          PROVE  (\A p \in Live(j)' : o = p) /\ Applied(j)' \subseteq includes'[instance'[o].version]
      <4>1. CASE j = i
        BY <1>2, <1>8, <3>1, <3>4, <3>5, <4>1
      <4>2. CASE j # i
        <5>1. o \in Live(j) /\ instance'[o] = instance[o]
          BY <3>2, <3>3, <3>5, <4>2
        <5> QED BY <1>2, <1>8, <3>2, <4>2, <5>1 DEF OneInstance
      <4> QED BY <4>1, <4>2
    <3> QED BY <3>5 DEF OneInstance
  <2> QED BY <2>1, <2>2
<1>14. LoadsAlone'
  <2>1. ASSUME NEW u \in Task, step'[u] = "loading" \/ (step'[u] = "loaded" /\ held'[u] = None)
        PROVE  \A w \in Task : w # u /\ Loading(w)' => target'[w] # target'[u]
    <3>1. CASE u = t
      BY <1>2, <1>3, <1>7, <3>1 DEF Loading
    <3>2. CASE u # t
      <4>1. step[u] = "loading" \/ (step[u] = "loaded" /\ held[u] = None)
        BY <1>3, <1>11, <2>1, <3>2
      <4>2. \A w \in Task : w # u /\ Loading(w) => target[w] # target[u]
        BY <4>1 DEF LoadsAlone
      <4> QED BY <1>2, <1>3, <4>2 DEF Loading
    <3> QED BY <3>1, <3>2
  <2>2. ASSUME NEW a \in DOMAIN line', NEW b \in DOMAIN line', step'[line'[a]] = "loading",
               step'[line'[b]] = "saving", target'[line'[a]] = target'[line'[b]]
        PROVE  b < a
    <3>1. /\ a \in Nat /\ b \in Nat /\ a + 1 \in DOMAIN line /\ b + 1 \in DOMAIN line
          /\ line'[a] = line[a + 1] /\ line'[b] = line[b + 1] /\ line'[a] # t /\ line'[b] # t
      BY <1>4, <2>2
    <3>2. line'[a] \in Task /\ line'[b] \in Task
      BY <1>5
    <3>3. b + 1 < a + 1
      BY <1>2, <1>3, <2>2, <3>1, <3>2 DEF LoadsAlone
    <3> QED BY <3>1, <3>3
  <2>3. ASSUME NEW u \in Task, step'[u] = "loaded", held'[u] = None
        PROVE  cache'[target'[u]] = None /\ Applied(target[u])' = {}
    <3>1. CASE u = t
      <4>1. db[i] = 0
        BY <1>11, <2>3, <3>1, NoneIsNew
      <4>2. Applied(i) = {}
        BY <1>9, <4>1 DEF Included
      <4> QED BY <1>2, <1>8, <1>11, <1>12, <3>1, <4>1, <4>2
    <3>2. CASE u # t
      <4>1. step[u] = "loaded" /\ held[u] = None /\ target[u] # i
        BY <1>3, <1>7, <1>11, <2>3, <3>2 DEF Loading
      <4>2. cache[target[u]] = None /\ Applied(target[u]) = {} /\ target[u] \in Id
        BY <1>1, <4>1 DEF LoadsAlone, CallInv, CallOf
      <4> QED BY <1>1, <1>2, <1>8, <1>11, <4>1, <4>2 DEF CacheTypeOK
    <3> QED BY <3>1, <3>2
  <2> QED BY <1>2, <2>1, <2>2, <2>3 DEF LoadsAlone
<1>15. Included'
  <2>1. \A j \in Id : cache'[j] # None => db'[j] # 0
    BY <1>1, <1>2, <1>11 DEF Included, CacheTypeOK
  <2>2. \A v \in Version : \A u \in includes'[v] : step'[u] \in {"saving", "done"}
    BY <1>1, <1>2, <1>3 DEF Included, UpdateTypeOK
  <2> QED BY <1>2, <2>1, <2>2 DEF Included
<1> QED BY <1>10, <1>13, <1>14, <1>15

\* withEntity's skip leaves no trace.
LEMMA SkipKept ==
  ASSUME UpdateInv, OneInstance, Lineage, LoadsAlone, Included, NEW t \in Task, Skips(t)
  PROVE  OneInstance' /\ Lineage' /\ LoadsAlone' /\ Included'
<1>1. CacheTypeOK /\ UpdateTypeOK
  BY DEF UpdateInv, CacheInv
<1>2. /\ step[t] = "loaded" /\ step' = [step EXCEPT ![t] = "skipped"] /\ held[t] = None
      /\ UNCHANGED <<db, cache, instance, held, query, line, target, includes>>
  BY DEF Skips, Moves, cacheVars
<1>3. step'[t] = "skipped" /\ \A u \in Task : u # t => step'[u] = step[u]
  BY <1>1, <1>2 DEF UpdateTypeOK
<1>4. \A j : Applied(j)' = Applied(j)
  BY <1>2, <1>3 DEF Applied
<1>5. \A j \in Id : Live(j)' \subseteq Live(j)
  BY <1>2, <1>3 DEF Live
<1>6. OneInstance'
  BY <1>2, <1>4, <1>5 DEF OneInstance
<1>7. Lineage'
  BY <1>1, <1>2, <1>3, LineageFrame DEF CacheTypeOK
<1>8. LoadsAlone'
  <2>1. \A a \in DOMAIN line : line[a] \in Task
    BY <1>1 DEF CacheTypeOK
  <2>2. \A u \in Task : step'[u] = "loading" \/ (step'[u] = "loaded" /\ held'[u] = None) =>
          \A w \in Task : w # u /\ Loading(w)' => target'[w] # target'[u]
    BY <1>2, <1>3 DEF LoadsAlone, Loading
  <2>3. \A a, b \in DOMAIN line' : step'[line'[a]] = "loading" /\ step'[line'[b]] = "saving"
                                    /\ target'[line'[a]] = target'[line'[b]] => b < a
    BY <1>2, <1>3, <2>1 DEF LoadsAlone
  <2>4. \A u \in Task : step'[u] = "loaded" /\ held'[u] = None =>
          cache'[target'[u]] = None /\ Applied(target[u])' = {}
    BY <1>2, <1>3, <1>4 DEF LoadsAlone
  <2> QED BY <1>2, <2>2, <2>3, <2>4 DEF LoadsAlone
<1>9. Included'
  BY <1>1, <1>2, <1>3 DEF Included, UpdateTypeOK
<1> QED BY <1>6, <1>7, <1>8, <1>9

\* A call mutates the row's one instance and queues its save behind the others.
LEMMA UpdateKept ==
  ASSUME UpdateInv, OneInstance, Lineage, LoadsAlone, Included, NEW t \in Task, Updates(t)
  PROVE  OneInstance' /\ Lineage' /\ LoadsAlone' /\ Included'
<1> DEFINE i == target[t]
           o == held'[t]
<1>1. CacheTypeOK /\ LineInv /\ UpdateTypeOK /\ CallInv /\ ObjectInv
  BY DEF UpdateInv, CacheInv
<1>2. /\ step[t] = "loaded" /\ step' = [step EXCEPT ![t] = "saving"] /\ i \in Id
      /\ version + 1 \in Version /\ version \in Nat
      /\ UNCHANGED <<db, cache, target>>
      /\ query'[t].version = version + 1 /\ query'[t].object = o /\ o \in Object
      /\ \A u \in Task : u # t => query'[u] = query[u] /\ held'[u] = held[u]
  BY UpdateFrame
<1>3. step'[t] = "saving" /\ \A u \in Task : u # t => step'[u] = step[u]
  BY <1>1, <1>2 DEF UpdateTypeOK
<1>4. /\ \A a \in DOMAIN line' :
           \/ a \in DOMAIN line /\ line'[a] = line[a] /\ line'[a] # t /\ line'[a] \in Task /\ a \in 1 .. Len(line)
           \/ line'[a] = t /\ a = Len(line) + 1
      /\ Len(line) \in Nat
  BY UpdateFrame
<1>5. /\ IF held[t] = None THEN FreshObject(o) ELSE o = held[t] /\ instance[o].id = i
      /\ instance'[o] = [id |-> i, version |-> version + 1]
      /\ \A p \in Object : p # o => instance'[p] = instance[p]
      /\ includes'[version + 1] = {t} \cup IF held[t] = None THEN {} ELSE includes[instance[o].version]
      /\ \A v \in Version : v # version + 1 => includes'[v] = includes[v]
  BY UpdateFrame
<1>6. \A v \in Version : v <= version => includes'[v] = includes[v]
  BY <1>2, <1>5
<1>7. \A j : Applied(j)' = IF j = i THEN Applied(j) \cup {t} ELSE Applied(j)
  BY <1>2, <1>3 DEF Applied
<1>8. held[t] # None => o \in Live(i)
  BY <1>2, <1>5 DEF Live
<1>9. held[t] = None => Applied(i) = {} /\ Live(i) = {}
  <2> SUFFICES ASSUME held[t] = None PROVE Applied(i) = {} /\ Live(i) = {}
    OBVIOUS
  <2>1. cache[i] = None /\ Applied(i) = {} /\ \A u \in Task : u # t /\ Loading(u) => target[u] # i
    BY <1>2 DEF LoadsAlone
  <2>2. \A u \in Task : target[u] = i => step[u] # "saving" /\ (step[u] = "loaded" => u = t)
    BY <2>1 DEF Applied, Loading
  <2> QED BY <2>1, <2>2, NoneIsNew DEF Live
<1>10. Applied(i) \subseteq includes'[version + 1] /\ t \in includes'[version + 1]
  BY <1>2, <1>5, <1>8, <1>9 DEF OneInstance
<1>11. OneInstance'
  <2>1. \A j \in Id : Live(j)' \subseteq Live(j) \cup IF j = i THEN {o} ELSE {}
    BY <1>2, <1>3 DEF Live
  <2>2. Live(i)' \subseteq {o}
    BY <1>2, <1>8, <1>9, <2>1 DEF OneInstance
  <2>3. ASSUME NEW j \in Id, j # i, NEW p \in Live(j)
        PROVE  instance'[p] = instance[p] /\ includes'[instance[p].version] = includes[instance[p].version]
    <3>1. /\ p \in Object /\ instance[p].id = j /\ ~FreshObject(p)
          /\ instance[p].version \in Version /\ instance[p].version <= version
      BY <2>3, LiveFacts
    <3>2. p # o
      BY <1>5, <2>3, <3>1
    <3> QED BY <1>5, <1>6, <3>1, <3>2
  <2>4. ASSUME NEW j \in Id, NEW p \in Live(j)'
        PROVE  (\A r \in Live(j)' : p = r) /\ Applied(j)' \subseteq includes'[instance'[p].version]
    <3>1. CASE j = i
      <4>1. p = o /\ \A r \in Live(j)' : r = o
        BY <1>2, <2>2, <2>4, <3>1
      <4>2. instance'[p].version = version + 1
        BY <1>5, <4>1
      <4>3. Applied(j)' = Applied(i) \cup {t}
        BY <1>7, <3>1
      <4> QED BY <1>10, <4>1, <4>2, <4>3
    <3>2. CASE j # i
      <4>1. p \in Live(j) /\ Live(j)' \subseteq Live(j)
        BY <2>1, <2>4, <3>2
      <4> QED BY <1>7, <2>3, <3>2, <4>1 DEF OneInstance
    <3> QED BY <3>1, <3>2
  <2> QED BY <2>4 DEF OneInstance
<1>12. Lineage'
  <2>1. \A u \in Task : step'[u] = "done" => u \in includes'[db'[target'[u]]]
    BY <1>1, <1>2, <1>3, <1>6, VersionsInUse DEF Lineage, CallInv, CallOf
  <2>2. ASSUME NEW u \in Task, u # t, step[u] = "saving"
        PROVE  query'[u].version = query[u].version /\ includes'[query[u].version] = includes[query[u].version]
    BY <1>2, <1>6, <2>2, VersionsInUse
  <2>3. ASSUME NEW u \in Task, step'[u] = "saving"
        PROVE  /\ u \in includes'[query'[u].version]
               /\ \A w \in Task : step'[w] = "done" /\ target'[w] = target'[u] => w \in includes'[query'[u].version]
    <3>1. CASE u = t
      <4>1. \A w \in Task : step'[w] = "done" /\ target'[w] = i => w \in Applied(i)
        BY <1>2, <1>3 DEF Applied
      <4> QED BY <1>2, <1>10, <3>1, <4>1
    <3>2. CASE u # t
      BY <1>2, <1>3, <2>2, <2>3, <3>2 DEF Lineage
    <3> QED BY <3>1, <3>2
  <2>4. ASSUME NEW a \in DOMAIN line', NEW b \in DOMAIN line', a < b,
               step'[line'[a]] = "saving", step'[line'[b]] = "saving", target'[line'[a]] = target'[line'[b]]
        PROVE  line'[a] \in includes'[query'[line'[b]].version]
    <3>1. line'[a] # t /\ a \in DOMAIN line /\ line'[a] = line[a] /\ line[a] \in Task /\ step[line[a]] = "saving"
      BY <1>3, <1>4, <2>4
    <3>2. CASE line'[b] = t
      <4>1. line[a] \in Applied(i)
        BY <1>2, <2>4, <3>1, <3>2 DEF Applied
      <4> QED BY <1>2, <1>10, <3>1, <3>2, <4>1
    <3>3. CASE line'[b] # t
      <4>1. b \in DOMAIN line /\ line'[b] = line[b] /\ line[b] \in Task /\ step[line[b]] = "saving"
        BY <1>3, <1>4, <2>4, <3>3
      <4> QED BY <1>2, <2>2, <2>4, <3>1, <3>3, <4>1 DEF Lineage
    <3> QED BY <3>2, <3>3
  <2> QED BY <2>1, <2>3, <2>4 DEF Lineage
<1>13. LoadsAlone'
  <2>1. ASSUME NEW u \in Task, step'[u] = "loading" \/ (step'[u] = "loaded" /\ held'[u] = None)
        PROVE  /\ u # t /\ target[u] # i
               /\ \A w \in Task : w # u /\ Loading(w)' => target'[w] # target'[u]
    <3>1. u # t /\ (step[u] = "loading" \/ (step[u] = "loaded" /\ held[u] = None))
      BY <1>2, <1>3, <2>1
    <3>2. \A w \in Task : w # u /\ Loading(w) => target[w] # target[u]
      BY <3>1 DEF LoadsAlone
    <3> QED BY <1>2, <1>3, <3>1, <3>2 DEF Loading
  <2>2. ASSUME NEW a \in DOMAIN line', NEW b \in DOMAIN line', step'[line'[a]] = "loading",
               step'[line'[b]] = "saving", target'[line'[a]] = target'[line'[b]]
        PROVE  b < a
    <3>1. line'[a] # t /\ line'[a] \in Task /\ a \in DOMAIN line /\ line'[a] = line[a]
      BY <1>3, <1>4, <2>2
    <3>2. line'[b] # t
      BY <1>2, <2>1, <2>2, <3>1
    <3>3. line'[b] \in Task /\ b \in DOMAIN line /\ line'[b] = line[b]
      BY <1>4, <3>2
    <3> QED BY <1>2, <1>3, <2>2, <3>1, <3>2, <3>3 DEF LoadsAlone
  <2>3. ASSUME NEW u \in Task, step'[u] = "loaded", held'[u] = None
        PROVE  cache'[target'[u]] = None /\ Applied(target[u])' = {}
    <3>1. u # t /\ target[u] # i
      BY <2>1, <2>3
    <3>2. cache[target[u]] = None /\ Applied(target[u]) = {}
      BY <1>2, <1>3, <2>3, <3>1 DEF LoadsAlone
    <3> QED BY <1>2, <1>7, <3>1, <3>2
  <2> QED BY <1>2, <2>1, <2>2, <2>3 DEF LoadsAlone
<1>14. Included'
  <2>1. includes'[0] = {}
    BY <1>2, <1>6, VersionBound DEF Included, Version
  <2>2. held[t] # None => instance[o].version \in Version
    BY <1>2, <1>8, LiveFacts
  <2>3. ASSUME NEW v \in Version, NEW u \in includes'[v] PROVE step'[u] \in {"saving", "done"}
    <3>1. u = t \/ \E w \in Version : u \in includes[w]
      BY <1>5, <2>2, <2>3
    <3>2. u = t \/ (step[u] \in {"saving", "done"} /\ u \in Task)
      BY <1>1, <3>1 DEF Included, UpdateTypeOK
    <3> QED BY <1>3, <3>2
  <2> QED BY <1>2, <2>1, <2>3 DEF Included
<1> QED BY <1>11, <1>12, <1>13, <1>14

\* A save returns: its row includes the call, and so do the saves behind it.
LEMMA SaveKept ==
  ASSUME UpdateInv, OneInstance, Lineage, LoadsAlone, Included, NEW t \in Task, SaveReturns(t)
  PROVE  OneInstance' /\ Lineage' /\ LoadsAlone' /\ Included'
<1> DEFINE i == target[t]
<1>1. CacheTypeOK /\ LineInv /\ UpdateTypeOK /\ CallInv /\ CacheInv /\ AnswerInv /\ ObjectInv
  BY DEF UpdateInv, CacheInv
<1>2. /\ query[t].state = "answered" /\ Finish(t) /\ step[t] = "saving"
      /\ step' = [step EXCEPT ![t] = "done"]
      /\ UNCHANGED <<db, instance, held, version, target, includes>>
      /\ cache' = [cache EXCEPT ![query[t].id] = CachedAfter(query[t])]
  BY DEF SaveReturns, WriteReturns, Moves
<1>3. query[t].kind = "upsert" /\ query[t].id = i /\ i \in Id /\ Pending(t)
  BY <1>1, <1>2 DEF CallInv, CallOf
<1>4. query[t].object \in Object /\ cache' = [cache EXCEPT ![i] = query[t].object] /\ query[t].version = db[i]
  BY <1>1, <1>2, <1>3 DEF ObjectInv, Writing, Writes, CachedAfter, AnswerInv
<1>5. step'[t] = "done" /\ \A u \in Task : u # t => step'[u] = step[u]
  BY <1>1, <1>2 DEF UpdateTypeOK
<1>6. /\ t = line[1] /\ \A u \in Task : u # t => query'[u] = query[u]
      /\ \A a \in DOMAIN line' : a \in Nat /\ a + 1 \in DOMAIN line /\ line'[a] = line[a + 1] /\ line'[a] # t
  BY <1>1, <1>2, FinishFrame
<1>7. \A a \in DOMAIN line : a \in Nat \ {0} /\ line[a] \in Task
  BY <1>1 DEF CacheTypeOK
<1>8. \A j : Applied(j)' = Applied(j)
  BY <1>2, <1>5 DEF Applied
<1>9. OneInstance'
  <2>1. \A j \in Id : Live(j)' \subseteq Live(j)
    BY <1>1, <1>2, <1>3, <1>4, <1>5, <1>6 DEF Live, CacheTypeOK
  <2> QED BY <1>2, <1>8, <2>1 DEF OneInstance
<1>10. \A u \in Task : u # t /\ step[u] = "saving" /\ target[u] = i => t \in includes[query[u].version]
  <2> SUFFICES ASSUME NEW u \in Task, u # t, step[u] = "saving", target[u] = i
               PROVE  t \in includes[query[u].version]
    OBVIOUS
  <2>1. Pending(u)
    BY <1>1 DEF CallInv, CallOf
  <2>2. PICK b \in DOMAIN line : line[b] = u
    BY <1>1, <2>1 DEF LineInv
  <2>3. 1 \in DOMAIN line /\ 1 < b
    BY <1>1, <1>6, <1>7, <2>2 DEF CacheTypeOK
  <2> QED BY <1>2, <1>6, <2>2, <2>3 DEF Lineage
<1>11. Lineage'
  <2>1. \A u \in Task : step'[u] = "done" => u \in includes'[db'[target'[u]]]
    BY <1>2, <1>4, <1>5 DEF Lineage
  <2>2. \A u \in Task : step'[u] = "saving" =>
          /\ u \in includes'[query'[u].version]
          /\ \A w \in Task : step'[w] = "done" /\ target'[w] = target'[u] => w \in includes'[query'[u].version]
    BY <1>2, <1>5, <1>6, <1>10 DEF Lineage
  <2>3. ASSUME NEW a \in DOMAIN line', NEW b \in DOMAIN line', a < b,
               step'[line'[a]] = "saving", step'[line'[b]] = "saving", target'[line'[a]] = target'[line'[b]]
        PROVE  line'[a] \in includes'[query'[line'[b]].version]
    <3>1. /\ a \in Nat /\ b \in Nat /\ a + 1 \in DOMAIN line /\ b + 1 \in DOMAIN line
          /\ line'[a] = line[a + 1] /\ line'[b] = line[b + 1] /\ line'[a] # t /\ line'[b] # t
      BY <1>6, <2>3
    <3>2. a + 1 < b + 1 /\ line[a + 1] \in Task /\ line[b + 1] \in Task
      BY <1>7, <2>3, <3>1
    <3> QED BY <1>2, <1>5, <1>6, <2>3, <3>1, <3>2 DEF Lineage
  <2> QED BY <2>1, <2>2, <2>3 DEF Lineage
<1>12. LoadsAlone'
  <2>1. ASSUME NEW u \in Task, step'[u] = "loading" \/ (step'[u] = "loaded" /\ held'[u] = None)
        PROVE  \A w \in Task : w # u /\ Loading(w)' => target'[w] # target'[u]
    <3>1. u # t /\ (step[u] = "loading" \/ (step[u] = "loaded" /\ held[u] = None))
      BY <1>2, <1>5, <2>1
    <3>2. \A w \in Task : w # u /\ Loading(w) => target[w] # target[u]
      BY <3>1 DEF LoadsAlone
    <3> QED BY <1>2, <1>5, <3>1, <3>2 DEF Loading
  <2>2. ASSUME NEW a \in DOMAIN line', NEW b \in DOMAIN line', step'[line'[a]] = "loading",
               step'[line'[b]] = "saving", target'[line'[a]] = target'[line'[b]]
        PROVE  b < a
    <3>1. /\ a \in Nat /\ b \in Nat /\ a + 1 \in DOMAIN line /\ b + 1 \in DOMAIN line
          /\ line'[a] = line[a + 1] /\ line'[b] = line[b + 1] /\ line'[a] # t /\ line'[b] # t
      BY <1>6, <2>2
    <3>2. b + 1 < a + 1
      BY <1>2, <1>5, <1>7, <2>2, <3>1 DEF LoadsAlone
    <3> QED BY <3>1, <3>2
  <2>3. ASSUME NEW u \in Task, step'[u] = "loaded", held'[u] = None
        PROVE  cache'[target'[u]] = None /\ Applied(target[u])' = {}
    <3>1. u # t /\ step[u] = "loaded" /\ held[u] = None /\ target[u] \in Id
      BY <1>1, <1>2, <1>5, <2>3 DEF CallInv, CallOf
    <3>2. cache[target[u]] = None /\ Applied(target[u]) = {}
      BY <3>1 DEF LoadsAlone
    <3>3. target[u] # i
      BY <1>2, <3>2 DEF Applied
    <3> QED BY <1>1, <1>2, <1>4, <1>8, <3>1, <3>2, <3>3 DEF CacheTypeOK
  <2> QED BY <1>2, <2>1, <2>2, <2>3 DEF LoadsAlone
<1>13. Included'
  <2>1. db[i] # 0
    BY <1>2, <1>3, <1>4 DEF Lineage, Included
  <2>2. \A j \in Id : cache'[j] # None => db'[j] # 0
    BY <1>1, <1>2, <1>4, <2>1 DEF Included, CacheTypeOK
  <2>3. \A v \in Version : \A u \in includes'[v] : step'[u] \in {"saving", "done"}
    BY <1>1, <1>2, <1>5 DEF Included, UpdateTypeOK
  <2> QED BY <1>2, <2>2, <2>3 DEF Included
<1> QED BY <1>9, <1>11, <1>12, <1>13

\* The Store takes the save at the head of the line, which includes every call
\* for its row that is done.
LEMMA AnswerKept ==
  ASSUME UpdateInv, Calling, OneInstance, Lineage, LoadsAlone, Included, NEW t \in Task, StoreAnswers(t)
  PROVE  OneInstance' /\ Lineage' /\ LoadsAlone' /\ Included'
<1>1. CacheTypeOK /\ UpdateTypeOK /\ CallInv
  BY DEF UpdateInv, CacheInv
<1>2. /\ query[t].state = "sent" /\ UNCHANGED <<cache, instance, held, line, version, step, target, includes>>
      /\ \A u \in Task : query'[u].object = query[u].object
      /\ \A u \in Task : query[u].kind = "upsert" => query'[u].version = query[u].version
      /\ query'[t].kind = query[t].kind
  BY <1>1 DEF StoreAnswers, Answers, CacheTypeOK, Query, Reads
<1>3. \/ step[t] = "loading" /\ query[t].kind = "get"
      \/ step[t] = "saving" /\ query[t].kind = "upsert" /\ query[t].id = target[t] /\ target[t] \in Id
  <2>1. Pending(t) /\ CallOf(t) /\ step[t] \notin {"free", "failed"}
    BY <1>1, <1>2 DEF Pending, CallInv, Calling
  <2> QED BY <1>1, <2>1 DEF CallOf, UpdateTypeOK
<1>4. \/ db' = db
      \/ step[t] = "saving" /\ target[t] \in Id /\ db' = [db EXCEPT ![target[t]] = query[t].version]
  BY <1>3 DEF StoreAnswers, Answers
<1>5. \A u \in Task : step[u] = "saving" => query'[u].version = query[u].version
  BY <1>1, <1>2 DEF CallInv, CallOf
<1>6. OneInstance'
  <2>1. \A j \in Id : Live(j)' = Live(j) /\ Applied(j)' = Applied(j)
    BY <1>2 DEF Live, Applied
  <2> QED BY <1>2, <2>1 DEF OneInstance
<1>7. Lineage'
  <2>1. ASSUME NEW u \in Task, step[u] = "done" PROVE u \in includes[db'[target[u]]]
    <3>1. target[u] \in Id
      BY <1>1, <2>1 DEF CallInv, CallOf
    <3> QED BY <1>1, <1>4, <2>1, <3>1 DEF Lineage, CacheTypeOK
  <2>2. \A u \in Task : step'[u] = "saving" =>
          /\ u \in includes'[query'[u].version]
          /\ \A w \in Task : step'[w] = "done" /\ target'[w] = target'[u] => w \in includes'[query'[u].version]
    BY <1>2, <1>5 DEF Lineage
  <2>3. \A a \in DOMAIN line : line[a] \in Task
    BY <1>1 DEF CacheTypeOK
  <2>4. \A a, b \in DOMAIN line' :
          a < b /\ step'[line'[a]] = "saving" /\ step'[line'[b]] = "saving" /\ target'[line'[a]] = target'[line'[b]]
            => line'[a] \in includes'[query'[line'[b]].version]
    BY <1>2, <1>5, <2>3 DEF Lineage
  <2> QED BY <1>2, <2>1, <2>2, <2>4 DEF Lineage
<1>8. LoadsAlone'
  BY <1>2 DEF LoadsAlone, Loading, Applied
<1>9. Included'
  <2>1. step[t] = "saving" => query[t].version # 0
    BY DEF Lineage, Included
  <2>2. \A j \in Id : cache'[j] # None => db'[j] # 0
    BY <1>1, <1>2, <1>4, <2>1 DEF Included, CacheTypeOK
  <2> QED BY <1>2, <2>2 DEF Included
<1> QED BY <1>6, <1>7, <1>8, <1>9

\* Every step keeps the calls' mutations, or an overlap is on record.
LEMMA UpdatesKeepKept ==
  ASSUME UpdateInv, [UpdateNext]_updateVars
  PROVE  KeptInv'
<1> DEFINE Kept == OneInstance /\ Lineage /\ LoadsAlone /\ Included
<1>1. CASE \A u \in Task : step[u] \in {"free", "failed"}
  <2>1. \A u \in Task : step'[u] \in {"free", "failed"}
    <3>1. ASSUME NEW t \in Task, StoreAnswers(t) \/ UsesCache(t) PROVE step' = step
      BY <3>1 DEF StoreAnswers, UsesCache
    <3>2. ASSUME NEW t \in Task PROVE step[t] \notin {"off", "loading", "loaded", "saving"}
      BY <1>1
    <3> QED BY <1>1, <3>1, <3>2 DEF UpdateNext, UpdatesOver, updateVars, LoadHits, LoadMisses,
                                     LoadReturns, Skips, Updates, SaveReturns, CallRejects
  <2> QED BY <2>1 DEF KeptInv
<1>2. CASE Calling /\ (~overlap => Kept)
  <2>1. UpdateTypeOK
    BY DEF UpdateInv
  <2>2. ASSUME NEW t \in Task, CallRejects(t) PROVE KeptInv'
    BY <2>2 DEF CallRejects, KeptInv
  <2>3. ASSUME ~(\E t \in Task : CallRejects(t)) PROVE Calling' /\ (~overlap' => Kept')
    <3>1. ASSUME NEW t \in Task, NEW i \in Id, LoadHits(t, i) PROVE Calling' /\ (~overlap' => Kept')
      <4>1. Calling' /\ (~overlap' => ~overlap)
        BY <1>2, <2>1, <3>1 DEF LoadHits, Calling, UpdateTypeOK
      <4> QED BY <1>2, <3>1, <4>1, HitKept
    <3>2. ASSUME NEW t \in Task, NEW i \in Id, LoadMisses(t, i) PROVE Calling' /\ (~overlap' => Kept')
      <4>1. Calling' /\ (~overlap' => ~overlap)
        BY <1>2, <2>1, <3>2 DEF LoadMisses, Calling, UpdateTypeOK
      <4> QED BY <1>2, <3>2, <4>1, MissKept
    <3>3. ASSUME NEW t \in Task, LoadReturns(t) PROVE Calling' /\ (~overlap' => Kept')
      <4>1. Calling' /\ overlap' = overlap
        BY <1>2, <2>1, <3>3 DEF LoadReturns, Moves, Calling, UpdateTypeOK
      <4> QED BY <1>2, <3>3, <4>1, LoadKept
    <3>4. ASSUME NEW t \in Task, Skips(t) PROVE Calling' /\ (~overlap' => Kept')
      <4>1. Calling' /\ overlap' = overlap
        BY <1>2, <2>1, <3>4 DEF Skips, Moves, Calling, UpdateTypeOK
      <4> QED BY <1>2, <3>4, <4>1, SkipKept
    <3>5. ASSUME NEW t \in Task, Updates(t) PROVE Calling' /\ (~overlap' => Kept')
      <4>1. Calling' /\ overlap' = overlap
        BY <1>2, <2>1, <3>5 DEF Updates, Calling, UpdateTypeOK
      <4> QED BY <1>2, <3>5, <4>1, UpdateKept
    <3>6. ASSUME NEW t \in Task, SaveReturns(t) PROVE Calling' /\ (~overlap' => Kept')
      <4>1. Calling' /\ overlap' = overlap
        BY <1>2, <2>1, <3>6 DEF SaveReturns, Moves, Calling, UpdateTypeOK
      <4> QED BY <1>2, <3>6, <4>1, SaveKept
    <3>7. ASSUME NEW t \in Task, StoreAnswers(t) PROVE Calling' /\ (~overlap' => Kept')
      <4>1. Calling' /\ overlap' = overlap
        BY <1>2, <3>7 DEF StoreAnswers, Calling
      <4> QED BY <1>2, <3>7, <4>1, AnswerKept
    <3>8. \A t \in Task : ~UsesCache(t)
      BY <1>2 DEF UsesCache, Calling
    <3>9. ASSUME UNCHANGED updateVars PROVE Calling' /\ (~overlap' => Kept')
      BY <1>2, <3>9 DEF updateVars, cacheVars, Calling, OneInstance, Lineage, LoadsAlone, Included,
                        Live, Applied, Loading
    <3> QED BY <2>3, <3>1, <3>2, <3>3, <3>4, <3>5, <3>6, <3>7, <3>8, <3>9 DEF UpdateNext, UpdatesOver
  <2> QED BY <2>2, <2>3 DEF KeptInv
<1> QED BY <1>1, <1>2 DEF UpdateInv, KeptInv

\* UpdateInv is an inductive invariant of the calls.
LEMMA UpdateInvariant == UpdateSpec => []UpdateInv
<1>1. UpdateInv /\ [UpdateNext]_updateVars => UpdateInv'
  BY UpdatesKeepCache, UpdatesKeepTypes, UpdatesKeepCalls, UpdatesKeepKept DEF UpdateInv
<1> QED BY InitUpdates, <1>1, PTL DEF UpdateSpec

\* entityCache.ts, "cached(entity) => matches the row most recently written or
\* read by id": a cached instance that nobody has mutated since equals its row,
\* for any number of tasks that read and write through the cache at once, with
\* the helpers or without them.
THEOREM CacheStaysCoherent == UpdateSpec => []CacheCoherent
<1>1. UpdateInv => CacheCoherent
  BY CacheIsCoherent DEF UpdateInv
<1> QED BY UpdateInvariant, <1>1, PTL

\* entity.ts, withEntity and getOrCreateAndUpdate: when no call came beside
\* another's load of its row, the row includes the mutation of
\* every call that returned and of none that skipped, for any number of calls.
THEOREM NoUpdateLost == UpdateSpec => []UpdatesKept
<1>1. UpdateInv => UpdatesKept
  <2> SUFFICES ASSUME UpdateInv, ~overlap, NEW t \in Task
               PROVE  /\ step[t] = "done" => t \in includes[db[target[t]]]
                      /\ step[t] = "skipped" => t \notin includes[db[target[t]]]
    BY DEF UpdatesKept
  <2>1. step[t] \in {"done", "skipped"} => Lineage /\ Included
    BY DEF UpdateInv, KeptInv
  <2>2. ASSUME step[t] = "skipped" PROVE t \notin includes[db[target[t]]]
    <3>1. target[t] \in Id
      BY <2>2 DEF UpdateInv, CallInv, CallOf
    <3> QED BY <2>1, <2>2, <3>1, VersionsInUse DEF Included
  <2> QED BY <2>1, <2>2 DEF Lineage
<1> QED BY UpdateInvariant, <1>1, PTL
=============================================================================
