------------------------------- MODULE Logger -------------------------------
(***************************************************************************)
(* createLogger of packages/service/logger/src/index.ts: a logger and its  *)
(* children filter by level, merge their bindings with a line's fields,    *)
(* redact the merged record and write it as JSON.                          *)
(*                                                                         *)
(* redact() is a recursion over the object graph; here one step handles    *)
(* one entry of the object on top of the stack.  A field name is known by  *)
(* its lower-cased form and its words; what splitWords does with capitals, *)
(* dashes and digits is abstracted to those.                               *)
(***************************************************************************)
EXTENDS ObjectGraph

CONSTANTS
  Words,        \* field name -> [full, words]: lower-cased, and split
  Policies,     \* the redactKeys to choose from, lower-cased; {}: disabled
  Levels,       \* options.level and LOG_LEVEL: pairs, Absent where not given
  Bindings,     \* the bindings of child(): name -> value
  MaxStack      \* how deep JavaScript may recurse

\* A path that enters no object twice fits the stack.
ASSUME LogAssumption ==
  /\ Bindings \subseteq [Name -> Value]
  /\ MaxStack \in Nat /\ MaxStack > Cardinality(Obj)

VARIABLES
  policy,     \* history: the redactKeys the first logger was created with
  logger,     \* the logger in use: [minLevel, base, redactKeys]
  phase,      \* "idle", "redact", "stringify", "written", "filtered" or "threw"
  stack,      \* frames of redact(): [obj, i], i the next entry
  seen,       \* the WeakSet
  out         \* the entries of the copy: <<path, value>>

logVars == <<heap, policy, logger, phase, stack, seen, out>>

LEVEL_ORDER == [debug |-> 10, info |-> 20, warn |-> 30, error |-> 40]
LogLevel == DOMAIN LEVEL_ORDER
REDACTED == "[redacted]"
CIRCULAR == "[circular]"

parseLogLevel(value) == IF value \in LogLevel THEN value ELSE "null"

\* The threshold: an explicit level, else a known LOG_LEVEL, else "info".
LevelOf(level, env) ==
  IF level # Absent THEN level
  ELSE IF parseLogLevel(env) # "null" THEN env ELSE "info"

\* {...base, ...more}
Merged(base, more) == [n \in Name |-> IF more[n] # Absent THEN more[n] ELSE base[n]]

NoFields == [n \in Name |-> Absent]

LogInit ==
  /\ policy \in Policies
  /\ \E l \in Levels :
       logger = [minLevel |-> LevelOf(l[1], l[2]), base |-> NoFields, redactKeys |-> policy]
  /\ heap = [o \in Obj \cup {Root} |-> [kind |-> "record", fields |-> NoFields]]
  /\ phase = "idle"
  /\ stack = << >> /\ seen = {} /\ out = {}

-----------------------------------------------------------------------------
\* The redactKeys a child is created with.
ChildKeys == logger.redactKeys

\* logger.child(bindings)
Child(bindings) ==
  /\ phase = "idle" /\ logger.base = NoFields
  /\ logger' = [minLevel |-> logger.minLevel,
                base |-> Merged(logger.base, bindings),
                redactKeys |-> ChildKeys]
  /\ UNCHANGED <<heap, policy, phase, stack, seen, out>>

Filtered(level) == LEVEL_ORDER[level] < LEVEL_ORDER[logger.minLevel]

EmitFiltered(level) ==
  /\ phase = "idle" /\ Filtered(level)
  /\ phase' = "filtered"
  /\ UNCHANGED <<heap, policy, logger, stack, seen, out>>

\* emit() past the threshold: the record is merged; with redactKeys the walk
\* begins, without it the record is written as it is.
Emit(level) ==
  /\ phase = "idle" /\ ~Filtered(level)
  /\ \E fields \in Fields, objects \in Heaps :
       heap' = Graph(Merged(logger.base, fields), objects)
  /\ IF logger.redactKeys # {}
     THEN phase' = "redact" /\ stack' = <<[obj |-> Root, i |-> 1]>> /\ seen' = {Root}
     ELSE phase' = "stringify" /\ UNCHANGED <<stack, seen>>
  /\ UNCHANGED <<policy, logger, out>>

-----------------------------------------------------------------------------
isRedactKey(n, keys) == Words[n].full \in keys \/ Words[n].words \cap keys # {}

Top == TopOf(stack)
Entry == EntryAt(stack)
Walking == phase = "redact" /\ Top.i <= Len(NameSeq)

\* redact() rebuilds arrays and plain records; an instance of a class is passed
\* on untouched, as everything that is no object is.
Passed(v) == KindOf(v) = "instance"
Traversed(v) == Container(v) /\ ~Passed(v)

\* The entry is under a redacted key; an array has none.
Redacts ==
  heap[Top.obj].kind = "record" /\ isRedactKey(NameSeq[Top.i], logger.redactKeys)

Circular(v) == v \in seen

\* What an entry that is not descended into becomes.
Copied ==
  IF Redacts THEN REDACTED ELSE IF Circular(Entry) THEN CIRCULAR ELSE Entry

CopyEntry ==
  /\ Walking
  /\ Redacts \/ Circular(Entry) \/ ~Traversed(Entry)
  /\ out' = IF Entry = Absent THEN out ELSE out \cup {<<PathTo(stack), Copied>>}
  /\ stack' = Advanced(stack)
  /\ UNCHANGED <<heap, policy, logger, phase, seen>>

\* redact() calls itself for an array or a plain record.
Descend ==
  /\ Walking /\ ~Redacts /\ ~Circular(Entry) /\ Traversed(Entry)
  /\ IF Len(stack) < MaxStack
     THEN /\ stack' = Entering(stack)
          /\ seen' = seen \cup {Entry}
          /\ UNCHANGED phase
     ELSE phase' = "threw" /\ UNCHANGED <<stack, seen>>
  /\ UNCHANGED <<heap, policy, logger, out>>

\* Fault: `seen` is scoped to the line, not to the path.
SeenAfterKept == seen

\* seen.delete(value)
SeenAfter == seen \ {Top.obj}

\* redact() returns the copy of the object on top.
Ascend ==
  /\ phase = "redact" /\ Top.i > Len(NameSeq)
  /\ seen' = SeenAfter
  /\ IF Len(stack) > 1
     THEN stack' = Advanced(Front(stack)) /\ UNCHANGED phase
     ELSE stack' = << >> /\ phase' = "stringify"
  /\ UNCHANGED <<heap, policy, logger, out>>

\* p is below an instance of the copy, where JSON.stringify finds the values as
\* they are.  An object above the instance that it leads back to leads to the
\* instance again: a path that closes down there closes a cycle of those values.
BelowPassed(p) ==
  \E e \in out : /\ Passed(e[2]) /\ Len(e[1]) < Len(p)
                 /\ \A k \in 1 .. Len(e[1]) : p[k] = e[1][k]

\* JSON.stringify throws on a bigint and on a cycle; the copy itself has none.
Unserializable ==
  IF logger.redactKeys # {}
  THEN \/ \E e \in out : KindOf(e[2]) = "bigint"
       \/ \E p \in Reached : BelowPassed(p) /\ (Closes(p) \/ KindOf(ValueAt(p)) = "bigint")
  ELSE \E p \in Reached : Closes(p) \/ KindOf(ValueAt(p)) = "bigint"

\* What the line has of values that no redact() rebuilt.
AsTheyAre(paths) == {<<p, ValueAt(p)>> : p \in {q \in paths : ~Traversed(ValueAt(q))}}

\* write(); which stream takes the line is left out.
Write ==
  /\ phase = "stringify"
  /\ phase' = IF Unserializable THEN "threw" ELSE "written"
  /\ out' = IF logger.redactKeys # {}
            THEN out \cup AsTheyAre({p \in Reached : BelowPassed(p)}) ELSE AsTheyAre(Reached)
  /\ UNCHANGED <<heap, policy, logger, stack, seen>>

LogOver == phase \in {"written", "filtered", "threw"}
LogDone == LogOver /\ UNCHANGED logVars

LogNext ==
  \/ \E b \in Bindings : Child(b)
  \/ \E level \in LogLevel : EmitFiltered(level) \/ Emit(level)
  \/ CopyEntry \/ Descend \/ Ascend \/ Write \/ LogDone

LogSpec == LogInit /\ [][LogNext]_logVars

-----------------------------------------------------------------------------
\* What the options of the first logger ask for, whatever child() did since: the
\* k-th name of p is a sensitive key of a record that is not inside an instance;
\* p is not below one.
Raw(p, k) == \E j \in 1 .. k - 1 : Passed(Along(p)[j])
HiddenAt(p, k) ==
  heap[Along(p)[k - 1]].kind = "record" /\ isRedactKey(p[k], policy) /\ ~Raw(p, k)
Hidden(p) == HiddenAt(p, Len(p))
Shown(p) == \A k \in 1 .. Len(p) - 1 : ~HiddenAt(p, k)

\* Where the line ends, and with what.
Ending(p) == Shown(p) /\ (Hidden(p) \/ Closes(p) \/ ~Traversed(ValueAt(p)))
Written(p) == IF Hidden(p) THEN REDACTED ELSE IF Closes(p) THEN CIRCULAR ELSE ValueAt(p)

\* What no line can show: a bigint, and a cycle that redact() does not cut.
Fatal(p) ==
  /\ Shown(p) /\ ~Hidden(p)
  /\ KindOf(ValueAt(p)) = "bigint" \/ (Closes(p) /\ (Raw(p, Len(p)) \/ policy = {}))

\* A written line is the merged record with exactly the values under sensitive
\* keys of arrays and plain records replaced, at any depth and through child
\* loggers, and what is inside a class instance as it is: nothing below a
\* replaced value is written, a cycle of arrays and records is cut where it
\* closes, and an object that is merely shared is written in full wherever it
\* appears.  A log call throws exactly when a bigint, or a cycle inside an
\* instance, is to be shown: no other cycle exhausts the stack or reaches
\* JSON.stringify.
LineIsRedactedCopy ==
  /\ phase = "written" =>
       /\ out = {<<p, Written(p)>> : p \in {q \in Reached : Ending(q)}}
       /\ \A p \in Reached : ~Fatal(p)
  /\ phase = "threw" => \E p \in Reached : Fatal(p)

-----------------------------------------------------------------------------
\* What of the line is in the copy.
InCopy(p) == Ending(p) /\ ~Raw(p, Len(p))

\* The copy has what is behind the walk, which enters no instance and no
\* sensitive value.
WalkInv ==
  /\ OnPath(stack) /\ seen = Inside(stack) /\ policy # {}
  /\ \A k \in 1 .. Len(stack) : Traversed(stack[k].obj)
  /\ \A k \in 1 .. Len(stack) - 1 :
       ~(heap[stack[k].obj].kind = "record" /\ isRedactKey(NameSeq[stack[k].i], policy))
  /\ out = {<<p, Written(p)>> : p \in {q \in Reached : InCopy(q) /\ Behind(stack, q)}}

\* What the steps preserve.
LogInv ==
  /\ GraphOK /\ policy = logger.redactKeys /\ logger.base \in [Name -> Value]
  /\ phase \in {"idle", "redact", "stringify", "written", "filtered", "threw"}
  /\ phase = "idle" => out = {}
  /\ phase = "redact" => WalkInv
  /\ phase = "stringify" =>
       out = {<<p, Written(p)>> : p \in {q \in Reached : InCopy(q) /\ policy # {}}}
  /\ LineIsRedactedCopy
=============================================================================
