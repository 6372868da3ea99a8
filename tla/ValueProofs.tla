---------------------------- MODULE ValueProofs ----------------------------
(***************************************************************************)
(* Theorems about what the program does to values, for values of every     *)
(* size: the copy that the logger redacts, the payload that is judged by   *)
(* its size, the SCALE encoding of integers and bytes, and the amounts of  *)
(* a token field. The walks are loops over a stack, LogInv and JsonInv are *)
(* their invariants; the rest is arithmetic, by induction over the digits. *)
(***************************************************************************)
EXTENDS Logger, JsonPayload, Scale, TokenAmount, PowerProofs, FiniteSetTheorems

-----------------------------------------------------------------------------
\* The object graph and the stack that walks over it.

\* Along obeys its recursive definition.
LEMMA AlongDef ==
  ASSUME NEW p \in Seq(Name)
  PROVE  Along(p) = [k \in 0 .. Len(p) |-> IF k = 0 THEN Root ELSE FieldOf(Along(p)[k - 1], p[k])]
<1> DEFINE Is(f, n) == f = [k \in 0 .. n |-> IF k = 0 THEN Root ELSE FieldOf(f[k - 1], p[k])]
           S == {n \in Nat : \E f : Is(f, n)}
<1>1. 0 \in S
  <2>1. Is([k \in 0 .. 0 |-> Root], 0)
    OBVIOUS
  <2> QED BY <2>1
<1>2. ASSUME NEW n \in Nat, n \in S PROVE n + 1 \in S
  <2>1. PICK f : Is(f, n)
    BY <1>2
  <2> DEFINE g == [k \in 0 .. n + 1 |-> IF k <= n THEN f[k] ELSE FieldOf(f[n], p[n + 1])]
  <2>2. \A k \in 0 .. n + 1 : g[k] = IF k = 0 THEN Root ELSE FieldOf(g[k - 1], p[k])
    <3> TAKE k \in 0 .. n + 1
    <3>1. CASE k = 0
      BY <2>1, <3>1
    <3>2. CASE k \in 1 .. n
      <4>1. g[k] = f[k] /\ g[k - 1] = f[k - 1]
        BY <3>2
      <4> QED BY <2>1, <3>2, <4>1
    <3>3. CASE k = n + 1
      BY <3>3
    <3> QED BY <3>1, <3>2, <3>3
  <2>3. Is(g, n + 1)
    <3> HIDE DEF g
    <3>1. g = [k \in 0 .. n + 1 |-> g[k]]
      BY DEF g
    <3> QED BY <2>2, <3>1
  <2> HIDE DEF g, Is
  <2> QED BY <2>3
<1>3. Nat \subseteq S
  <2> HIDE DEF S
  <2> QED BY <1>1, <1>2, Induction
<1>4. \E f : Is(f, Len(p))
  BY <1>3
<1>5. Along(p) = CHOOSE f : Is(f, Len(p))
  BY DEF Along
<1>6. Is(Along(p), Len(p))
  <2> HIDE DEF Is
  <2> QED BY <1>4, <1>5
<1> QED BY <1>6

\* NameSeq lists every name once.
LEMMA NameSeqOK ==
  /\ Len(NameSeq) \in Nat /\ DOMAIN NameSeq = 1 .. Len(NameSeq)
  /\ \A k \in 1 .. Len(NameSeq) : NameSeq[k] \in Name
  /\ \A n \in Name : \E k \in 1 .. Len(NameSeq) : n = NameSeq[k]
  /\ \A j, k \in 1 .. Len(NameSeq) : NameSeq[j] = NameSeq[k] => j = k
BY GraphAssumption DEF Name, Range

\* Where a path is after none and after k of its names.
LEMMA AlongAt ==
  ASSUME NEW p \in Seq(Name)
  PROVE  /\ Along(p)[0] = Root
         /\ \A k \in 1 .. Len(p) : Along(p)[k] = FieldOf(Along(p)[k - 1], p[k])
<1> DEFINE a == Along(p)
<1>1. a = [k \in 0 .. Len(p) |-> IF k = 0 THEN Root ELSE FieldOf(a[k - 1], p[k])]
  BY AlongDef
<1> HIDE DEF a
<1>2. a[0] = Root /\ \A k \in 1 .. Len(p) : a[k] = FieldOf(a[k - 1], p[k])
  BY <1>1
<1> QED BY <1>2 DEF a

\* What a path leads to depends on the names up to there.
LEMMA AlongPrefix ==
  ASSUME NEW p \in Seq(Name), NEW q \in Seq(Name), NEW n \in Nat,
         n <= Len(p), n <= Len(q), \A k \in 1 .. n : p[k] = q[k]
  PROVE  \A k \in 0 .. n : Along(p)[k] = Along(q)[k]
<1> DEFINE S == {k \in Nat : k <= n => Along(p)[k] = Along(q)[k]}
<1>1. 0 \in S
  BY AlongAt
<1>2. ASSUME NEW k \in Nat, k \in S PROVE k + 1 \in S
  <2> SUFFICES ASSUME k + 1 <= n PROVE Along(p)[k + 1] = Along(q)[k + 1]
    OBVIOUS
  <2>1. k + 1 \in 1 .. Len(p) /\ k + 1 \in 1 .. Len(q) /\ k + 1 \in 1 .. n /\ (k + 1) - 1 = k
    OBVIOUS
  <2>2. /\ Along(p)[k + 1] = FieldOf(Along(p)[(k + 1) - 1], p[k + 1])
        /\ Along(q)[k + 1] = FieldOf(Along(q)[(k + 1) - 1], q[k + 1])
    BY <2>1, AlongAt
  <2> QED BY <1>2, <2>1, <2>2
<1>3. Nat \subseteq S
  <2> HIDE DEF S
  <2> QED BY <1>1, <1>2, Induction
<1> QED BY <1>3

\* Below a value that is no container there is nothing.
LEMMA AlongEnds ==
  ASSUME GraphOK, NEW p \in Seq(Name), NEW k \in 0 .. Len(p) - 1, ~Container(Along(p)[k])
  PROVE  ValueAt(p) = Absent
<1> DEFINE S == {j \in Nat : k + 1 + j <= Len(p) => Along(p)[k + 1 + j] = Absent}
<1>0. ~Container(Absent)
  BY GraphAssumption DEF Container, IsObject
<1>1. 0 \in S
  BY AlongAt DEF FieldOf
<1>2. ASSUME NEW j \in Nat, j \in S PROVE j + 1 \in S
  <2> SUFFICES ASSUME k + 1 + (j + 1) <= Len(p) PROVE Along(p)[k + 1 + (j + 1)] = Absent
    OBVIOUS
  <2> DEFINE i == k + 1 + (j + 1)
  <2>1. i \in 1 .. Len(p) /\ i - 1 = k + 1 + j
    OBVIOUS
  <2>2. Along(p)[i] = FieldOf(Along(p)[i - 1], p[i])
    BY <2>1, AlongAt
  <2> QED BY <1>0, <1>2, <2>1, <2>2 DEF FieldOf
<1>3. Nat \subseteq S
  <2> HIDE DEF S
  <2> QED BY <1>1, <1>2, Induction
<1> DEFINE j == Len(p) - 1 - k
<1>4. j \in Nat /\ k + 1 + j = Len(p) /\ k + 1 + j <= Len(p)
  OBVIOUS
<1>5. Along(p)[k + 1 + j] = Absent
  BY <1>3, <1>4
<1> QED BY <1>4, <1>5 DEF ValueAt

-----------------------------------------------------------------------------
\* The types of a stack that lies on a path.
LEMMA FramesType ==
  ASSUME NEW frames, OnPath(frames)
  PROVE  /\ Len(frames) \in Nat /\ Len(frames) >= 1 /\ frames \in Seq(Frame)
         /\ \A k \in 1 .. Len(frames) : /\ frames[k] \in Frame
                                      /\ frames[k].obj \in Obj \cup {Root}
                                      /\ frames[k].i \in 1 .. Len(NameSeq) + 1
<1>1. frames \in Seq(Frame) /\ frames # << >>
  BY DEF OnPath
<1>2. Len(frames) \in Nat /\ Len(frames) >= 1 /\ \A k \in 1 .. Len(frames) : frames[k] \in Frame
  BY <1>1
<1> QED BY <1>1, <1>2 DEF Frame

\* The objects of the frames are what the path to them comes through.
LEMMA FramesAlong ==
  ASSUME GraphOK, NEW frames, OnPath(frames), NEW p \in Seq(Name), NEW n \in 1 .. Len(frames),
         n - 1 <= Len(p), \A k \in 1 .. n - 1 : p[k] = NameSeq[frames[k].i]
  PROVE  \A k \in 0 .. n - 1 : Along(p)[k] = frames[k + 1].obj
<1> DEFINE S == {k \in Nat : k <= n - 1 => Along(p)[k] = frames[k + 1].obj}
<1>0. n \in Nat /\ Len(frames) \in Nat
  BY FramesType
<1>1. 0 \in S
  BY AlongAt DEF OnPath
<1>2. ASSUME NEW k \in Nat, k \in S PROVE k + 1 \in S
  <2> SUFFICES ASSUME k + 1 <= n - 1 PROVE Along(p)[k + 1] = frames[(k + 1) + 1].obj
    OBVIOUS
  <2> DEFINE i == k + 1
  <2>1. i \in 1 .. Len(p) /\ i \in 1 .. Len(frames) - 1 /\ i \in 1 .. n - 1 /\ i - 1 = k /\ i \in 1 .. Len(frames)
    BY <1>0
  <2>2. Along(p)[i] = FieldOf(Along(p)[i - 1], p[i])
    BY <2>1, AlongAt
  <2>3. Along(p)[i - 1] = frames[i].obj
    BY <1>2, <2>1
  <2>4. Container(frames[i].obj) /\ frames[i + 1].obj = heap[frames[i].obj].fields[NameSeq[frames[i].i]]
    BY <2>1 DEF OnPath
  <2>5. p[i] = NameSeq[frames[i].i]
    BY <2>1
  <2> QED BY <2>2, <2>3, <2>4, <2>5 DEF FieldOf
<1>3. Nat \subseteq S
  <2> HIDE DEF S
  <2> QED BY <1>1, <1>2, Induction
<1> QED BY <1>0, <1>3

\* No object is entered twice, so the frames are few.
LEMMA FramesFew ==
  ASSUME NEW frames, OnPath(frames)
  PROVE  Len(frames) <= Cardinality(Obj) + 1 /\ Cardinality(Obj) \in Nat
<1> DEFINE S == Obj \cup {Root}
           f == [k \in 1 .. Len(frames) |-> frames[k].obj]
<1>1. IsFiniteSet(S) /\ Cardinality(S) = Cardinality(Obj) + 1 /\ Cardinality(Obj) \in Nat
  BY GraphAssumption, FS_AddElement, FS_CardinalityType
<1>2. Len(frames) \in Nat /\ Len(frames) >= 1 /\ \A k \in 1 .. Len(frames) : frames[k].obj \in S
  BY FramesType
<1>3. f \in Injection(1 .. Len(frames), S)
  BY <1>2 DEF OnPath, Injection, IsInjective
<1>4. Cardinality(1 .. Len(frames)) = Len(frames)
  BY <1>2, FS_Interval
<1> HIDE DEF f, S
<1>5. Cardinality(1 .. Len(frames)) <= Cardinality(S)
  BY <1>1, <1>3, FS_Injection
<1> QED BY <1>1, <1>4, <1>5

\* The paths are the sequences of names that are not too long.
LEMMA PathType ==
  /\ \A p \in Path : /\ p \in Seq(Name) /\ Len(p) \in 1 .. Cardinality(Obj) + 1 /\ DOMAIN p = 1 .. Len(p)
                     /\ \A k \in 1 .. Len(p) : p[k] \in Name
  /\ \A p \in Seq(Name) : Len(p) \in 1 .. Cardinality(Obj) + 1 => p \in Path
<1>1. Cardinality(Obj) \in Nat
  BY GraphAssumption, FS_CardinalityType
<1>2. ASSUME NEW p \in Path
      PROVE  /\ p \in Seq(Name) /\ Len(p) \in 1 .. Cardinality(Obj) + 1 /\ DOMAIN p = 1 .. Len(p)
             /\ \A k \in 1 .. Len(p) : p[k] \in Name
  <2>1. PICK k \in 1 .. Cardinality(Obj) + 1 : p \in [1 .. k -> Name]
    BY DEF Path
  <2>2. k \in Nat
    BY <1>1
  <2>3. p \in Seq(Name) /\ Len(p) = k
    BY <2>1, <2>2
  <2> QED BY <2>1, <2>3
<1>3. ASSUME NEW p \in Seq(Name), Len(p) \in 1 .. Cardinality(Obj) + 1 PROVE p \in Path
  <2>1. p \in [1 .. Len(p) -> Name]
    OBVIOUS
  <2> QED BY <1>3, <2>1 DEF Path
<1> QED BY <1>2, <1>3

\* The fields of a container are values.
LEMMA ValuesType ==
  ASSUME GraphOK, NEW v, Container(v), NEW n \in Name
  PROVE  heap[v].fields[n] \in Value /\ FieldOf(v, n) = heap[v].fields[n]
<1>1. v \in Obj \cup {Root} /\ heap[v] \in Node
  BY DEF GraphOK, Container, IsObject
<1> QED BY <1>1 DEF Node, FieldOf

\* The entry under the cursor is a value, the one the top frame's object has there.
LEMMA EntryType ==
  ASSUME GraphOK, NEW frames, OnPath(frames), TopOf(frames).i <= Len(NameSeq)
  PROVE  /\ TopOf(frames).i \in 1 .. Len(NameSeq) /\ NameSeq[TopOf(frames).i] \in Name
         /\ EntryAt(frames) \in Value
         /\ EntryAt(frames) = FieldOf(TopOf(frames).obj, NameSeq[TopOf(frames).i])
<1>1. Len(frames) \in 1 .. Len(frames) /\ frames[Len(frames)].i \in 1 .. Len(NameSeq) + 1
  BY FramesType
<1>2. TopOf(frames).i \in 1 .. Len(NameSeq) /\ Container(TopOf(frames).obj)
  BY <1>1, NameSeqOK DEF TopOf, OnPath
<1>3. NameSeq[TopOf(frames).i] \in Name
  BY <1>2, NameSeqOK
<1> QED BY <1>2, <1>3, ValuesType DEF EntryAt

\* The path to the entry a walk is at comes through the frames' objects.
LEMMA PathToEntry ==
  ASSUME GraphOK, NEW frames, OnPath(frames), TopOf(frames).i <= Len(NameSeq)
  PROVE  /\ PathTo(frames) \in Path /\ PathTo(frames) \in Seq(Name)
         /\ Len(PathTo(frames)) = Len(frames)
         /\ \A k \in 1 .. Len(frames) : PathTo(frames)[k] = NameSeq[frames[k].i]
         /\ \A k \in 0 .. Len(frames) - 1 : Along(PathTo(frames))[k] = frames[k + 1].obj
         /\ ValueAt(PathTo(frames)) = EntryAt(frames)
         /\ EntryAt(frames) # Absent => PathTo(frames) \in Reached
         /\ Closes(PathTo(frames)) <=> EntryAt(frames) \in Inside(frames)
<1> DEFINE p == PathTo(frames)
           n == Len(frames)
<1>1. n \in Nat /\ n >= 1 /\ n \in 1 .. n
  BY FramesType
<1>2. \A k \in 1 .. n : NameSeq[frames[k].i] \in Name
  <2> TAKE k \in 1 .. n
  <2>1. k = n \/ k \in 1 .. Len(frames) - 1
    BY <1>1
  <2>2. CASE k = n
    BY <2>2, EntryType DEF TopOf
  <2>3. CASE k \in 1 .. Len(frames) - 1
    <3>1. frames[k].i <= Len(NameSeq) /\ frames[k].i \in 1 .. Len(NameSeq) + 1
      BY <2>3, FramesType DEF OnPath
    <3> QED BY <3>1, NameSeqOK
  <2> QED BY <2>1, <2>2, <2>3
<1>3. p \in Seq(Name) /\ Len(p) = n /\ \A k \in 1 .. n : p[k] = NameSeq[frames[k].i]
  <2>1. p = [k \in 1 .. n |-> NameSeq[frames[k].i]]
    BY DEF PathTo
  <2> QED BY <1>1, <1>2, <2>1
<1> HIDE DEF p
<1>4. p \in Path
  BY <1>1, <1>3, PathType, FramesFew
<1>5. \A k \in 0 .. n - 1 : Along(p)[k] = frames[k + 1].obj
  BY <1>1, <1>3, FramesAlong
<1>6. ValueAt(p) = EntryAt(frames)
  <2>1. Along(p)[n] = FieldOf(Along(p)[n - 1], p[n])
    BY <1>1, <1>3, AlongAt
  <2>2. Along(p)[n - 1] = TopOf(frames).obj /\ p[n] = NameSeq[TopOf(frames).i]
    BY <1>1, <1>3, <1>5 DEF TopOf
  <2> QED BY <1>3, <2>1, <2>2, EntryType DEF ValueAt
<1>7. EntryAt(frames) # Absent => p \in Reached
  <2>1. \A j, k \in 0 .. Len(p) - 1 : Along(p)[j] = Along(p)[k] => j = k
    <3> SUFFICES ASSUME NEW j \in 0 .. n - 1, NEW k \in 0 .. n - 1, Along(p)[j] = Along(p)[k]
                 PROVE  j = k
      BY <1>3
    <3>1. j + 1 \in 1 .. n /\ k + 1 \in 1 .. n /\ frames[j + 1].obj = frames[k + 1].obj
      BY <1>1, <1>5
    <3>2. j + 1 = k + 1
      BY <3>1 DEF OnPath
    <3> QED BY <3>2
  <2> QED BY <1>4, <1>6, <2>1 DEF Reached
<1>8. Closes(p) <=> EntryAt(frames) \in Inside(frames)
  <2>1. ASSUME Closes(p) PROVE EntryAt(frames) \in Inside(frames)
    <3>1. PICK k \in 0 .. n - 1 : Along(p)[k] = EntryAt(frames)
      BY <1>3, <1>6, <2>1 DEF Closes
    <3>2. k + 1 \in 1 .. n /\ frames[k + 1].obj = EntryAt(frames)
      BY <1>1, <1>5, <3>1
    <3> QED BY <3>2 DEF Inside
  <2>2. ASSUME EntryAt(frames) \in Inside(frames) PROVE Closes(p)
    <3>1. PICK k \in 1 .. n : frames[k].obj = EntryAt(frames)
      BY <2>2 DEF Inside
    <3>2. k - 1 \in 0 .. n - 1 /\ (k - 1) + 1 = k
      BY <1>1
    <3>3. Along(p)[k - 1] = EntryAt(frames)
      BY <1>5, <3>1, <3>2
    <3> QED BY <1>3, <1>6, <3>2, <3>3 DEF Closes
  <2> QED BY <2>1, <2>2
<1> QED BY <1>3, <1>4, <1>5, <1>6, <1>7, <1>8 DEF p

\* p begins with h.
Below(p, h) == Len(h) <= Len(p) /\ \A k \in 1 .. Len(h) : p[k] = h[k]

\* Only a container that does not close a cycle has paths below it.
LEMMA BelowEntry ==
  ASSUME GraphOK, NEW frames, OnPath(frames), TopOf(frames).i <= Len(NameSeq),
         NEW p \in Reached, Below(p, PathTo(frames)), p # PathTo(frames)
  PROVE  /\ Container(EntryAt(frames)) /\ EntryAt(frames) \notin Inside(frames)
         /\ Len(p) > Len(frames)
<1> DEFINE h == PathTo(frames)
           n == Len(frames)
<1>1. /\ n \in Nat /\ n >= 1 /\ h \in Seq(Name) /\ Len(h) = n /\ ValueAt(h) = EntryAt(frames)
      /\ \A k \in 0 .. n - 1 : Along(h)[k] = frames[k + 1].obj
  BY FramesType, PathToEntry
<1>2. p \in Seq(Name) /\ p \in Path /\ ValueAt(p) # Absent
  BY PathType DEF Reached
<1> HIDE DEF h
<1>3. Len(p) >= n /\ \A k \in 1 .. n : p[k] = h[k]
  BY <1>1 DEF Below, h
<1>4. Len(p) > n
  <2> SUFFICES ASSUME Len(p) = n PROVE FALSE
    BY <1>1, <1>2, <1>3
  <2>1. p = h
    BY <1>1, <1>2, <1>3
  <2> QED BY <2>1 DEF h
<1>5. \A k \in 0 .. n : Along(p)[k] = Along(h)[k]
  BY <1>1, <1>2, <1>3, AlongPrefix
<1>6. Along(p)[n] = EntryAt(frames) /\ n \in 0 .. Len(p) - 1
  BY <1>1, <1>2, <1>4, <1>5 DEF ValueAt
<1>7. Container(EntryAt(frames))
  BY <1>2, <1>6, AlongEnds
<1>8. EntryAt(frames) \notin Inside(frames)
  <2> SUFFICES ASSUME EntryAt(frames) \in Inside(frames) PROVE FALSE
    OBVIOUS
  <2>1. PICK k \in 1 .. n : frames[k].obj = EntryAt(frames)
    BY DEF Inside
  <2>2. k - 1 \in 0 .. n - 1 /\ k - 1 \in 0 .. n /\ (k - 1) + 1 = k /\ k - 1 \in 0 .. Len(p) - 1 /\ k - 1 # n
    BY <1>1, <1>2, <1>4
  <2>3. Along(p)[k - 1] = Along(p)[n]
    BY <1>1, <1>5, <1>6, <2>1, <2>2
  <2> QED BY <1>6, <2>2, <2>3 DEF Reached
<1> QED BY <1>1, <1>4, <1>7, <1>8

\* Advanced, Entering and Front change the frames at their end.
LEMMA AdvancedIs ==
  ASSUME NEW frames \in Seq(Frame), frames # << >>, TopOf(frames).i <= Len(NameSeq)
  PROVE  /\ Advanced(frames) \in Seq(Frame) /\ Len(Advanced(frames)) = Len(frames)
         /\ \A k \in 1 .. Len(frames) - 1 : Advanced(frames)[k] = frames[k]
         /\ \A k \in 1 .. Len(frames) : Advanced(frames)[k].obj = frames[k].obj
         /\ Advanced(frames)[Len(frames)].i = frames[Len(frames)].i + 1
<1> DEFINE n == Len(frames)
           f == frames[n]
           g == [f EXCEPT !.i = @ + 1]
<1>1. n \in Nat /\ n >= 1 /\ n \in 1 .. n /\ f \in Frame
  OBVIOUS
<1>2. f.i <= Len(NameSeq)
  BY DEF TopOf
<1>3. g \in Frame /\ g.obj = f.obj /\ g.i = f.i + 1
  BY <1>1, <1>2, NameSeqOK DEF Frame
<1>4. Advanced(frames) = [frames EXCEPT ![n] = g]
  BY DEF Advanced
<1> HIDE DEF g
<1>5. /\ [frames EXCEPT ![n] = g] \in Seq(Frame) /\ Len([frames EXCEPT ![n] = g]) = n
      /\ [frames EXCEPT ![n] = g][n] = g
      /\ \A k \in 1 .. n - 1 : [frames EXCEPT ![n] = g][k] = frames[k]
  BY <1>1, <1>3
<1>6. \A k \in 1 .. n : Advanced(frames)[k].obj = frames[k].obj
  <2> TAKE k \in 1 .. n
  <2>1. k = n \/ k \in 1 .. n - 1
    BY <1>1
  <2> QED BY <1>3, <1>4, <1>5, <2>1
<1> QED BY <1>3, <1>4, <1>5, <1>6

\* The stack after an object was entered,
LEMMA EnteringIs ==
  ASSUME GraphOK, NEW frames, OnPath(frames), TopOf(frames).i <= Len(NameSeq),
         Container(EntryAt(frames))
  PROVE  /\ Entering(frames) \in Seq(Frame) /\ Len(Entering(frames)) = Len(frames) + 1
         /\ \A k \in 1 .. Len(frames) : Entering(frames)[k] = frames[k]
         /\ Entering(frames)[Len(frames) + 1].obj = EntryAt(frames)
         /\ Entering(frames)[Len(frames) + 1].i = 1
<1> DEFINE g == [obj |-> EntryAt(frames), i |-> 1]
<1>1. g \in Frame /\ g.obj = EntryAt(frames) /\ g.i = 1
  BY NameSeqOK DEF Container, IsObject, Frame
<1>2. Entering(frames) = Append(frames, g)
  BY DEF Entering
<1> HIDE DEF g
<1>3. frames \in Seq(Frame)
  BY FramesType
<1>4. /\ Append(frames, g) \in Seq(Frame) /\ Len(Append(frames, g)) = Len(frames) + 1
      /\ \A k \in 1 .. Len(frames) : Append(frames, g)[k] = frames[k]
      /\ Append(frames, g)[Len(frames) + 1] = g
  BY <1>1, <1>3
<1> QED BY <1>1, <1>2, <1>4

\* and after one was left.
LEMMA FrontIs ==
  ASSUME NEW frames, OnPath(frames), Len(frames) > 1
  PROVE  /\ Front(frames) \in Seq(Frame) /\ Len(Front(frames)) = Len(frames) - 1
         /\ \A k \in 1 .. Len(frames) - 1 : Front(frames)[k] = frames[k]
         /\ TopOf(Front(frames)) = frames[Len(frames) - 1]
         /\ OnPath(Front(frames))
<1> DEFINE n == Len(frames)
<1>1. frames \in Seq(Frame) /\ n \in Nat
  BY FramesType
<1>2. /\ SubSeq(frames, 1, n - 1) \in Seq(Frame) /\ Len(SubSeq(frames, 1, n - 1)) = n - 1
      /\ \A k \in 1 .. n - 1 : SubSeq(frames, 1, n - 1)[k] = frames[k]
  BY <1>1
<1>3. /\ Front(frames) \in Seq(Frame) /\ Len(Front(frames)) = n - 1
      /\ \A k \in 1 .. n - 1 : Front(frames)[k] = frames[k]
  BY <1>2 DEF Front
<1>4. TopOf(Front(frames)) = frames[n - 1]
  BY <1>1, <1>3 DEF TopOf
<1>5. OnPath(Front(frames))
  <2> DEFINE g == Front(frames)
  <2> HIDE DEF g
  <2>1. g \in Seq(Frame) /\ Len(g) = n - 1 /\ \A k \in 1 .. n - 1 : g[k] = frames[k]
    BY <1>3 DEF g
  <2>2. g # << >> /\ g[1].obj = Root
    BY <1>1, <2>1 DEF OnPath
  <2>3. \A k \in 1 .. Len(g) : Container(g[k].obj)
    BY <1>1, <2>1 DEF OnPath
  <2>4. \A k \in 1 .. Len(g) - 1 :
          /\ g[k].i <= Len(NameSeq) /\ g[k + 1].obj = heap[g[k].obj].fields[NameSeq[g[k].i]]
    <3> TAKE k \in 1 .. Len(g) - 1
    <3>1. k \in 1 .. n - 1 /\ k + 1 \in 1 .. n - 1 /\ g[k] = frames[k] /\ g[k + 1] = frames[k + 1]
      BY <1>1, <2>1
    <3> QED BY <3>1 DEF OnPath
  <2>5. \A j, k \in 1 .. Len(g) : g[j].obj = g[k].obj => j = k
    BY <1>1, <2>1 DEF OnPath
  <2> QED BY <2>1, <2>2, <2>3, <2>4, <2>5 DEF OnPath, g
<1> QED BY <1>3, <1>4, <1>5

\* The walk goes on to the next entry: it is past what is below this one.
LEMMA Advances ==
  ASSUME GraphOK, NEW frames, OnPath(frames), TopOf(frames).i <= Len(NameSeq)
  PROVE  /\ OnPath(Advanced(frames)) /\ Inside(Advanced(frames)) = Inside(frames)
         /\ \A p \in Seq(Name) :
              Behind(Advanced(frames), p) <=> Behind(frames, p) \/ Below(p, PathTo(frames))
<1> DEFINE n == Len(frames)
           g == Advanced(frames)
<1>0. frames \in Seq(Frame) /\ frames # << >> /\ n \in Nat /\ n >= 1
  BY FramesType DEF OnPath
<1>1. /\ g \in Seq(Frame) /\ Len(g) = n
      /\ \A k \in 1 .. n - 1 : g[k] = frames[k]
      /\ \A k \in 1 .. n : g[k].obj = frames[k].obj
      /\ g[n].i = frames[n].i + 1
  BY <1>0, AdvancedIs
<1> HIDE DEF g
<1>2. OnPath(g)
  <2>1. g # << >> /\ g[1].obj = Root
    BY <1>0, <1>1 DEF OnPath
  <2>2. \A k \in 1 .. Len(g) : Container(g[k].obj)
    BY <1>1 DEF OnPath
  <2>3. \A k \in 1 .. Len(g) - 1 :
          /\ g[k].i <= Len(NameSeq) /\ g[k + 1].obj = heap[g[k].obj].fields[NameSeq[g[k].i]]
    <3> TAKE k \in 1 .. Len(g) - 1
    <3>1. k \in 1 .. n - 1 /\ k + 1 \in 1 .. n /\ g[k] = frames[k] /\ g[k + 1].obj = frames[k + 1].obj
      BY <1>0, <1>1
    <3> QED BY <3>1 DEF OnPath
  <2>4. \A j, k \in 1 .. Len(g) : g[j].obj = g[k].obj => j = k
    BY <1>1 DEF OnPath
  <2> QED BY <1>1, <2>1, <2>2, <2>3, <2>4 DEF OnPath
<1>3. Inside(g) = Inside(frames)
  BY <1>1 DEF Inside
<1>4. ASSUME NEW p \in Seq(Name)
      PROVE  Behind(g, p) <=> Behind(frames, p) \/ Below(p, PathTo(frames))
  <2> DEFINE h == PathTo(frames)
  <2>1. Len(h) = n /\ \A k \in 1 .. n : h[k] = NameSeq[frames[k].i]
    BY PathToEntry
  <2> HIDE DEF h
  <2>2. frames[n].i \in 1 .. Len(NameSeq) /\ Len(NameSeq) \in Nat
    BY EntryType, NameSeqOK DEF TopOf
  <2>3. ASSUME Behind(g, p), ~Behind(frames, p) PROVE Below(p, h)
    <3>1. PICK k \in 1 .. n : /\ k <= Len(p) /\ \A j \in 1 .. k - 1 : p[j] = NameSeq[g[j].i]
                              /\ \E m \in 1 .. g[k].i - 1 : p[k] = NameSeq[m]
      BY <1>1, <2>3 DEF Behind
    <3>2. \A j \in 1 .. k - 1 : p[j] = NameSeq[frames[j].i]
      <4>1. \A j \in 1 .. k - 1 : j \in 1 .. n - 1
        BY <1>0
      <4>2. \A j \in 1 .. k - 1 : g[j] = frames[j]
        BY <1>1, <4>1
      <4> QED BY <3>1, <4>2
    <3>3. k = n
      <4> SUFFICES ASSUME k \in 1 .. n - 1 PROVE FALSE
        BY <1>0
      <4> QED BY <1>1, <2>3, <3>1, <3>2 DEF Behind
    <3>4. PICK m \in 1 .. frames[n].i : p[n] = NameSeq[m]
      BY <1>1, <2>2, <3>1, <3>3
    <3>5. m = frames[n].i
      <4> SUFFICES ASSUME m \in 1 .. frames[n].i - 1 PROVE FALSE
        BY <2>2
      <4> QED BY <2>3, <3>1, <3>2, <3>3, <3>4 DEF Behind
    <3> QED BY <1>0, <2>1, <3>1, <3>2, <3>3, <3>4, <3>5 DEF Below
  <2>4. ASSUME Behind(frames, p) PROVE Behind(g, p)
    <3>1. PICK k \in 1 .. n : /\ k <= Len(p) /\ \A j \in 1 .. k - 1 : p[j] = NameSeq[frames[j].i]
                              /\ \E m \in 1 .. frames[k].i - 1 : p[k] = NameSeq[m]
      BY <2>4 DEF Behind
    <3>2. \A j \in 1 .. k - 1 : p[j] = NameSeq[g[j].i]
      BY <1>0, <1>1, <3>1
    <3>3. \E m \in 1 .. g[k].i - 1 : p[k] = NameSeq[m]
      <4>1. PICK m \in 1 .. frames[k].i - 1 : p[k] = NameSeq[m]
        BY <3>1
      <4>2. CASE k = n
        BY <1>1, <2>2, <4>1, <4>2
      <4>3. CASE k \in 1 .. n - 1
        BY <1>1, <4>1, <4>3
      <4> QED BY <1>0, <4>2, <4>3
    <3> QED BY <1>1, <3>1, <3>2, <3>3 DEF Behind
  <2>5. ASSUME Below(p, h) PROVE Behind(g, p)
    <3>1. n <= Len(p) /\ \A k \in 1 .. n : p[k] = NameSeq[frames[k].i]
      BY <2>1, <2>5 DEF Below
    <3>2. \A j \in 1 .. n - 1 : p[j] = NameSeq[g[j].i]
      BY <1>0, <1>1, <3>1
    <3>3. frames[n].i \in 1 .. g[n].i - 1 /\ p[n] = NameSeq[frames[n].i] /\ n \in 1 .. n
      BY <1>0, <1>1, <2>2, <3>1
    <3> QED BY <1>1, <3>1, <3>2, <3>3 DEF Behind
  <2> QED BY <2>3, <2>4, <2>5 DEF h
<1> QED BY <1>2, <1>3, <1>4 DEF g

\* The walk enters an object: that alone puts nothing behind it.
LEMMA Enters ==
  ASSUME GraphOK, NEW frames, OnPath(frames), TopOf(frames).i <= Len(NameSeq),
         Container(EntryAt(frames)), EntryAt(frames) \notin Inside(frames)
  PROVE  /\ OnPath(Entering(frames))
         /\ Inside(Entering(frames)) = Inside(frames) \cup {EntryAt(frames)}
         /\ \A p \in Seq(Name) : Behind(Entering(frames), p) <=> Behind(frames, p)
<1> DEFINE n == Len(frames)
           g == Entering(frames)
<1>0. n \in Nat /\ n >= 1
  BY FramesType
<1>1. /\ g \in Seq(Frame) /\ Len(g) = n + 1
      /\ \A k \in 1 .. n : g[k] = frames[k]
      /\ g[n + 1].obj = EntryAt(frames) /\ g[n + 1].i = 1
  BY EnteringIs
<1> HIDE DEF g
<1>2. OnPath(g)
  <2>1. g # << >> /\ g[1].obj = Root
    BY <1>0, <1>1 DEF OnPath
  <2>2. \A k \in 1 .. Len(g) : Container(g[k].obj)
    <3> TAKE k \in 1 .. Len(g)
    <3>1. k = n + 1 \/ k \in 1 .. n
      BY <1>0, <1>1
    <3> QED BY <1>1, <3>1 DEF OnPath
  <2>3. \A k \in 1 .. Len(g) - 1 :
          /\ g[k].i <= Len(NameSeq) /\ g[k + 1].obj = heap[g[k].obj].fields[NameSeq[g[k].i]]
    <3> TAKE k \in 1 .. Len(g) - 1
    <3>1. k \in 1 .. n /\ g[k] = frames[k]
      BY <1>0, <1>1
    <3>2. CASE k = n
      BY <1>1, <3>1, <3>2 DEF TopOf, EntryAt
    <3>3. CASE k \in 1 .. n - 1
      <4>1. k + 1 \in 1 .. n /\ g[k + 1] = frames[k + 1]
        BY <1>0, <1>1, <3>3
      <4> QED BY <3>1, <3>3, <4>1 DEF OnPath
    <3> QED BY <1>0, <3>1, <3>2, <3>3
  <2>4. \A j, k \in 1 .. Len(g) : g[j].obj = g[k].obj => j = k
    <3> TAKE j, k \in 1 .. Len(g)
    <3>1. (j = n + 1 \/ j \in 1 .. n) /\ (k = n + 1 \/ k \in 1 .. n)
      BY <1>0, <1>1
    <3>2. \A m \in 1 .. n : frames[m].obj # EntryAt(frames)
      BY DEF Inside
    <3> QED BY <1>1, <3>1, <3>2 DEF OnPath
  <2> QED BY <1>1, <2>1, <2>2, <2>3, <2>4 DEF OnPath
<1>3. Inside(g) = Inside(frames) \cup {EntryAt(frames)}
  <2>1. 1 .. n + 1 = (1 .. n) \cup {n + 1}
    BY <1>0
  <2> QED BY <1>1, <2>1 DEF Inside
<1>4. ASSUME NEW p \in Seq(Name) PROVE Behind(g, p) <=> Behind(frames, p)
  <2>1. ASSUME Behind(g, p) PROVE Behind(frames, p)
    <3>1. PICK k \in 1 .. n + 1 : /\ k <= Len(p) /\ \A j \in 1 .. k - 1 : p[j] = NameSeq[g[j].i]
                                  /\ \E m \in 1 .. g[k].i - 1 : p[k] = NameSeq[m]
      BY <1>1, <2>1 DEF Behind
    <3>2. k \in 1 .. n
      BY <1>0, <1>1, <3>1
    <3>3. \A j \in 1 .. k - 1 : p[j] = NameSeq[frames[j].i]
      BY <1>0, <1>1, <3>1, <3>2
    <3> QED BY <1>1, <3>1, <3>2, <3>3 DEF Behind
  <2>2. ASSUME Behind(frames, p) PROVE Behind(g, p)
    <3>1. PICK k \in 1 .. n : /\ k <= Len(p) /\ \A j \in 1 .. k - 1 : p[j] = NameSeq[frames[j].i]
                              /\ \E m \in 1 .. frames[k].i - 1 : p[k] = NameSeq[m]
      BY <2>2 DEF Behind
    <3>2. k \in 1 .. n + 1 /\ \A j \in 1 .. k - 1 : p[j] = NameSeq[g[j].i]
      <4>1. k \in 1 .. n + 1 /\ \A j \in 1 .. k - 1 : j \in 1 .. n
        BY <1>0
      <4>2. \A j \in 1 .. k - 1 : g[j] = frames[j]
        BY <1>1, <4>1
      <4> QED BY <3>1, <4>1, <4>2
    <3> QED BY <1>1, <3>1, <3>2 DEF Behind
  <2> QED BY <2>1, <2>2
<1> QED BY <1>2, <1>3, <1>4 DEF g

\* The walk leaves an object whose entries it is past: then it is past the
\* object too.
LEMMA Leaves ==
  ASSUME GraphOK, NEW frames, OnPath(frames), Len(frames) > 1, TopOf(frames).i > Len(NameSeq)
  PROVE  /\ OnPath(Advanced(Front(frames)))
         /\ Inside(Advanced(Front(frames))) = Inside(frames) \ {TopOf(frames).obj}
         /\ TopOf(Front(frames)).i <= Len(NameSeq) /\ OnPath(Front(frames))
         /\ EntryAt(Front(frames)) = TopOf(frames).obj
         /\ \A p \in Path :
              Behind(Advanced(Front(frames)), p) <=> Behind(frames, p) \/ p = PathTo(Front(frames))
<1> DEFINE n == Len(frames)
           g == Front(frames)
           h == PathTo(g)
<1>0. n \in Nat /\ n > 1
  BY FramesType
<1>1. /\ Len(g) = n - 1 /\ \A k \in 1 .. n - 1 : g[k] = frames[k]
      /\ TopOf(g) = frames[n - 1] /\ OnPath(g)
  BY FrontIs
<1> HIDE DEF g
<1>2. TopOf(g).i <= Len(NameSeq) /\ EntryAt(g) = TopOf(frames).obj
  <2>1. n - 1 \in 1 .. n - 1 /\ (n - 1) + 1 = n
    BY <1>0
  <2> QED BY <1>1, <2>1 DEF OnPath, TopOf, EntryAt
<1>3. /\ OnPath(Advanced(g)) /\ Inside(Advanced(g)) = Inside(g)
      /\ \A p \in Seq(Name) : Behind(Advanced(g), p) <=> Behind(g, p) \/ Below(p, h)
  BY <1>1, <1>2, Advances
<1>4. Inside(g) = Inside(frames) \ {TopOf(frames).obj}
  <2>1. \A k \in 1 .. n - 1 : k \in 1 .. n /\ frames[k].obj # frames[n].obj
    <3> TAKE k \in 1 .. n - 1
    <3>1. k \in 1 .. n /\ n \in 1 .. n /\ k # n
      BY <1>0
    <3> QED BY <3>1 DEF OnPath
  <2>2. \A k \in 1 .. n : k = n \/ k \in 1 .. n - 1
    BY <1>0
  <2>3. Inside(g) = {frames[k].obj : k \in 1 .. n - 1}
    BY <1>1 DEF Inside
  <2>4. Inside(frames) = {frames[k].obj : k \in 1 .. n - 1} \cup {frames[n].obj}
    BY <1>0, <2>1, <2>2 DEF Inside
  <2>5. frames[n].obj \notin {frames[k].obj : k \in 1 .. n - 1}
    BY <2>1
  <2> QED BY <2>3, <2>4, <2>5 DEF TopOf
<1>5. frames[n].i = Len(NameSeq) + 1 /\ Len(NameSeq) \in Nat
  BY <1>0, FramesType, NameSeqOK DEF TopOf
<1>6. Len(h) = n - 1 /\ h \in Seq(Name) /\ \A k \in 1 .. n - 1 : h[k] = NameSeq[frames[k].i]
  <2>1. Len(h) = Len(g) /\ h \in Seq(Name) /\ \A k \in 1 .. Len(g) : h[k] = NameSeq[g[k].i]
    BY <1>1, <1>2, PathToEntry
  <2> QED BY <1>1, <2>1
<1> HIDE DEF h
<1>7. ASSUME NEW p \in Path
      PROVE  Behind(Advanced(g), p) <=> Behind(frames, p) \/ p = h
  <2>0. p \in Seq(Name) /\ Len(p) \in Nat /\ \A k \in 1 .. Len(p) : p[k] \in Name
    BY PathType
  <2>1. ASSUME Behind(g, p) PROVE Behind(frames, p)
    <3>1. PICK k \in 1 .. n - 1 : /\ k <= Len(p) /\ \A j \in 1 .. k - 1 : p[j] = NameSeq[g[j].i]
                                  /\ \E m \in 1 .. g[k].i - 1 : p[k] = NameSeq[m]
      BY <1>1, <2>1 DEF Behind
    <3>2. k \in 1 .. n /\ g[k] = frames[k] /\ \A j \in 1 .. k - 1 : j \in 1 .. n - 1
      <4>1. k \in 1 .. n /\ \A j \in 1 .. k - 1 : j \in 1 .. n - 1
        BY <1>0
      <4> QED BY <1>1, <4>1
    <3>3. \A j \in 1 .. k - 1 : p[j] = NameSeq[frames[j].i]
      BY <1>1, <3>1, <3>2
    <3> QED BY <3>1, <3>2, <3>3 DEF Behind
  <2>2. ASSUME Below(p, h), p # h PROVE Behind(frames, p)
    <3>1. n - 1 <= Len(p) /\ \A k \in 1 .. n - 1 : p[k] = NameSeq[frames[k].i]
      BY <1>6, <2>2 DEF Below
    <3>2. Len(p) # n - 1
      <4> SUFFICES ASSUME Len(p) = n - 1 PROVE FALSE
        OBVIOUS
      <4>1. p = h
        BY <1>6, <2>0, <3>1
      <4> QED BY <2>2, <4>1
    <3>3. n <= Len(p) /\ p[n] \in Name
      BY <1>0, <2>0, <3>1, <3>2
    <3>4. \E m \in 1 .. frames[n].i - 1 : p[n] = NameSeq[m]
      BY <1>5, <3>3, NameSeqOK
    <3> QED BY <1>0, <3>1, <3>3, <3>4 DEF Behind
  <2>3. ASSUME Behind(frames, p), ~Behind(g, p) PROVE Below(p, h)
    <3>1. PICK k \in 1 .. n : /\ k <= Len(p) /\ \A j \in 1 .. k - 1 : p[j] = NameSeq[frames[j].i]
                              /\ \E m \in 1 .. frames[k].i - 1 : p[k] = NameSeq[m]
      BY <2>3 DEF Behind
    <3>2. k = n
      <4> SUFFICES ASSUME k \in 1 .. n - 1 PROVE FALSE
        BY <1>0
      <4>1. g[k] = frames[k] /\ \A j \in 1 .. k - 1 : p[j] = NameSeq[g[j].i]
        <5>1. \A j \in 1 .. k - 1 : j \in 1 .. n - 1
          BY <1>0
        <5>2. g[k] = frames[k] /\ \A j \in 1 .. k - 1 : g[j] = frames[j]
          BY <1>1, <5>1
        <5> QED BY <3>1, <5>2
      <4> QED BY <1>1, <2>3, <3>1, <4>1 DEF Behind
    <3> QED BY <1>0, <1>6, <2>0, <3>1, <3>2 DEF Below
  <2>4. p = h => Below(p, h)
    BY <1>6 DEF Below
  <2> QED BY <1>3, <2>0, <2>1, <2>2, <2>3, <2>4
<1> QED BY <1>1, <1>2, <1>3, <1>4, <1>7 DEF g, h

\* When the root is done, every path is behind the cursor.
LEMMA AllBehind ==
  ASSUME NEW frames, OnPath(frames), Len(frames) = 1, TopOf(frames).i > Len(NameSeq), NEW p \in Path
  PROVE  Behind(frames, p)
<1>1. frames[1].i = Len(NameSeq) + 1 /\ Len(NameSeq) \in Nat
  BY FramesType, NameSeqOK DEF TopOf
<1>2. 1 <= Len(p) /\ p[1] \in Name
  BY PathType, GraphAssumption, FS_CardinalityType
<1>3. \E m \in 1 .. frames[1].i - 1 : p[1] = NameSeq[m]
  BY <1>1, <1>2, NameSeqOK
<1> QED BY <1>2, <1>3 DEF Behind

\* A walk begins at the first entry of the root, with nothing behind it.
LEMMA Begins ==
  ASSUME GraphOK
  PROVE  /\ OnPath(<<[obj |-> Root, i |-> 1]>>) /\ Inside(<<[obj |-> Root, i |-> 1]>>) = {Root}
         /\ \A p : ~Behind(<<[obj |-> Root, i |-> 1]>>, p)
<1> DEFINE f == [obj |-> Root, i |-> 1]
           g == <<f>>
<1>1. f \in Frame /\ f.obj = Root /\ f.i = 1
  BY NameSeqOK DEF Frame
<1> HIDE DEF f
<1>2. g \in Seq(Frame) /\ Len(g) = 1 /\ g[1] = f /\ g # << >>
  BY <1>1
<1> HIDE DEF g
<1>3. Container(Root)
  BY DEF GraphOK, Container, IsObject
<1>4. OnPath(g)
  BY <1>1, <1>2, <1>3 DEF OnPath
<1>5. Inside(g) = {Root}
  BY <1>1, <1>2 DEF Inside
<1>6. \A p : ~Behind(g, p)
  BY <1>1, <1>2 DEF Behind
<1> QED BY <1>4, <1>5, <1>6 DEF g, f

\* The graph stays as it is while a walk goes over it.
LEMMA GraphSame ==
  ASSUME heap' = heap
  PROVE  /\ GraphOK' <=> GraphOK
         /\ \A p : Along(p)' = Along(p) /\ ValueAt(p)' = ValueAt(p) /\ (Closes(p)' <=> Closes(p))
         /\ Reached' = Reached
         /\ \A v : (Container(v)' <=> Container(v)) /\ KindOf(v)' = KindOf(v)
         /\ \A f : (OnPath(f)' <=> OnPath(f)) /\ EntryAt(f)' = EntryAt(f)
<1>1. \A v : (Container(v)' <=> Container(v)) /\ KindOf(v)' = KindOf(v)
  BY DEF Container, KindOf, IsObject
<1>2. \A p : Along(p)' = Along(p)
  BY Zenon DEF Along, FieldOf, Container, IsObject
<1>3. \A p : ValueAt(p)' = ValueAt(p) /\ (Closes(p)' <=> Closes(p))
  BY <1>2 DEF ValueAt, Closes
<1>4. Reached' = Reached
  BY <1>2, <1>3 DEF Reached
<1>5. GraphOK' <=> GraphOK
  BY DEF GraphOK
<1>6. \A f : (OnPath(f)' <=> OnPath(f)) /\ EntryAt(f)' = EntryAt(f)
  BY <1>1 DEF OnPath, EntryAt
<1> QED BY <1>1, <1>2, <1>3, <1>4, <1>5, <1>6

\* A graph put together from fields and objects is one.
LEMMA GraphFormed ==
  ASSUME NEW fields \in [Name -> Value], NEW objects \in Heaps, heap' = Graph(fields, objects)
  PROVE  GraphOK'
<1>1. objects \in [Obj -> Node] /\ Root \notin Obj
  BY GraphAssumption
<1> DEFINE r == [kind |-> "record", fields |-> fields]
<1>2. r \in Node /\ r.kind = "record"
  BY DEF Node
<1> HIDE DEF r
<1>3. heap' = [o \in Obj \cup {Root} |-> IF o = Root THEN r ELSE objects[o]]
  BY DEF Graph, r
<1> QED BY <1>1, <1>2, <1>3 DEF GraphOK

\* The same of the next state.
LEMMA BeginsNext ==
  GraphOK' => (/\ OnPath(<<[obj |-> Root, i |-> 1]>>)
               /\ Inside(<<[obj |-> Root, i |-> 1]>>) = {Root}
               /\ \A p : ~Behind(<<[obj |-> Root, i |-> 1]>>, p))'
<1>1. GraphOK => /\ OnPath(<<[obj |-> Root, i |-> 1]>>)
                 /\ Inside(<<[obj |-> Root, i |-> 1]>>) = {Root}
                 /\ \A p : ~Behind(<<[obj |-> Root, i |-> 1]>>, p)
  BY Begins
<1> QED BY <1>1, PTL

-----------------------------------------------------------------------------
\* redact and the logger.

\* What is to be hidden and written depends on the object graph and the policy only.
LEMMA CopySame ==
  ASSUME heap' = heap, policy' = policy
  PROVE  /\ \A v : (Traversed(v)' <=> Traversed(v)) /\ (Passed(v)' <=> Passed(v))
         /\ \A p : /\ (Hidden(p)' <=> Hidden(p)) /\ (Shown(p)' <=> Shown(p))
                   /\ (Ending(p)' <=> Ending(p)) /\ Written(p)' = Written(p)
                   /\ (InCopy(p)' <=> InCopy(p)) /\ (Fatal(p)' <=> Fatal(p))
<1>1. \A v : (Traversed(v)' <=> Traversed(v)) /\ (Passed(v)' <=> Passed(v))
  BY GraphSame DEF Traversed, Passed
<1>2. \A p, k : Raw(p, k)' <=> Raw(p, k)
  BY <1>1, GraphSame DEF Raw
<1>3. \A p, k : HiddenAt(p, k)' <=> HiddenAt(p, k)
  BY <1>2, GraphSame DEF HiddenAt, isRedactKey
<1>4. \A p : (Hidden(p)' <=> Hidden(p)) /\ (Shown(p)' <=> Shown(p))
  BY <1>3 DEF Hidden, Shown
<1>5. \A p : (Ending(p)' <=> Ending(p)) /\ Written(p)' = Written(p)
  BY <1>1, <1>4, GraphSame DEF Ending, Written
<1>6. \A p : (InCopy(p)' <=> InCopy(p)) /\ (Fatal(p)' <=> Fatal(p))
  BY <1>2, <1>4, <1>5, GraphSame DEF InCopy, Fatal
<1> QED BY <1>1, <1>4, <1>5, <1>6

\* What the walk does with an entry is what the copy is to have there.
LEMMA EntryCopied ==
  ASSUME GraphOK, WalkInv, policy = logger.redactKeys, Top.i <= Len(NameSeq)
  PROVE  /\ Shown(PathTo(stack)) /\ ~Raw(PathTo(stack), Len(PathTo(stack)))
         /\ (Hidden(PathTo(stack)) <=> Redacts)
         /\ (Closes(PathTo(stack)) <=> Circular(Entry)) /\ ValueAt(PathTo(stack)) = Entry
         /\ Written(PathTo(stack)) = Copied
         /\ \A p \in Reached : Below(p, PathTo(stack)) /\ p # PathTo(stack) /\ InCopy(p) => ~Redacts /\ Traversed(Entry)
<1> DEFINE h == PathTo(stack)
           n == Len(stack)
<1>1. OnPath(stack) /\ seen = Inside(stack) /\ TopOf(stack).i <= Len(NameSeq)
  BY DEF WalkInv, Top
<1>2. n \in Nat /\ n >= 1
  BY <1>1, FramesType
<1>3. /\ h \in Seq(Name) /\ Len(h) = n /\ ValueAt(h) = EntryAt(stack)
      /\ \A k \in 1 .. n : h[k] = NameSeq[stack[k].i]
      /\ \A k \in 0 .. n - 1 : Along(h)[k] = stack[k + 1].obj
      /\ Closes(h) <=> EntryAt(stack) \in Inside(stack)
  BY <1>1, PathToEntry
<1> HIDE DEF h
<1>10. \A q \in Seq(Name), k \in 1 .. n :
         (\A j \in 0 .. n - 1 : Along(q)[j] = stack[j + 1].obj) => ~Raw(q, k)
  <2> SUFFICES ASSUME NEW q \in Seq(Name), NEW k \in 1 .. n, NEW j \in 1 .. k - 1,
                      Along(q)[j] = stack[j + 1].obj
               PROVE  ~Passed(Along(q)[j])
    BY <1>2 DEF Raw
  <2>1. j + 1 \in 1 .. Len(stack)
    BY <1>2
  <2> QED BY <2>1 DEF WalkInv, Traversed
<1>4. \A k \in 1 .. n : HiddenAt(h, k) <=> /\ heap[stack[k].obj].kind = "record"
                                           /\ isRedactKey(NameSeq[stack[k].i], policy)
  <2> TAKE k \in 1 .. n
  <2>1. k - 1 \in 0 .. n - 1 /\ (k - 1) + 1 = k
    BY <1>2
  <2> QED BY <1>3, <1>10, <2>1 DEF HiddenAt
<1>5. Shown(h)
  BY <1>2, <1>3, <1>4 DEF Shown, WalkInv
<1>6. Hidden(h) <=> Redacts
  BY <1>2, <1>3, <1>4 DEF Hidden, Redacts, Top, TopOf
<1>7. (Closes(h) <=> Circular(Entry)) /\ ValueAt(h) = Entry
  BY <1>1, <1>3 DEF Circular, Entry
<1>8. Written(h) = Copied
  BY <1>6, <1>7 DEF Written, Copied
<1>11. ~Raw(h, Len(h))
  BY <1>2, <1>3, <1>10
<1>9. ASSUME NEW p \in Reached, Below(p, h), p # h, InCopy(p) PROVE ~Redacts /\ Traversed(Entry)
  <2>1. Len(p) > n /\ p \in Seq(Name) /\ Container(Entry)
    BY <1>1, <1>9, BelowEntry, PathType DEF Reached, h, Entry
  <2>2. \A k \in 1 .. n : p[k] = h[k] /\ p[k] = NameSeq[stack[k].i]
    BY <1>3, <1>9 DEF Below
  <2>3. \A k \in 0 .. n - 1 : Along(p)[k] = stack[k + 1].obj
    BY <1>1, <1>2, <2>1, <2>2, FramesAlong
  <2>4. Along(p)[n - 1] = stack[n].obj
    BY <1>2, <2>3
  <2>5. ~Raw(p, n)
    BY <1>2, <1>10, <2>1, <2>3
  <2>6. Redacts => HiddenAt(p, n)
    BY <1>2, <2>2, <2>4, <2>5, <1>9 DEF HiddenAt, Redacts, Top, TopOf, InCopy
  <2>7. n \in 1 .. Len(p) - 1
    BY <1>2, <2>1
  <2>8. ~Redacts
    BY <1>9, <2>6, <2>7 DEF InCopy, Ending, Shown
  <2>9. Along(p)[n] = Along(h)[n]
    <3>1. n <= Len(p) /\ n <= Len(h) /\ n \in 0 .. n /\ \A k \in 1 .. n : p[k] = h[k]
      BY <1>2, <1>3, <2>1, <2>2
    <3>2. \A k \in 0 .. n : Along(p)[k] = Along(h)[k]
      BY <1>2, <1>3, <2>1, <3>1, AlongPrefix
    <3> QED BY <3>1, <3>2
  <2>10. Along(p)[n] = Entry
    BY <1>3, <1>7, <2>9 DEF ValueAt
  <2>11. ~Passed(Entry)
    BY <1>9, <2>7, <2>10 DEF InCopy, Raw
  <2> QED BY <2>1, <2>8, <2>11 DEF Traversed
<1> QED BY <1>5, <1>6, <1>7, <1>8, <1>9, <1>11 DEF h

\* An entry is copied, or replaced by the mask or by the marker of a cycle.
LEMMA CopyEntryKeeps == ASSUME LogInv, CopyEntry PROVE LogInv'
<1> DEFINE h == PathTo(stack)
           Copy(T) == {<<p, Written(p)>> : p \in T}
           Old == {q \in Reached : InCopy(q) /\ Behind(stack, q)}
           New == {q \in Reached : InCopy(q) /\ Behind(stack', q)}
<1>1. /\ GraphOK /\ WalkInv /\ policy = logger.redactKeys /\ Top.i <= Len(NameSeq)
      /\ heap' = heap /\ policy' = policy /\ logger' = logger /\ phase' = phase /\ seen' = seen
      /\ stack' = Advanced(stack) /\ phase = "redact"
      /\ out' = IF Entry = Absent THEN out ELSE out \cup {<<h, Copied>>}
      /\ Redacts \/ Circular(Entry) \/ ~Traversed(Entry)
  BY DEF LogInv, CopyEntry, Walking
<1>2. OnPath(stack) /\ seen = Inside(stack) /\ TopOf(stack).i <= Len(NameSeq)
  BY <1>1 DEF WalkInv, Top
<1>3. /\ OnPath(stack') /\ Inside(stack') = Inside(stack)
      /\ \A p \in Seq(Name) : Behind(stack', p) <=> Behind(stack, p) \/ Below(p, h)
  BY <1>1, <1>2, Advances
<1>4. /\ Len(h) = Len(stack) /\ (EntryAt(stack) # Absent => h \in Reached)
      /\ h \in Seq(Name) /\ ValueAt(h) = Entry
  BY <1>1, <1>2, PathToEntry DEF Entry
<1>5. /\ Shown(h) /\ (Hidden(h) <=> Redacts) /\ (Closes(h) <=> Circular(Entry)) /\ Written(h) = Copied
      /\ ~Raw(h, Len(h))
      /\ \A p \in Reached : Below(p, h) /\ p # h /\ InCopy(p) => ~Redacts /\ Traversed(Entry)
  BY <1>1, EntryCopied
<1>6. \A p \in Reached : Below(p, h) /\ p # h => Container(Entry) /\ ~Circular(Entry)
  BY <1>1, <1>2, BelowEntry DEF Entry, Circular
<1>7. Below(h, h)
  BY <1>4, FramesType, <1>2 DEF Below
<1> HIDE DEF h
<1>8. \A q \in Reached : q \in Seq(Name) /\ ValueAt(q) # Absent
  BY PathType DEF Reached
<1>9. New = IF Entry = Absent THEN Old ELSE Old \cup {h}
  <2>1. ASSUME NEW q \in New PROVE q \in Old \/ (q = h /\ Entry # Absent)
    BY <1>1, <1>3, <1>4, <1>5, <1>6, <1>8
  <2>2. ASSUME NEW q \in Old PROVE q \in New
    BY <1>3, <1>8
  <2>3. ASSUME Entry # Absent PROVE h \in New
    <3>1. h \in Reached
      BY <1>4, <2>3 DEF Entry
    <3>2. InCopy(h)
      BY <1>1, <1>4, <1>5 DEF InCopy, Ending
    <3> QED BY <1>3, <1>4, <1>7, <3>1, <3>2
  <2> QED BY <2>1, <2>2, <2>3
<1>10. out' = Copy(New)
  <2> HIDE DEF New, Old
  <2>1. out = Copy(Old)
    BY <1>1 DEF WalkInv, Old
  <2> QED BY <1>1, <1>5, <1>9, <2>1
<1>11. \A k \in 1 .. Len(stack') - 1 :
         ~(heap[stack'[k].obj].kind = "record" /\ isRedactKey(NameSeq[stack'[k].i], policy))
  <2>1. Len(stack') = Len(stack) /\ \A k \in 1 .. Len(stack) - 1 : stack'[k] = stack[k]
    BY <1>1, <1>2, AdvancedIs DEF OnPath
  <2> QED BY <1>1, <2>1 DEF WalkInv
<1>13. \A k \in 1 .. Len(stack') : Traversed(stack'[k].obj)
  <2>1. Len(stack') = Len(stack) /\ \A k \in 1 .. Len(stack) : stack'[k].obj = stack[k].obj
    BY <1>1, <1>2, AdvancedIs DEF OnPath
  <2> QED BY <1>1, <2>1 DEF WalkInv
<1>12. WalkInv'
  <2>1. OnPath(stack)' /\ seen' = Inside(stack') /\ policy' # {}
    BY <1>1, <1>2, <1>3, GraphSame DEF WalkInv
  <2>2. out' = {<<p, Written(p)'>> : p \in {q \in Reached' : InCopy(q)' /\ Behind(stack', q)}}
    BY <1>1, <1>10, GraphSame, CopySame
  <2>3. (\A k \in 1 .. Len(stack) : Traversed(stack[k].obj))'
    BY <1>1, <1>13, CopySame
  <2> QED BY <1>1, <1>11, <2>1, <2>2, <2>3 DEF WalkInv, isRedactKey
<1> QED BY <1>1, <1>12, GraphSame DEF LogInv, LineIsRedactedCopy

\* A container is entered.
LEMMA DescendKeeps == ASSUME LogInv, Descend PROVE LogInv'
<1>1. /\ GraphOK /\ WalkInv /\ policy = logger.redactKeys /\ Top.i <= Len(NameSeq)
      /\ heap' = heap /\ policy' = policy /\ logger' = logger /\ out' = out
      /\ phase = "redact" /\ ~Redacts /\ ~Circular(Entry) /\ Traversed(Entry)
  BY DEF LogInv, Descend, Walking
<1>2. OnPath(stack) /\ seen = Inside(stack) /\ TopOf(stack).i <= Len(NameSeq)
  BY <1>1 DEF WalkInv, Top
<1>3. Container(EntryAt(stack)) /\ EntryAt(stack) \notin Inside(stack)
  BY <1>1, <1>2 DEF Entry, Circular, Traversed
<1> DEFINE g == Entering(stack)
           n == Len(stack)
<1>4. /\ OnPath(g) /\ Inside(g) = Inside(stack) \cup {EntryAt(stack)}
      /\ \A p \in Seq(Name) : Behind(g, p) <=> Behind(stack, p)
  BY <1>1, <1>2, <1>3, Enters
<1>5. /\ n \in Nat /\ n >= 1 /\ Len(g) = n + 1 /\ \A k \in 1 .. n : g[k] = stack[k]
      /\ g[n + 1].obj = Entry
  BY <1>1, <1>2, <1>3, EnteringIs, FramesType DEF Entry
<1>6. Len(stack) < MaxStack
  BY <1>4, <1>5, FramesFew, LogAssumption
<1>7. stack' = g /\ seen' = Inside(g) /\ phase' = phase
  BY <1>2, <1>4, <1>6 DEF Descend, Entry
<1> HIDE DEF g
<1>8. \A k \in 1 .. Len(stack') - 1 :
         ~(heap[stack'[k].obj].kind = "record" /\ isRedactKey(NameSeq[stack'[k].i], policy))
  <2> TAKE k \in 1 .. Len(stack') - 1
  <2>1. k \in 1 .. n /\ stack'[k] = stack[k]
    BY <1>5, <1>7
  <2>2. CASE k = n
    BY <1>1, <2>1, <2>2 DEF Redacts, Top, TopOf
  <2>3. CASE k \in 1 .. n - 1
    BY <1>1, <2>1, <2>3 DEF WalkInv
  <2> QED BY <1>5, <2>1, <2>2, <2>3
<1>9. \A q \in Reached : Behind(stack', q) <=> Behind(stack, q)
  BY <1>4, <1>7, PathType DEF Reached
<1>11. \A k \in 1 .. Len(stack') : Traversed(stack'[k].obj)
  <2> TAKE k \in 1 .. Len(stack')
  <2>1. k \in 1 .. n \/ k = n + 1
    BY <1>5, <1>7
  <2> QED BY <1>1, <1>5, <1>7, <2>1 DEF WalkInv
<1>10. WalkInv'
  <2>1. OnPath(stack)' /\ seen' = Inside(stack') /\ policy' # {}
    BY <1>1, <1>4, <1>7, GraphSame DEF WalkInv
  <2>2. out' = {<<p, Written(p)>> : p \in {q \in Reached : InCopy(q) /\ Behind(stack', q)}}
    BY <1>1, <1>9 DEF WalkInv
  <2>3. out' = {<<p, Written(p)'>> : p \in {q \in Reached' : InCopy(q)' /\ Behind(stack', q)}}
    BY <1>1, <2>2, GraphSame, CopySame
  <2>4. (\A k \in 1 .. Len(stack) : Traversed(stack[k].obj))'
    BY <1>1, <1>11, CopySame
  <2> QED BY <1>1, <1>8, <2>1, <2>3, <2>4 DEF WalkInv, isRedactKey
<1> QED BY <1>1, <1>7, <1>10, GraphSame DEF LogInv, LineIsRedactedCopy

\* An object the walk leaves is itself no end of the copy.
LEMMA AscendKeeps == ASSUME LogInv, Ascend PROVE LogInv'
<1>1. /\ GraphOK /\ WalkInv /\ policy = logger.redactKeys /\ Top.i > Len(NameSeq)
      /\ heap' = heap /\ policy' = policy /\ logger' = logger /\ out' = out
      /\ phase = "redact" /\ seen' = seen \ {Top.obj} /\ policy # {}
      /\ Len(stack) > 1 => stack' = Advanced(Front(stack)) /\ phase' = phase
      /\ ~(Len(stack) > 1) => phase' = "stringify"
  BY DEF LogInv, Ascend, SeenAfter, WalkInv
<1>2. OnPath(stack) /\ seen = Inside(stack) /\ TopOf(stack).i > Len(NameSeq)
  BY <1>1 DEF WalkInv, Top
<1>3. Len(stack) \in Nat /\ Len(stack) >= 1
  BY <1>2, FramesType
<1>4. CASE Len(stack) > 1
  <2> DEFINE f == Front(stack)
             h == PathTo(f)
             n == Len(stack)
  <2>1. /\ OnPath(Advanced(f)) /\ Inside(Advanced(f)) = Inside(stack) \ {TopOf(stack).obj}
        /\ TopOf(f).i <= Len(NameSeq) /\ OnPath(f) /\ EntryAt(f) = TopOf(stack).obj
        /\ \A p \in Path : Behind(Advanced(f), p) <=> Behind(stack, p) \/ p = h
    BY <1>1, <1>2, <1>4, Leaves
  <2>2. Len(f) = n - 1 /\ \A k \in 1 .. n - 1 : f[k] = stack[k]
    BY <1>2, <1>4, FrontIs
  <2>3. /\ h \in Seq(Name) /\ Len(h) = n - 1 /\ ValueAt(h) = TopOf(stack).obj
        /\ \A k \in 1 .. n - 1 : h[k] = NameSeq[stack[k].i]
        /\ \A k \in 0 .. n - 2 : Along(h)[k] = stack[k + 1].obj
        /\ Closes(h) <=> TopOf(stack).obj \in Inside(f)
    <3>1. /\ h \in Seq(Name) /\ Len(h) = Len(f) /\ ValueAt(h) = EntryAt(f)
          /\ \A k \in 1 .. Len(f) : h[k] = NameSeq[f[k].i]
          /\ \A k \in 0 .. Len(f) - 1 : Along(h)[k] = f[k + 1].obj
          /\ Closes(h) <=> EntryAt(f) \in Inside(f)
      BY <1>1, <2>1, PathToEntry
    <3>2. \A k \in 0 .. n - 2 : k \in 0 .. Len(f) - 1 /\ k + 1 \in 1 .. n - 1
      BY <1>3, <2>2
    <3>3. \A k \in 0 .. n - 2 : Along(h)[k] = stack[k + 1].obj
      BY <2>2, <3>1, <3>2
    <3> HIDE DEF f, h
    <3> QED BY <2>1, <2>2, <3>1, <3>3
  <2>4. Advanced(f) = stack' /\ Inside(stack') = seen'
    BY <1>1, <1>2, <1>4, <2>1 DEF Top
  <2>5. Len(Advanced(f)) = n - 1 /\ \A k \in 1 .. n - 2 : Advanced(f)[k] = stack[k]
    <3>1. Len(Advanced(f)) = Len(f) /\ \A k \in 1 .. Len(f) - 1 : Advanced(f)[k] = f[k]
      BY <2>1, AdvancedIs DEF OnPath
    <3>2. \A k \in 1 .. n - 2 : k \in 1 .. Len(f) - 1 /\ k \in 1 .. n - 1
      BY <1>3, <2>2
    <3> HIDE DEF f
    <3> QED BY <2>2, <3>1, <3>2
  <2> HIDE DEF f, h
  <2>6. ~Closes(h)
    <3>1. Inside(f) = Inside(Advanced(f))
      BY <1>1, <2>1, Advances
    <3> QED BY <2>1, <2>3, <3>1
  <2>7. ~Hidden(h)
    <3>1. n - 1 \in 1 .. n - 1 /\ n - 2 \in 0 .. n - 2 /\ (n - 1) - 1 = n - 2 /\ (n - 2) + 1 = n - 1
      BY <1>3, <1>4
    <3>2. ~(heap[stack[n - 1].obj].kind = "record" /\ isRedactKey(NameSeq[stack[n - 1].i], policy))
      BY <1>1, <3>1 DEF WalkInv
    <3> QED BY <2>3, <3>1, <3>2 DEF Hidden, HiddenAt
  <2>8. Traversed(ValueAt(h))
    BY <1>1, <1>3, <2>3 DEF WalkInv, TopOf
  <2>9. ~InCopy(h)
    BY <2>6, <2>7, <2>8 DEF InCopy, Ending
  <2>10. \A q \in Reached : InCopy(q) => (Behind(stack', q) <=> Behind(stack, q))
    BY <2>1, <2>4, <2>9 DEF Reached
  <2>11. \A k \in 1 .. Len(stack') - 1 :
           ~(heap[stack'[k].obj].kind = "record" /\ isRedactKey(NameSeq[stack'[k].i], policy))
    <3>1. \A k \in 1 .. Len(stack') - 1 : k \in 1 .. n - 2 /\ k \in 1 .. n - 1
      BY <1>3, <2>4, <2>5
    <3> QED BY <1>1, <2>4, <2>5, <3>1 DEF WalkInv
  <2>13. \A k \in 1 .. Len(stack') : Traversed(stack'[k].obj)
    <3>1. \A k \in 1 .. Len(f) : Advanced(f)[k].obj = f[k].obj
      BY <2>1, AdvancedIs DEF OnPath
    <3>2. \A k \in 1 .. Len(stack') : k \in 1 .. n - 1 /\ k \in 1 .. n
      BY <1>3, <2>4, <2>5
    <3> QED BY <1>1, <2>2, <2>4, <2>5, <3>1, <3>2 DEF WalkInv
  <2>12. WalkInv'
    <3>1. OnPath(stack)' /\ seen' = Inside(stack') /\ policy' # {}
      BY <1>1, <2>1, <2>4, GraphSame
    <3>2. out' = {<<p, Written(p)>> : p \in {q \in Reached : InCopy(q) /\ Behind(stack', q)}}
      BY <1>1, <2>10 DEF WalkInv
    <3>3. out' = {<<p, Written(p)'>> : p \in {q \in Reached' : InCopy(q)' /\ Behind(stack', q)}}
      BY <1>1, <3>2, GraphSame, CopySame
    <3>4. (\A k \in 1 .. Len(stack) : Traversed(stack[k].obj))'
      BY <1>1, <2>13, CopySame
    <3> QED BY <1>1, <2>11, <3>1, <3>3, <3>4 DEF WalkInv, isRedactKey
  <2> QED BY <1>1, <1>4, <2>12, GraphSame DEF LogInv, LineIsRedactedCopy
<1>5. CASE Len(stack) = 1
  <2>2. \A q \in Reached : Behind(stack, q)
    BY <1>2, <1>5, AllBehind DEF Reached
  <2>3. out' = {<<p, Written(p)>> : p \in {q \in Reached : InCopy(q) /\ policy # {}}}
    BY <1>1, <2>2 DEF WalkInv
  <2>5. phase' = "stringify"
    BY <1>1, <1>5
  <2>4. out' = {<<p, Written(p)'>> : p \in {q \in Reached' : InCopy(q)' /\ policy' # {}}}
    BY <1>1, <2>3, GraphSame, CopySame
  <2> QED BY <1>1, <2>4, <2>5, GraphSame DEF LogInv, LineIsRedactedCopy
<1>6. \A n \in Nat : n >= 1 => n > 1 \/ n = 1
  OBVIOUS
<1>7. Len(stack) > 1 \/ Len(stack) = 1
  BY <1>3, <1>6
<1> QED BY <1>4, <1>5, <1>7

\* A set of numbers that is not empty has a least.
LEMMA LeastNumber ==
  ASSUME NEW S \in SUBSET Nat, NEW m \in S
  PROVE  \E n \in S : \A j \in S : n <= j
<1> SUFFICES ASSUME \A n \in S : \E j \in S : j < n PROVE FALSE
  OBVIOUS
<1> DEFINE T == {n \in Nat : \A j \in S : n <= j}
<1>1. 0 \in T
  OBVIOUS
<1>2. ASSUME NEW n \in Nat, n \in T PROVE n + 1 \in T
  BY <1>2
<1>3. Nat \subseteq T
  <2> HIDE DEF T
  <2> QED BY <1>1, <1>2, Induction
<1>4. m + 1 \in T
  BY <1>3
<1> QED BY <1>4

\* A path up to an object that it goes on from is a path.
LEMMA PathUpTo ==
  ASSUME GraphOK, NEW p \in Reached, NEW j \in 1 .. Len(p) - 1
  PROVE  \E q \in Reached :
           /\ q \in Seq(Name) /\ Len(q) = j /\ ValueAt(q) = Along(p)[j] /\ ~Closes(q)
           /\ \A k \in 1 .. j : q[k] = p[k]
           /\ \A k \in 0 .. j : Along(q)[k] = Along(p)[k]
<1> DEFINE q == [k \in 1 .. j |-> p[k]]
<1>1. /\ p \in Seq(Name) /\ Len(p) \in 1 .. Cardinality(Obj) + 1 /\ ValueAt(p) # Absent
      /\ \A k \in 1 .. Len(p) : p[k] \in Name
      /\ \A i, k \in 0 .. Len(p) - 1 : Along(p)[i] = Along(p)[k] => i = k
  BY PathType DEF Reached
<1>2. Len(p) \in Nat /\ Cardinality(Obj) \in Nat
  BY <1>1, GraphAssumption, FS_CardinalityType
<1>3. q \in Seq(Name) /\ Len(q) = j /\ \A k \in 1 .. j : q[k] = p[k]
  <2>1. \A k \in 1 .. j : p[k] \in Name
    BY <1>1, <1>2
  <2> QED BY <1>2, <2>1
<1> HIDE DEF q
<1>4. \A k \in 0 .. j : Along(q)[k] = Along(p)[k]
  <2>1. j \in Nat /\ j <= Len(p) /\ j <= Len(q)
    BY <1>2, <1>3
  <2> QED BY <1>1, <1>3, <2>1, AlongPrefix
<1>5. q \in Path
  BY <1>1, <1>2, <1>3, PathType
<1>6. ValueAt(q) = Along(p)[j]
  BY <1>2, <1>3, <1>4 DEF ValueAt
<1>7. Container(Along(p)[j])
  BY <1>1, <1>2, AlongEnds
<1>8. ValueAt(q) # Absent
  BY <1>6, <1>7, GraphAssumption DEF Container, IsObject
<1>9. \A i, k \in 0 .. Len(q) - 1 : Along(q)[i] = Along(q)[k] => i = k
  <2> SUFFICES ASSUME NEW i \in 0 .. j - 1, NEW k \in 0 .. j - 1, Along(q)[i] = Along(q)[k]
               PROVE  i = k
    BY <1>3
  <2>1. i \in 0 .. j /\ k \in 0 .. j /\ i \in 0 .. Len(p) - 1 /\ k \in 0 .. Len(p) - 1
    BY <1>2
  <2> QED BY <1>1, <1>4, <2>1
<1>10. ~Closes(q)
  <2> SUFFICES ASSUME NEW k \in 0 .. j - 1, Along(q)[k] = ValueAt(q) PROVE FALSE
    BY <1>3 DEF Closes
  <2>1. k \in 0 .. j /\ k \in 0 .. Len(p) - 1 /\ j \in 0 .. Len(p) - 1 /\ k # j
    BY <1>2
  <2> QED BY <1>1, <1>4, <1>6, <2>1
<1> QED BY <1>3, <1>4, <1>5, <1>6, <1>8, <1>9, <1>10 DEF Reached

\* The instances of the copy have below them just the values that no redact()
\* reached and that are not below a sensitive key.
LEMMA BelowPassedIs ==
  ASSUME GraphOK, out = {<<p, Written(p)>> : p \in {q \in Reached : InCopy(q)}}, NEW p \in Reached
  PROVE  BelowPassed(p) <=> Shown(p) /\ Raw(p, Len(p))
<1>1. p \in Seq(Name) /\ Len(p) \in Nat /\ Len(p) >= 1
  BY PathType, GraphAssumption, FS_CardinalityType DEF Reached
<1>2. ASSUME NEW q \in Seq(Name), NEW k \in 1 .. Len(q), Len(q) <= Len(p),
             \A i \in 1 .. Len(q) : p[i] = q[i],
             \A i \in 0 .. Len(q) : Along(p)[i] = Along(q)[i]
      PROVE  (HiddenAt(p, k) <=> HiddenAt(q, k)) /\ (Raw(p, k) <=> Raw(q, k))
  <2>1. Raw(p, k) <=> Raw(q, k)
    <3>1. \A i \in 1 .. k - 1 : i \in 0 .. Len(q)
      BY <1>2
    <3> QED BY <1>2, <3>1 DEF Raw
  <2>2. k - 1 \in 0 .. Len(q)
    BY <1>2
  <2> QED BY <1>2, <2>1, <2>2 DEF HiddenAt
<1>3. ASSUME BelowPassed(p) PROVE Shown(p) /\ Raw(p, Len(p))
  <2>1. PICK e \in out : /\ Passed(e[2]) /\ Len(e[1]) < Len(p)
                         /\ \A k \in 1 .. Len(e[1]) : p[k] = e[1][k]
    BY <1>3 DEF BelowPassed
  <2>2. PICK q \in Reached : InCopy(q) /\ e = <<q, Written(q)>>
    OBVIOUS
  <2>3. Passed(Written(q)) /\ Len(q) < Len(p) /\ \A k \in 1 .. Len(q) : p[k] = q[k]
    BY <2>1, <2>2
  <2>4. q \in Seq(Name) /\ Len(q) \in Nat /\ Len(q) >= 1
    BY PathType, GraphAssumption, FS_CardinalityType DEF Reached
  <2>5. ~Passed(REDACTED) /\ ~Passed(CIRCULAR)
    BY GraphAssumption DEF Passed, KindOf, IsObject, REDACTED, CIRCULAR
  <2>6. ~Hidden(q) /\ Passed(ValueAt(q)) /\ Shown(q)
    BY <2>2, <2>3, <2>5 DEF Written, InCopy, Ending
  <2>7. \A k \in 0 .. Len(q) : Along(p)[k] = Along(q)[k]
    BY <1>1, <2>3, <2>4, AlongPrefix
  <2>8. Passed(Along(p)[Len(q)])
    BY <2>4, <2>6, <2>7 DEF ValueAt
  <2>9. \A k \in 1 .. Len(p) : k > Len(q) => Raw(p, k)
    BY <1>1, <2>4, <2>8 DEF Raw
  <2>10. ASSUME NEW k \in 1 .. Len(p) - 1 PROVE ~HiddenAt(p, k)
    <3>1. CASE k > Len(q)
      BY <1>1, <2>9, <3>1 DEF HiddenAt
    <3>2. CASE k <= Len(q)
      <4>1. k \in 1 .. Len(q)
        BY <1>1, <2>4, <3>2
      <4>2. HiddenAt(p, k) <=> HiddenAt(q, k)
        BY <1>2, <2>3, <2>4, <2>7, <4>1
      <4>3. k = Len(q) \/ k \in 1 .. Len(q) - 1
        BY <2>4, <4>1
      <4> QED BY <2>6, <4>2, <4>3 DEF Hidden, Shown
    <3> QED BY <1>1, <2>4, <3>1, <3>2
  <2> QED BY <1>1, <2>3, <2>9, <2>10 DEF Shown
<1>4. ASSUME Shown(p), Raw(p, Len(p)) PROVE BelowPassed(p)
  <2> DEFINE S == {j \in 1 .. Len(p) - 1 : Passed(Along(p)[j])}
  <2>1. PICK m : m \in S
    BY <1>4 DEF Raw
  <2>2. S \in SUBSET Nat
    BY <1>1
  <2>3. PICK j \in S : \A i \in S : j <= i
    <3> HIDE DEF S
    <3> QED BY <2>1, <2>2, LeastNumber
  <2>4. j \in 1 .. Len(p) - 1 /\ j \in Nat /\ Passed(Along(p)[j])
    BY <1>1
  <2>5. \A i \in 1 .. j - 1 : ~Passed(Along(p)[i])
    <3> SUFFICES ASSUME NEW i \in 1 .. j - 1, Passed(Along(p)[i]) PROVE FALSE
      OBVIOUS
    <3>1. i \in S /\ i < j
      BY <1>1, <2>4
    <3> QED BY <2>3, <2>4, <3>1
  <2> HIDE DEF S
  <2>6. PICK q \in Reached :
           /\ q \in Seq(Name) /\ Len(q) = j /\ ValueAt(q) = Along(p)[j] /\ ~Closes(q)
           /\ \A k \in 1 .. j : q[k] = p[k]
           /\ \A k \in 0 .. j : Along(q)[k] = Along(p)[k]
    BY <2>4, PathUpTo
  <2>7. \A k \in 1 .. j : (HiddenAt(p, k) <=> HiddenAt(q, k)) /\ (Raw(p, k) <=> Raw(q, k))
    BY <1>1, <1>2, <2>4, <2>6
  <2>8. ~Hidden(q) /\ Shown(q)
    <3>1. \A k \in 1 .. j : k \in 1 .. Len(p) - 1
      BY <1>1, <2>4
    <3>2. \A k \in 1 .. j : ~HiddenAt(q, k)
      BY <1>4, <2>7, <3>1 DEF Shown
    <3>3. j \in 1 .. j /\ \A k \in 1 .. j - 1 : k \in 1 .. j
      BY <2>4
    <3> QED BY <2>6, <3>2, <3>3 DEF Hidden, Shown
  <2>9. ~Raw(q, Len(q))
    <3>1. j \in 1 .. j
      BY <2>4
    <3> QED BY <2>5, <2>6, <2>7, <3>1 DEF Raw
  <2>10. InCopy(q) /\ Written(q) = ValueAt(q)
    BY <2>4, <2>6, <2>8, <2>9 DEF InCopy, Ending, Written, Traversed
  <2>11. <<q, ValueAt(q)>> \in out
    BY <2>10
  <2>12. Len(q) < Len(p)
    BY <1>1, <2>4, <2>6
  <2> DEFINE e == <<q, ValueAt(q)>>
  <2>13. e \in out /\ e[1] = q /\ e[2] = ValueAt(q)
    BY <2>11
  <2> HIDE DEF e
  <2> QED BY <2>4, <2>6, <2>12, <2>13 DEF BelowPassed
<1> QED BY <1>3, <1>4

\* A bigint closes no cycle.
LEMMA BigintIsNew ==
  ASSUME GraphOK, NEW p \in Reached, KindOf(ValueAt(p)) = "bigint"
  PROVE  ~Closes(p) /\ ~Traversed(ValueAt(p))
<1>1. p \in Seq(Name) /\ Len(p) \in Nat /\ ValueAt(p) # Absent
  BY PathType, GraphAssumption, FS_CardinalityType DEF Reached
<1>2. ~Container(ValueAt(p))
  BY DEF Container, KindOf
<1>3. \A k \in 0 .. Len(p) - 1 : Along(p)[k] # ValueAt(p)
  BY <1>1, <1>2, AlongEnds
<1> QED BY <1>2, <1>3 DEF Closes, Traversed

\* JSON.stringify writes the copy, and what is below its instances as it is; it
\* throws exactly on what no line can show.  Without redactKeys nothing is
\* hidden: a line that does not throw closes no cycle, so it ends where a value
\* is no array or record.
LEMMA WriteKeeps == ASSUME LogInv, Write PROVE LogInv'
<1>1. /\ GraphOK /\ policy = logger.redactKeys /\ phase = "stringify"
      /\ heap' = heap /\ policy' = policy /\ logger' = logger
      /\ phase' = IF Unserializable THEN "threw" ELSE "written"
      /\ out = {<<p, Written(p)>> : p \in {q \in Reached : InCopy(q) /\ policy # {}}}
      /\ policy # {} => out' = out \cup AsTheyAre({p \in Reached : BelowPassed(p)})
      /\ policy = {} => out' = AsTheyAre(Reached)
  BY DEF LogInv, Write
<1>2. /\ Unserializable <=> \E p \in Reached : Fatal(p)
      /\ ~Unserializable => out' = {<<p, Written(p)>> : p \in {q \in Reached : Ending(q)}}
  <2>1. CASE policy # {}
    <3>1. out = {<<p, Written(p)>> : p \in {q \in Reached : InCopy(q)}}
      BY <1>1, <2>1
    <3>2. \A p \in Reached : BelowPassed(p) <=> Shown(p) /\ Raw(p, Len(p))
      BY <1>1, <3>1, BelowPassedIs
    <3>3. \A p : Raw(p, Len(p)) => ~Hidden(p)
      BY DEF Hidden, HiddenAt
    <3>4. KindOf(REDACTED) # "bigint" /\ KindOf(CIRCULAR) # "bigint"
      BY GraphAssumption DEF KindOf, IsObject, REDACTED, CIRCULAR
    <3>5. ASSUME NEW e \in out, KindOf(e[2]) = "bigint" PROVE \E p \in Reached : Fatal(p)
      <4>1. PICK p \in Reached : InCopy(p) /\ e = <<p, Written(p)>>
        BY <3>1
      <4>2. KindOf(Written(p)) = "bigint"
        BY <3>5, <4>1
      <4>3. ~Hidden(p) /\ Written(p) = ValueAt(p)
        BY <3>4, <4>2 DEF Written
      <4> QED BY <4>1, <4>2, <4>3 DEF InCopy, Ending, Fatal
    <3>6. ASSUME NEW p \in Reached, BelowPassed(p), Closes(p) \/ KindOf(ValueAt(p)) = "bigint"
          PROVE  Fatal(p)
      BY <3>2, <3>3, <3>6 DEF Fatal
    <3>7. ASSUME NEW p \in Reached, Fatal(p) PROVE Unserializable
      <4>1. CASE Raw(p, Len(p))
        BY <1>1, <2>1, <3>2, <3>7, <4>1 DEF Fatal, Unserializable
      <4>2. CASE ~Raw(p, Len(p))
        <5>1. Shown(p) /\ ~Hidden(p) /\ KindOf(ValueAt(p)) = "bigint"
          BY <2>1, <3>7, <4>2 DEF Fatal
        <5>2. InCopy(p) /\ Written(p) = ValueAt(p)
          BY <1>1, <4>2, <5>1, BigintIsNew DEF InCopy, Ending, Written
        <5> DEFINE e == <<p, ValueAt(p)>>
        <5>3. e \in out /\ e[2] = ValueAt(p)
          BY <3>1, <5>2
        <5> HIDE DEF e
        <5> QED BY <1>1, <2>1, <5>1, <5>3 DEF Unserializable
      <4> QED BY <4>1, <4>2
    <3>8. Unserializable <=> \E p \in Reached : Fatal(p)
      BY <1>1, <2>1, <3>5, <3>6, <3>7 DEF Unserializable
    <3>9. ASSUME ~Unserializable
          PROVE  out' = {<<p, Written(p)>> : p \in {q \in Reached : Ending(q)}}
      <4>1. \A p \in Reached : Shown(p) /\ Raw(p, Len(p)) => ~Closes(p) /\ ~Hidden(p)
        BY <3>3, <3>8, <3>9 DEF Fatal
      <4>2. \A p \in Reached : BelowPassed(p) =>
              (Ending(p) <=> ~Traversed(ValueAt(p))) /\ Written(p) = ValueAt(p)
        BY <3>2, <4>1 DEF Ending, Written
      <4>3. \A p \in Reached : Ending(p) <=> InCopy(p) \/ (BelowPassed(p) /\ ~Traversed(ValueAt(p)))
        BY <3>2, <4>2 DEF InCopy, Ending
      <4>4. AsTheyAre({p \in Reached : BelowPassed(p)})
              = {<<p, Written(p)>> : p \in {q \in Reached : BelowPassed(q) /\ ~Traversed(ValueAt(q))}}
        BY <4>2 DEF AsTheyAre
      <4> QED BY <1>1, <2>1, <3>1, <4>3, <4>4
    <3> QED BY <3>8, <3>9
  <2>2. CASE policy = {}
    <3>1. \A p : ~Hidden(p) /\ Shown(p)
      BY <2>2 DEF Hidden, Shown, HiddenAt, isRedactKey
    <3>2. Unserializable <=> \E p \in Reached : Fatal(p)
      BY <1>1, <2>2, <3>1 DEF Unserializable, Fatal
    <3>3. ASSUME ~Unserializable
          PROVE  out' = {<<p, Written(p)>> : p \in {q \in Reached : Ending(q)}}
      <4>1. \A p \in Reached : ~Closes(p)
        BY <1>1, <2>2, <3>3 DEF Unserializable
      <4>2. \A p \in Reached : Written(p) = ValueAt(p) /\ (Ending(p) <=> ~Traversed(ValueAt(p)))
        BY <3>1, <4>1 DEF Written, Ending
      <4> QED BY <1>1, <2>2, <4>2 DEF AsTheyAre
    <3> QED BY <3>2, <3>3
  <2> QED BY <2>1, <2>2
<1>3. /\ phase' = "written" => /\ out' = {<<p, Written(p)>> : p \in {q \in Reached : Ending(q)}}
                               /\ \A p \in Reached : ~Fatal(p)
      /\ phase' = "threw" => \E p \in Reached : Fatal(p)
  BY <1>1, <1>2
<1>4. LineIsRedactedCopy'
  BY <1>1, <1>3, GraphSame, CopySame DEF LineIsRedactedCopy
<1> QED BY <1>1, <1>4, GraphSame DEF LogInv

\* Bindings and fields merged are fields.
LEMMA MergedType ==
  ASSUME NEW base \in [Name -> Value], NEW more \in [Name -> Value]
  PROVE  Merged(base, more) \in [Name -> Value]
BY DEF Merged

\* A call that is below the threshold writes nothing; another starts the walk.
LEMMA EmitKeeps == ASSUME LogInv, NEW level \in LogLevel, Emit(level) PROVE LogInv'
<1>1. /\ policy' = policy /\ logger' = logger /\ out' = out /\ out = {} /\ phase = "idle"
      /\ policy = logger.redactKeys /\ logger.base \in [Name -> Value]
  BY DEF LogInv, Emit
<1>2. PICK fields \in Fields, objects \in Heaps : heap' = Graph(Merged(logger.base, fields), objects)
  BY DEF Emit
<1>3. GraphOK'
  BY <1>1, <1>2, MergedType, GraphFormed, GraphAssumption
<1>4. CASE logger.redactKeys # {}
  <2> DEFINE g == <<[obj |-> Root, i |-> 1]>>
  <2>1. phase' = "redact" /\ stack' = g /\ seen' = {Root}
    BY <1>4 DEF Emit
  <2>2. (OnPath(g) /\ Inside(g) = {Root} /\ \A p : ~Behind(g, p))'
    BY <1>3, BeginsNext
  <2>3. Len(g) = 1 /\ g[1].obj = Root
    OBVIOUS
  <2> HIDE DEF g
  <2>5. Traversed(Root)'
    BY <1>3 DEF GraphOK, Traversed, Passed, Container, KindOf, IsObject
  <2>6. (\A k \in 1 .. Len(stack) : Traversed(stack[k].obj))'
    BY <2>1, <2>3, <2>5
  <2>4. WalkInv'
    BY <1>1, <1>4, <2>1, <2>2, <2>3, <2>6 DEF WalkInv
  <2> QED BY <1>1, <1>3, <2>1, <2>4 DEF LogInv, LineIsRedactedCopy
<1>5. CASE logger.redactKeys = {}
  BY <1>1, <1>3, <1>5 DEF LogInv, LineIsRedactedCopy, Emit
<1> QED BY <1>4, <1>5

\* LogInv is inductive.
LEMMA LogInvHolds == LogSpec => []LogInv
<1>1. LogInit => LogInv
  <2> SUFFICES ASSUME LogInit PROVE LogInv
    OBVIOUS
  <2>1. NoFields \in [Name -> Value]
    BY DEF NoFields, Value
  <2>2. GraphOK
    <3> DEFINE r == [kind |-> "record", fields |-> NoFields]
    <3>1. r \in Node /\ r.kind = "record"
      BY <2>1 DEF Node
    <3> HIDE DEF r
    <3>2. heap = [o \in Obj \cup {Root} |-> r]
      BY DEF LogInit, r
    <3> QED BY <3>1, <3>2 DEF GraphOK
  <2>3. policy = logger.redactKeys /\ logger.base = NoFields /\ phase = "idle" /\ out = {}
    BY DEF LogInit
  <2> QED BY <2>1, <2>2, <2>3 DEF LogInv, LineIsRedactedCopy
<1>2. LogInv /\ [LogNext]_logVars => LogInv'
  <2> SUFFICES ASSUME LogInv, [LogNext]_logVars PROVE LogInv'
    OBVIOUS
  <2>1. ASSUME NEW b \in Bindings, Child(b) PROVE LogInv'
    <3>1. /\ heap' = heap /\ policy' = policy /\ phase' = phase /\ out' = out /\ phase = "idle"
          /\ logger' = [minLevel |-> logger.minLevel, base |-> Merged(logger.base, b),
                        redactKeys |-> logger.redactKeys]
      BY <2>1 DEF Child, ChildKeys
    <3>2. logger'.redactKeys = policy' /\ logger'.base \in [Name -> Value]
      BY <3>1, MergedType, LogAssumption DEF LogInv
    <3> QED BY <3>1, <3>2, GraphSame DEF LogInv, LineIsRedactedCopy
  <2>2. ASSUME NEW level \in LogLevel, EmitFiltered(level) PROVE LogInv'
    BY <2>2, GraphSame DEF EmitFiltered, LogInv, LineIsRedactedCopy
  <2>3. ASSUME UNCHANGED logVars PROVE LogInv'
    <3>1. /\ heap' = heap /\ policy' = policy /\ logger' = logger /\ phase' = phase
          /\ stack' = stack /\ seen' = seen /\ out' = out
      BY <2>3 DEF logVars
    <3>2. LineIsRedactedCopy' <=> LineIsRedactedCopy
      BY <3>1, GraphSame, CopySame DEF LineIsRedactedCopy
    <3>3. WalkInv' <=> WalkInv
      BY <3>1, GraphSame, CopySame DEF WalkInv, isRedactKey
    <3>4. GraphOK' <=> GraphOK
      BY <3>1, GraphSame
    <3>5. {<<p, Written(p)'>> : p \in {q \in Reached' : InCopy(q)' /\ policy' # {}}}
          = {<<p, Written(p)>> : p \in {q \in Reached : InCopy(q) /\ policy # {}}}
      BY <3>1, GraphSame, CopySame
    <3> QED BY <3>1, <3>2, <3>3, <3>4, <3>5 DEF LogInv
  <2> QED BY <2>1, <2>2, <2>3, CopyEntryKeeps, DescendKeeps, AscendKeeps, WriteKeeps, EmitKeeps
         DEF LogNext, LogDone
<1> QED BY <1>1, <1>2, PTL DEF LogSpec

\* For every object graph, whatever it shares and wherever it is cyclic, and every
\* list of names, redactKeys, threshold and child bindings: a line that redact and
\* write let out is the record with exactly the sensitive values of its arrays and
\* plain records replaced and its class instances as they are, and the call throws
\* exactly when a bigint, or a cycle inside an instance, is to be shown.
THEOREM LineRedacted == LogSpec => []LineIsRedactedCopy
<1>1. LogInv => LineIsRedactedCopy
  BY DEF LogInv
<1> QED BY <1>1, LogInvHolds, PTL

-----------------------------------------------------------------------------
\* The size of what a walk has met.

\* w adds up e over the subsets of S.
Adds(w, S, e) ==
  /\ w \in [SUBSET S -> Nat] /\ w[{}] = 0
  /\ \A s \in SUBSET S : \A x \in S \ s : w[s \cup {x}] = w[s] + e[x]

\* The values of a finite set have a sum, in whatever order they are taken.
LEMMA SumExists ==
  ASSUME NEW S, IsFiniteSet(S), NEW e \in [S -> Nat]
  PROVE  \E w : Adds(w, S, e)
<1> DEFINE K == {n \in Nat : \A T \in SUBSET S : Cardinality(T) = n => \E w : Adds(w, T, e)}
<1>0. \A T \in SUBSET S : IsFiniteSet(T) /\ Cardinality(T) \in Nat
  BY FS_Subset, FS_CardinalityType
<1>1. 0 \in K
  <2> SUFFICES ASSUME NEW T \in SUBSET S, Cardinality(T) = 0 PROVE \E w : Adds(w, T, e)
    OBVIOUS
  <2>1. T = {}
    BY <1>0, FS_EmptySet
  <2>2. Adds([s \in SUBSET T |-> 0], T, e)
    BY <2>1 DEF Adds
  <2> QED BY <2>2
<1>2. ASSUME NEW n \in Nat, n \in K PROVE n + 1 \in K
  <2> SUFFICES ASSUME NEW T \in SUBSET S, Cardinality(T) = n + 1 PROVE \E w : Adds(w, T, e)
    OBVIOUS
  <2>1. PICK x : x \in T
    BY <1>0, FS_EmptySet
  <2> DEFINE U == T \ {x}
  <2>2. Cardinality(U) = n /\ U \in SUBSET S
    <3>1. Cardinality(U) = (n + 1) - 1
      BY <1>0, <2>1, FS_RemoveElement
    <3> QED BY <3>1
  <2>3. PICK u : Adds(u, U, e)
    BY <1>2, <2>2
  <2> DEFINE w == [s \in SUBSET T |-> u[s \ {x}] + IF x \in s THEN e[x] ELSE 0]
  <2>4. \A s \in SUBSET T : s \ {x} \in SUBSET U /\ u[s \ {x}] \in Nat
    BY <2>3 DEF Adds
  <2>5. e[x] \in Nat
    BY <2>1
  <2>6. w \in [SUBSET T -> Nat]
    BY <2>4, <2>5
  <2>7. w[{}] = 0
    <3>1. {} \ {x} = {}
      OBVIOUS
    <3> QED BY <2>3, <3>1 DEF Adds
  <2>8. ASSUME NEW s \in SUBSET T, NEW y \in T \ s PROVE w[s \cup {y}] = w[s] + e[y]
    <3>0. s \cup {y} \in SUBSET T /\ e[y] \in Nat
      OBVIOUS
    <3>1. CASE y = x
      <4>1. (s \cup {x}) \ {x} = s \ {x} /\ x \notin s
        BY <2>8, <3>1
      <4>2. w[s \cup {x}] = u[s \ {x}] + e[x] /\ w[s] = u[s \ {x}] + 0
        BY <3>0, <3>1, <4>1
      <4> QED BY <2>4, <2>5, <3>1, <4>2
    <3>2. CASE y # x
      <4>1. (s \cup {y}) \ {x} = (s \ {x}) \cup {y} /\ y \in U \ (s \ {x}) /\ (x \in s \cup {y} <=> x \in s)
        BY <2>8, <3>2
      <4>2. u[(s \ {x}) \cup {y}] = u[s \ {x}] + e[y]
        BY <2>3, <2>4, <4>1 DEF Adds
      <4> DEFINE c == IF x \in s THEN e[x] ELSE 0
      <4>3. c \in Nat
        BY <2>5
      <4>4. w[s \cup {y}] = (u[s \ {x}] + e[y]) + c /\ w[s] = u[s \ {x}] + c
        BY <3>0, <4>1, <4>2
      <4> HIDE DEF c
      <4> QED BY <2>4, <3>0, <4>3, <4>4
    <3> QED BY <3>1, <3>2
  <2>9. Adds(w, T, e)
    <3> HIDE DEF w
    <3> QED BY <2>6, <2>7, <2>8 DEF Adds
  <2> QED BY <2>9
<1>3. Nat \subseteq K
  <2> HIDE DEF K
  <2> QED BY <1>1, <1>2, Induction
<1> QED BY <1>0, <1>3

\* A sum grows with its set.
LEMMA SumGrows ==
  ASSUME NEW S, IsFiniteSet(S), NEW e \in [S -> Nat], NEW w, Adds(w, S, e), NEW T \in SUBSET S
  PROVE  w[T] <= w[S]
<1> DEFINE K == {n \in Nat : \A s \in SUBSET S : T \subseteq s /\ Cardinality(s \ T) = n => w[T] <= w[s]}
<1>0. \A s \in SUBSET S : IsFiniteSet(s) /\ IsFiniteSet(s \ T) /\ Cardinality(s \ T) \in Nat /\ w[s] \in Nat
  BY FS_Subset, FS_CardinalityType DEF Adds
<1>1. 0 \in K
  <2>1. ASSUME NEW s \in SUBSET S, T \subseteq s, Cardinality(s \ T) = 0 PROVE w[T] <= w[s]
    <3>1. s \ T = {}
      BY <1>0, <2>1, FS_EmptySet
    <3>2. s = T
      BY <2>1, <3>1
    <3>3. w[T] \in Nat
      BY <1>0
    <3> QED BY <3>2, <3>3
  <2> QED BY <2>1
<1>2. ASSUME NEW n \in Nat, n \in K PROVE n + 1 \in K
  <2> SUFFICES ASSUME NEW s \in SUBSET S, T \subseteq s, Cardinality(s \ T) = n + 1 PROVE w[T] <= w[s]
    OBVIOUS
  <2>1. PICK x : x \in s \ T
    BY <1>0, FS_EmptySet
  <2> DEFINE D == s \ T
  <2>0. IsFiniteSet(D) /\ x \in D /\ Cardinality(D) = n + 1
    BY <1>0, <2>1
  <2>2. Cardinality(D \ {x}) = (n + 1) - 1
    <3> HIDE DEF D
    <3> QED BY <2>0, FS_RemoveElement
  <2>3. (s \ {x}) \ T = D \ {x} /\ s \ {x} \in SUBSET S /\ T \subseteq s \ {x} /\ (n + 1) - 1 = n
    BY <2>1
  <2>4. w[T] <= w[s \ {x}]
    BY <1>2, <2>2, <2>3
  <2>5. w[s] = w[s \ {x}] + e[x] /\ e[x] \in Nat
    <3>1. (s \ {x}) \cup {x} = s /\ x \in S \ (s \ {x})
      BY <2>1
    <3> QED BY <2>3, <3>1 DEF Adds
  <2>6. w[T] \in Nat /\ w[s \ {x}] \in Nat
    BY <1>0, <2>3
  <2> QED BY <2>4, <2>5, <2>6
<1>3. Nat \subseteq K
  <2> HIDE DEF K
  <2> QED BY <1>1, <1>2, Induction
<1> QED BY <1>0, <1>3

\* There are finitely many paths.
LEMMA PathsFinite == IsFiniteSet(Path)
<1> DEFINE N == Cardinality(Obj) + 1
           K == {n \in Nat : IsFiniteSet([1 .. n -> Name])}
<1>0. IsFiniteSet(Name) /\ Cardinality(Obj) \in Nat
  <2>1. NameSeq \in Surjection(1 .. Len(NameSeq), Name)
    BY NameSeqOK, GraphAssumption DEF Surjection, Name, Range
  <2> QED BY <2>1, NameSeqOK, FS_Interval, FS_Surjection, FS_CardinalityType, GraphAssumption
<1>1. 0 \in K
  <2>1. \A f \in [1 .. 0 -> Name] : f = [k \in 1 .. 0 |-> 0]
    OBVIOUS
  <2>2. [k \in 1 .. 0 |-> 0] \in [1 .. 0 -> Name]
    OBVIOUS
  <2>3. [1 .. 0 -> Name] = {[k \in 1 .. 0 |-> 0]}
    BY <2>1, <2>2
  <2> QED BY <2>3, FS_Singleton
<1>2. ASSUME NEW n \in Nat, n \in K PROVE n + 1 \in K
  <2> DEFINE A == [1 .. n -> Name]
             B == [1 .. n + 1 -> Name]
             f == [q \in B |-> <<[k \in 1 .. n |-> q[k]], q[n + 1]>>]
  <2>1. IsFiniteSet(A \X Name)
    BY <1>0, <1>2, FS_Product
  <2>2. f \in [B -> A \X Name]
    <3>1. \A q \in B : [k \in 1 .. n |-> q[k]] \in A /\ q[n + 1] \in Name
      OBVIOUS
    <3> QED BY <3>1
  <2>3. ASSUME NEW p \in B, NEW q \in B, f[p] = f[q] PROVE p = q
    <3>1. [k \in 1 .. n |-> p[k]] = [k \in 1 .. n |-> q[k]] /\ p[n + 1] = q[n + 1]
      BY <2>3
    <3>2. \A k \in 1 .. n : p[k] = q[k]
      BY <3>1
    <3>3. \A k \in 1 .. n + 1 : p[k] = q[k]
      BY <3>1, <3>2
    <3> QED BY <3>3
  <2>4. f \in Injection(B, A \X Name)
    <3> HIDE DEF f, A, B
    <3> QED BY <2>2, <2>3 DEF Injection, IsInjective
  <2>5. IsFiniteSet(B)
    <3> HIDE DEF f, A, B
    <3> QED BY <2>1, <2>4, FS_Injection
  <2> QED BY <2>5
<1>3. Nat \subseteq K
  <2> HIDE DEF K
  <2> QED BY <1>1, <1>2, Induction
<1> DEFINE F == [k \in 1 .. N |-> [1 .. k -> Name]]
           T == {[1 .. k -> Name] : k \in 1 .. N}
<1>4. IsFiniteSet(T)
  <2>1. F \in Surjection(1 .. N, T)
    BY DEF Surjection
  <2>2. IsFiniteSet(1 .. N)
    BY <1>0, FS_Interval
  <2> HIDE DEF F, T
  <2> QED BY <2>1, <2>2, FS_Surjection
<1>5. \A U \in T : IsFiniteSet(U)
  BY <1>0, <1>3
<1>6. Path = UNION T
  BY DEF Path
<1> HIDE DEF T
<1> QED BY <1>4, <1>5, <1>6, FS_UNION

-----------------------------------------------------------------------------
\* What the replacer adds for each path.
Estimates == [p \in Reached |-> Estimate(ValueAt(p))]

\* The estimates of the finitely many paths reached are naturals.
LEMMA EstimatesType == IsFiniteSet(Reached) /\ Estimates \in [Reached -> Nat]
<1>1. IsFiniteSet(Reached)
  BY PathsFinite, FS_Subset DEF Reached
<1>2. \A v : Estimate(v) \in Nat
  BY BudgetAssumption DEF Estimate
<1> QED BY <1>1, <1>2 DEF Estimates

\* MapThenSumSet computes it.
LEMMA SumIs ==
  ASSUME NEW w, Adds(w, Reached, Estimates), NEW T \in SUBSET Reached
  PROVE  Size(T) = w[T]
<1> DEFINE S == Reached
           e == Estimates
           E(p) == Estimate(ValueAt(p))
<1>0. /\ IsFiniteSet(S) /\ e \in [S -> Nat] /\ T \in SUBSET S /\ Adds(w, S, e)
      /\ \A p \in S : e[p] = E(p)
  BY EstimatesType DEF Estimates
<1> HIDE DEF S, e, E
<1> DEFINE Pick(s) == CHOOSE x \in s : TRUE
           Is(f) == f = [s \in SUBSET T |-> IF s = {} THEN 0
                          ELSE E(Pick(s)) + f[s \ {Pick(s)}]]
           it == CHOOSE f : Is(f)
<1>1. ASSUME NEW s \in SUBSET S, s # {}
      PROVE  w[s] = e[Pick(s)] + w[s \ {Pick(s)}]
  <2> DEFINE x == Pick(s)
  <2>1. x \in s
    BY <1>1
  <2> HIDE DEF x
  <2>2. s \ {x} \in SUBSET S /\ x \in S \ (s \ {x}) /\ (s \ {x}) \cup {x} = s
    BY <2>1
  <2>3. w[s] = w[s \ {x}] + e[x] /\ w[s \ {x}] \in Nat /\ e[x] \in Nat
    BY <1>0, <2>1, <2>2 DEF Adds
  <2>4. w[s] = e[x] + w[s \ {x}]
    BY <2>3
  <2> QED BY <2>4 DEF x
<1>2. Is([s \in SUBSET T |-> w[s]])
  <2> DEFINE f == [s \in SUBSET T |-> w[s]]
  <2>1. \A s \in SUBSET T : f[s] = IF s = {} THEN 0
                          ELSE E(Pick(s)) + f[s \ {Pick(s)}]
    <3> TAKE s \in SUBSET T
    <3>1. CASE s = {}
      BY <1>0, <3>1 DEF Adds
    <3>2. CASE s # {}
      <4>1. s \ {Pick(s)} \in SUBSET T
        OBVIOUS
      <4>2. Pick(s) \in S /\ s \in SUBSET S
        BY <1>0, <3>2
      <4>3. w[s] = E(Pick(s)) + w[s \ {Pick(s)}]
        BY <1>0, <1>1, <3>2, <4>2
      <4> HIDE DEF Pick
      <4> QED BY <3>2, <4>1, <4>3
    <3> QED BY <3>1, <3>2
  <2>2. f = [s \in SUBSET T |-> f[s]]
    OBVIOUS
  <2>3. Is(f)
    <3> HIDE DEF f, Pick
    <3> QED BY <2>1, <2>2
  <2> QED BY <2>3
<1>3. Is(it)
  <2> HIDE DEF Is
  <2> QED BY <1>2
<1>4. Size(T) = it[T]
  BY DEF Size, MapThenSumSet, MapThenFoldSet, E
<1> DEFINE K == {n \in Nat : \A s \in SUBSET T : Cardinality(s) = n => it[s] = w[s]}
<1> HIDE DEF it
<1>5. \A s \in SUBSET T : IsFiniteSet(s) /\ Cardinality(s) \in Nat /\ s \in SUBSET S
  BY <1>0, FS_Subset, FS_CardinalityType
<1>6. 0 \in K
  <2>1. it[{}] = 0 /\ w[{}] = 0
    BY <1>0, <1>3 DEF Adds
  <2> QED BY <1>5, <2>1, FS_EmptySet
<1>7. ASSUME NEW n \in Nat, n \in K PROVE n + 1 \in K
  <2> SUFFICES ASSUME NEW s \in SUBSET T, Cardinality(s) = n + 1 PROVE it[s] = w[s]
    OBVIOUS
  <2> DEFINE x == Pick(s)
  <2>1. s # {}
    BY <1>5, FS_EmptySet
  <2>3. x \in s
    BY <2>1
  <2>2. it[s] = e[x] + it[s \ {x}] /\ w[s] = e[x] + w[s \ {x}]
    <3>1. E(x) = e[x]
      BY <1>0, <1>5, <2>3
    <3>2. w[s] = e[x] + w[s \ {x}]
      BY <1>1, <1>5, <2>1
    <3> HIDE DEF Pick
    <3>3. it[s] = E(x) + it[s \ {x}]
      BY <1>3, <2>1
    <3> QED BY <3>1, <3>2, <3>3
  <2> HIDE DEF x
  <2>4. Cardinality(s \ {x}) = (n + 1) - 1
    BY <1>5, <2>3, FS_RemoveElement
  <2>5. Cardinality(s \ {x}) = n /\ s \ {x} \in SUBSET T
    BY <2>4
  <2> QED BY <1>7, <2>2, <2>5
<1>8. Nat \subseteq K
  <2> HIDE DEF K
  <2> QED BY <1>6, <1>7, Induction
<1> QED BY <1>4, <1>5, <1>8


\* What the proofs use of the size.
LEMMA SizeLaws ==
  /\ Size({}) = 0
  /\ \A T \in SUBSET Reached : Size(T) \in Nat /\ Size(T) <= Size(Reached)
  /\ \A T \in SUBSET Reached : \A x \in Reached \ T : Size(T \cup {x}) = Size(T) + Estimate(ValueAt(x))
<1>1. PICK w : Adds(w, Reached, Estimates)
  BY EstimatesType, SumExists
<1>2. \A T \in SUBSET Reached : Size(T) = w[T] /\ w[T] \in Nat /\ w[T] <= w[Reached]
  BY <1>1, EstimatesType, SumIs, SumGrows DEF Adds
<1>3. \A x \in Reached : Estimates[x] = Estimate(ValueAt(x))
  BY DEF Estimates
<1>4. Reached \in SUBSET Reached /\ {} \in SUBSET Reached
  OBVIOUS
<1>5. \A T \in SUBSET Reached : \A x \in Reached \ T : T \cup {x} \in SUBSET Reached
  OBVIOUS
<1> QED BY <1>1, <1>2, <1>3, <1>4, <1>5 DEF Adds

\* The same of the next state.
LEMMA SumIsNext ==
  (\A w : Adds(w, Reached, Estimates) => \A T \in SUBSET Reached : Size(T) = w[T])'
<1>1. \A w : Adds(w, Reached, Estimates) => \A T \in SUBSET Reached : Size(T) = w[T]
  BY SumIs
<1> QED BY <1>1, PTL

\* The sizes depend on the object graph only,
LEMMA SizeSame ==
  ASSUME heap' = heap
  PROVE  \A T \in SUBSET Reached : Size(T)' = Size(T)
<1>1. Reached' = Reached /\ Estimates' = Estimates
  BY GraphSame DEF Estimates, Estimate
<1>2. PICK w : Adds(w, Reached, Estimates)
  BY EstimatesType, SumExists
<1> QED BY <1>1, <1>2, SumIs, SumIsNext

-----------------------------------------------------------------------------
\* The serializer.

\* The entry a walk is at is not met yet.
LEMMA EntryUnmet ==
  ASSUME GraphOK, NEW frames, OnPath(frames), TopOf(frames).i <= Len(NameSeq)
  PROVE  PathTo(frames) \notin Met(frames)
<1> DEFINE h == PathTo(frames)
           n == Len(frames)
<1>1. n \in Nat /\ Len(h) = n /\ \A k \in 1 .. n : h[k] = NameSeq[frames[k].i]
  BY FramesType, PathToEntry
<1>2. \A k \in 1 .. n : frames[k].i \in 1 .. Len(NameSeq)
  <2> TAKE k \in 1 .. n
  <2>1. frames[k].i \in 1 .. Len(NameSeq) + 1
    BY FramesType
  <2>2. frames[k].i <= Len(NameSeq)
    <3>1. k = n \/ k \in 1 .. n - 1
      BY <1>1
    <3> QED BY <3>1 DEF OnPath, TopOf
  <2> QED BY <2>1, <2>2, NameSeqOK
<1> HIDE DEF h
<1>3. ~Behind(frames, h)
  <2> SUFFICES ASSUME NEW k \in 1 .. n, NEW m \in 1 .. frames[k].i - 1, h[k] = NameSeq[m]
               PROVE  FALSE
    BY DEF Behind
  <2>1. m \in 1 .. Len(NameSeq) /\ m # frames[k].i
    BY <1>2, NameSeqOK
  <2> QED BY <1>1, <1>2, <2>1, NameSeqOK
<1> QED BY <1>1, <1>3 DEF Met, OnWay, h

\* Past an entry that is not entered there is one more met, if it is a value.
LEMMA MetAdvances ==
  ASSUME GraphOK, NEW frames, OnPath(frames), TopOf(frames).i <= Len(NameSeq), ~Container(EntryAt(frames))
  PROVE  Met(Advanced(frames)) =
           IF EntryAt(frames) = Absent THEN Met(frames) ELSE Met(frames) \cup {PathTo(frames)}
<1> DEFINE h == PathTo(frames)
           g == Advanced(frames)
<1>1. /\ Len(frames) \in Nat /\ Len(g) = Len(frames)
      /\ \A k \in 1 .. Len(frames) - 1 : g[k] = frames[k]
      /\ \A p \in Seq(Name) : Behind(g, p) <=> Behind(frames, p) \/ Below(p, h)
  BY AdvancedIs, Advances, FramesType
<1>2. /\ h \in Seq(Name) /\ Len(h) = Len(frames) /\ ValueAt(h) = EntryAt(frames)
      /\ EntryAt(frames) # Absent => h \in Reached
  BY PathToEntry
<1>3. \A p \in Reached : Below(p, h) => p = h
  BY BelowEntry
<1> HIDE DEF h, g
<1>4. Below(h, h)
  BY <1>1, <1>2 DEF Below
<1>5. \A p \in Reached : p \in Seq(Name) /\ Len(p) \in Nat /\ ValueAt(p) # Absent
  BY PathType DEF Reached
<1>6. \A p \in Reached : OnWay(g, p) <=> OnWay(frames, p)
  <2> TAKE p \in Reached
  <2>1. Len(p) < Len(frames) => \A k \in 1 .. Len(p) : k \in 1 .. Len(frames) - 1
    BY <1>1, <1>5
  <2> QED BY <1>1, <2>1 DEF OnWay
<1>7. \A p \in Reached : Behind(g, p) <=> Behind(frames, p) \/ p = h
  BY <1>1, <1>3, <1>4, <1>5
<1> QED BY <1>2, <1>5, <1>6, <1>7 DEF Met, h, g

\* So there is when an object is entered.
LEMMA MetEnters ==
  ASSUME GraphOK, NEW frames, OnPath(frames), TopOf(frames).i <= Len(NameSeq),
         Container(EntryAt(frames)), EntryAt(frames) \notin Inside(frames)
  PROVE  Met(Entering(frames)) = Met(frames) \cup {PathTo(frames)}
<1> DEFINE h == PathTo(frames)
           g == Entering(frames)
           n == Len(frames)
<1>1. /\ n \in Nat /\ Len(g) = n + 1 /\ \A k \in 1 .. n : g[k] = frames[k]
      /\ \A p \in Seq(Name) : Behind(g, p) <=> Behind(frames, p)
  BY EnteringIs, Enters, FramesType
<1>2. EntryAt(frames) # Absent
  BY GraphAssumption DEF Container, IsObject
<1>3. h \in Seq(Name) /\ Len(h) = n /\ h \in Reached /\ \A k \in 1 .. n : h[k] = NameSeq[frames[k].i]
  BY <1>2, PathToEntry
<1> HIDE DEF h, g
<1>5. \A p \in Reached : p \in Seq(Name) /\ Len(p) \in Nat
  BY PathType DEF Reached
<1>6. ASSUME NEW p \in Reached PROVE OnWay(g, p) <=> OnWay(frames, p) \/ p = h
  <2>1. Len(p) < n + 1 => \A k \in 1 .. Len(p) : k \in 1 .. n
    BY <1>1, <1>5
  <2>2. ASSUME OnWay(g, p), ~(Len(p) < n) PROVE p = h
    <3>1. Len(p) = n
      BY <1>1, <1>5, <2>2 DEF OnWay
    <3>2. \A k \in 1 .. n : p[k] = h[k]
      BY <1>1, <1>3, <2>1, <2>2, <3>1 DEF OnWay
    <3> QED BY <1>3, <1>5, <3>1, <3>2
  <2>3. ASSUME OnWay(g, p), Len(p) < n PROVE OnWay(frames, p)
    BY <1>1, <2>1, <2>3 DEF OnWay
  <2>4. OnWay(frames, p) => OnWay(g, p)
    BY <1>1, <1>5, <2>1 DEF OnWay
  <2>5. OnWay(g, h)
    BY <1>1, <1>3 DEF OnWay
  <2> QED BY <2>2, <2>3, <2>4, <2>5
<1> QED BY <1>1, <1>3, <1>5, <1>6 DEF Met, h, g

\* Leaving an object meets nothing.
LEMMA MetLeaves ==
  ASSUME GraphOK, NEW frames, OnPath(frames), Len(frames) > 1, TopOf(frames).i > Len(NameSeq)
  PROVE  Met(Advanced(Front(frames))) = Met(frames)
<1> DEFINE f == Front(frames)
           g == Advanced(f)
           h == PathTo(f)
           n == Len(frames)
<1>1. /\ TopOf(f).i <= Len(NameSeq) /\ OnPath(f)
      /\ \A p \in Path : Behind(g, p) <=> Behind(frames, p) \/ p = h
  BY Leaves
<1>2. n \in Nat /\ n > 1 /\ Len(f) = n - 1 /\ \A k \in 1 .. n - 1 : f[k] = frames[k]
  BY FrontIs, FramesType
<1>3. Len(g) = Len(f) /\ \A k \in 1 .. Len(f) - 1 : g[k] = f[k]
  BY <1>1, AdvancedIs DEF OnPath
<1>4. h \in Seq(Name) /\ Len(h) = Len(f) /\ \A k \in 1 .. Len(f) : h[k] = NameSeq[f[k].i]
  BY <1>1, PathToEntry
<1> HIDE DEF f, g, h
<1>5. \A p \in Reached : p \in Path /\ p \in Seq(Name) /\ Len(p) \in Nat
  BY PathType DEF Reached
<1>6. ASSUME NEW p \in Reached PROVE OnWay(frames, p) <=> OnWay(g, p) \/ p = h
  <2>1. Len(p) < n - 1 => \A k \in 1 .. Len(p) : k \in 1 .. Len(f) - 1 /\ k \in 1 .. n - 1
    BY <1>2, <1>5
  <2>2. ASSUME OnWay(frames, p), ~(Len(p) < n - 1) PROVE p = h
    <3>1. Len(p) = n - 1
      BY <1>2, <1>5, <2>2 DEF OnWay
    <3>2. \A k \in 1 .. n - 1 : p[k] = h[k]
      BY <1>2, <1>4, <2>2, <3>1 DEF OnWay
    <3> QED BY <1>2, <1>4, <1>5, <3>1, <3>2
  <2>3. ASSUME OnWay(frames, p), Len(p) < n - 1 PROVE OnWay(g, p)
    BY <1>2, <1>3, <2>1, <2>3 DEF OnWay
  <2>4. ASSUME OnWay(g, p) PROVE OnWay(frames, p)
    <3>1. Len(p) < n - 1 /\ Len(p) < n
      BY <1>2, <1>3, <1>5, <2>4 DEF OnWay
    <3> QED BY <1>2, <1>3, <2>1, <2>4, <3>1 DEF OnWay
  <2>5. OnWay(frames, h)
    BY <1>2, <1>4 DEF OnWay
  <2> QED BY <2>2, <2>3, <2>4, <2>5
<1>7. \A p \in Reached : Behind(g, p) <=> Behind(frames, p) \/ p = h
  BY <1>1, <1>5
<1> QED BY <1>6, <1>7 DEF Met, f, g, h

\* When nothing is left to visit, everything is met.
LEMMA MetAll ==
  ASSUME NEW frames, OnPath(frames), Len(frames) = 1, TopOf(frames).i > Len(NameSeq)
  PROVE  Met(frames) = Reached
BY AllBehind DEF Met, Reached

\* Before anything is visited, nothing is met.
LEMMA MetNone == GraphOK => Met(<<[obj |-> Root, i |-> 1]>>) = {}
<1> DEFINE g == <<[obj |-> Root, i |-> 1]>>
<1> SUFFICES ASSUME GraphOK, NEW p \in Reached PROVE ~Behind(g, p) /\ ~OnWay(g, p)
  BY DEF Met
<1>1. ~Behind(g, p)
  BY Begins
<1>2. Len(g) = 1 /\ Len(p) >= 1 /\ Len(p) \in Nat
  <2>1. Len(p) \in 1 .. Cardinality(Obj) + 1 /\ p \in Seq(Name)
    BY PathType DEF Reached
  <2> QED BY <2>1, GraphAssumption, FS_CardinalityType
<1> QED BY <1>1, <1>2 DEF OnWay

\* While the graph stays, the estimate of what is met changes with the walk only.
LEMMA MetSame ==
  ASSUME heap' = heap
  PROVE  Met(visiting)' = Met(visiting') /\ Size(Met(visiting))' = Size(Met(visiting'))
<1>1. Met(visiting)' = Met(visiting')
  BY GraphSame DEF Met, Behind, OnWay
<1>2. Met(visiting') \in SUBSET Reached
  BY DEF Met
<1>3. \A T : T = Met(visiting)' => Size(Met(visiting))' = Size(T)'
  BY DEF Size
<1> QED BY <1>1, <1>2, <1>3, SizeSame

\* and so do the verdict and the total.
LEMMA VerdictSame ==
  ASSUME heap' = heap
  PROVE  (Serializable' <=> Serializable) /\ Total' = Total
<1>1. Serializable' <=> Serializable
  BY GraphSame DEF Serializable
<1>2. Size(Reached)' = Size(Reached)
  <2>1. \A T : T = Reached' => Size(Reached)' = Size(T)'
    BY DEF Size
  <2> QED BY <2>1, GraphSame, SizeSame
<1> QED BY <1>1, <1>2 DEF Total

\* A visit of a value: over the budget, not serializable, or within the budget.
LEMMA VisitKeeps ==
  ASSUME JsonInv, NEW v \in Value \ {Absent},
         VisitExceeds(v) \/ VisitThrows(v) \/ VisitAdds(v)
  PROVE  JsonInv'
<1> DEFINE h == PathTo(visiting)
           M == Met(visiting)
<1>1. /\ verdict = "visiting" /\ TopOf(visiting).i <= Len(NameSeq) /\ v = EntryAt(visiting)
      /\ v # Absent /\ heap' = heap /\ byteBudget' = byteBudget
  BY DEF VisitExceeds, VisitThrows, VisitAdds, Visits
<1>2. /\ GraphOK /\ OnPath(visiting)
      /\ byteBudget \in Nat /\ accumulated = 10 + Size(M) /\ accumulated <= byteBudget
      /\ \A p \in M : ~Closes(p) /\ KindOf(ValueAt(p)) # "bigint"
  BY <1>1 DEF JsonInv
<1>3. h \in Reached /\ ValueAt(h) = v /\ (Closes(h) <=> v \in Inside(visiting))
  BY <1>1, <1>2, PathToEntry
<1>4. h \notin M /\ M \in SUBSET Reached /\ M \cup {h} \in SUBSET Reached
  BY <1>1, <1>2, <1>3, EntryUnmet DEF Met
<1> HIDE DEF h, M
<1>5. /\ Size(M) \in Nat /\ Size(M \cup {h}) = Size(M) + Estimate(v)
      /\ Size(M \cup {h}) <= Size(Reached) /\ Size(M \cup {h}) \in Nat /\ Size(Reached) \in Nat
  BY <1>3, <1>4, SizeLaws
<1>6. Estimate(v) \in Nat
  BY BudgetAssumption DEF Estimate
<1>7. CASE VisitExceeds(v)
  <2>1. verdict' = "too-large" /\ accumulated + Estimate(v) > byteBudget
    BY <1>7 DEF VisitExceeds, OverLimit
  <2>2. ~(Total <= byteBudget)
    BY <1>2, <1>5, <1>6, <2>1 DEF Total
  <2> QED BY <1>1, <2>1, <2>2, VerdictSame DEF JsonInv, PayloadVerdict, Truncated
<1>8. CASE VisitThrows(v)
  <2>1. verdict' = "non-serializable" /\ (KindOf(v) = "bigint" \/ v \in Inside(visiting))
    BY <1>8 DEF VisitThrows
  <2>2. ~Serializable
    BY <1>3, <2>1 DEF Serializable
  <2> QED BY <1>1, <2>1, <2>2, VerdictSame DEF JsonInv, PayloadVerdict, Truncated
<1>9. CASE VisitAdds(v)
  <2>1. /\ ~(accumulated + Estimate(v) > byteBudget) /\ KindOf(v) # "bigint" /\ v \notin Inside(visiting)
        /\ accumulated' = accumulated + Estimate(v) /\ verdict' = verdict
        /\ visiting' = IF Container(v) THEN Entering(visiting) ELSE Advanced(visiting)
    BY <1>9 DEF VisitAdds, OverLimit
  <2>2. OnPath(visiting') /\ Met(visiting') = M \cup {h}
    BY <1>1, <1>2, <2>1, Enters, Advances, MetEnters, MetAdvances DEF M, h
  <2>3. accumulated' = 10 + Size(M \cup {h}) /\ accumulated' <= byteBudget
    BY <1>2, <1>5, <1>6, <2>1
  <2>4. \A p \in M \cup {h} : ~Closes(p) /\ KindOf(ValueAt(p)) # "bigint"
    BY <1>2, <1>3, <2>1
  <2>5. Met(visiting)' = M \cup {h} /\ Size(Met(visiting))' = Size(M \cup {h})
    BY <1>1, <2>2, MetSame
  <2>6. GraphOK' /\ OnPath(visiting)'
    BY <1>1, <1>2, <2>2, GraphSame
  <2>7. \A p \in Met(visiting)' : ~Closes(p)' /\ KindOf(ValueAt(p))' # "bigint"
    BY <1>1, <2>4, <2>5, GraphSame
  <2> QED BY <1>1, <1>2, <2>1, <2>3, <2>5, <2>6, <2>7 DEF JsonInv, PayloadVerdict, Truncated
<1> QED BY <1>7, <1>8, <1>9

\* An absent entry is skipped, a finished object left.
LEMMA MovesKeep == ASSUME JsonInv, VisitNothing \/ VisitLeaves PROVE JsonInv'
<1> DEFINE M == Met(visiting)
<1>1. /\ verdict = "visiting" /\ heap' = heap /\ byteBudget' = byteBudget /\ accumulated' = accumulated
  BY DEF VisitNothing, VisitLeaves, Visits
<1>2. /\ GraphOK /\ OnPath(visiting)
      /\ byteBudget \in Nat /\ accumulated = 10 + Size(M) /\ accumulated <= byteBudget
      /\ \A p \in M : ~Closes(p) /\ KindOf(ValueAt(p)) # "bigint"
  BY <1>1 DEF JsonInv
<1>3. Len(visiting) \in Nat /\ Len(visiting) >= 1
  BY <1>2, FramesType
<1>4. ASSUME verdict' = verdict, OnPath(visiting'), Met(visiting') = M PROVE JsonInv'
  <2>1. Met(visiting)' = M /\ Size(Met(visiting))' = Size(M)
    BY <1>1, <1>4, MetSame
  <2>2. GraphOK' /\ OnPath(visiting)'
    BY <1>1, <1>2, <1>4, GraphSame
  <2>3. \A p \in Met(visiting)' : ~Closes(p)' /\ KindOf(ValueAt(p))' # "bigint"
    BY <1>1, <1>2, <2>1, GraphSame
  <2> HIDE DEF M
  <2> QED BY <1>1, <1>2, <1>4, <2>1, <2>2, <2>3 DEF JsonInv, PayloadVerdict, Truncated
<1>5. CASE VisitNothing
  <2>1. /\ TopOf(visiting).i <= Len(NameSeq) /\ EntryAt(visiting) = Absent
        /\ visiting' = Advanced(visiting) /\ verdict' = verdict
    BY <1>5 DEF VisitNothing, Visits
  <2>2. ~Container(EntryAt(visiting))
    BY <2>1, GraphAssumption DEF Container, IsObject
  <2> QED BY <1>2, <1>4, <2>1, <2>2, Advances, MetAdvances
<1>6. CASE VisitLeaves /\ Len(visiting) > 1
  <2>1. /\ TopOf(visiting).i > Len(NameSeq) /\ visiting' = Advanced(Front(visiting)) /\ verdict' = verdict
    BY <1>6 DEF VisitLeaves
  <2> QED BY <1>2, <1>4, <1>6, <2>1, Leaves, MetLeaves
<1>7. CASE VisitLeaves /\ Len(visiting) = 1
  <2>1. TopOf(visiting).i > Len(NameSeq) /\ verdict' = "ok"
    <3>1. ~(Len(visiting) > 1)
      BY <1>7
    <3> QED BY <1>7, <3>1 DEF VisitLeaves
  <2>2. M = Reached
    BY <1>2, <1>7, <2>1, MetAll
  <2>3. Serializable /\ Total <= byteBudget
    BY <1>2, <2>2 DEF Serializable, Total
  <2> QED BY <1>1, <2>1, <2>3, VerdictSame DEF JsonInv, PayloadVerdict, Truncated
<1>8. \A n \in Nat : n >= 1 => n > 1 \/ n = 1
  OBVIOUS
<1> QED BY <1>3, <1>5, <1>6, <1>7, <1>8

\* What holds when a walk starts, of the next state.
LEMMA StartsNext ==
  (GraphOK => /\ OnPath(<<[obj |-> Root, i |-> 1]>>) /\ Met(<<[obj |-> Root, i |-> 1]>>) = {}
              /\ Size({}) = 0 /\ Total \in Nat /\ Total >= 10)'
<1>1. GraphOK => /\ OnPath(<<[obj |-> Root, i |-> 1]>>) /\ Met(<<[obj |-> Root, i |-> 1]>>) = {}
                 /\ Size({}) = 0 /\ Total \in Nat /\ Total >= 10
  <2>1. Size(Reached) \in Nat /\ Size({}) = 0
    BY SizeLaws
  <2> QED BY <2>1, Begins, MetNone DEF Total
<1> QED BY <1>1, PTL

\* A call starts a walk, or answers at once.
LEMMA TruncateKeeps == ASSUME JsonInv, NEW budget \in Budgets, Truncate(budget) PROVE JsonInv'
<1> DEFINE g == <<[obj |-> Root, i |-> 1]>>
<1>1. /\ byteBudget' = budget /\ accumulated' = 10 /\ visiting' = g /\ budget \in Nat
      /\ verdict' = IF 10 > budget THEN "too-large" ELSE "visiting"
  BY BudgetAssumption DEF Truncate
<1>2. GraphOK'
  BY GraphFormed, GraphAssumption DEF Truncate
<1>3. OnPath(g)' /\ Met(g)' = {} /\ Size({})' = 0 /\ (Total \in Nat /\ Total >= 10)'
  BY <1>2, StartsNext
<1> HIDE DEF g
<1>4. CASE 10 > budget
  <2>1. ~(Total' <= budget)
    <3>1. Total' \in Int /\ Total' >= 10
      BY <1>3
    <3> QED BY <1>1, <1>4, <3>1
  <2> QED BY <1>1, <1>4, <2>1 DEF JsonInv, PayloadVerdict, Truncated
<1>5. CASE ~(10 > budget)
  <2>1. Met(visiting)' = {} /\ OnPath(visiting)'
    BY <1>1, <1>3 DEF Met, OnPath
  <2>2. Size(Met(visiting))' = 0
    BY <1>3, <2>1 DEF Size
  <2> QED BY <1>1, <1>2, <1>5, <2>1, <2>2 DEF JsonInv, PayloadVerdict, Truncated
<1> QED BY <1>4, <1>5

\* JsonInv is inductive.
LEMMA JsonInvHolds == JsonSpec => []JsonInv
<1>1. JsonInit => JsonInv
  BY DEF JsonInit, JsonInv, PayloadVerdict, Truncated
<1>2. JsonInv /\ [JsonNext]_jsonVars => JsonInv'
  <2> SUFFICES ASSUME JsonInv, [JsonNext]_jsonVars PROVE JsonInv'
    OBVIOUS
  <2>1. ASSUME TruncatePrimitive PROVE JsonInv'
    BY <2>1 DEF TruncatePrimitive, JsonInv, PayloadVerdict, Truncated
  <2>2. ASSUME UNCHANGED jsonVars PROVE JsonInv'
    <3>1. /\ heap' = heap /\ byteBudget' = byteBudget /\ accumulated' = accumulated
          /\ visiting' = visiting /\ verdict' = verdict
      BY <2>2 DEF jsonVars
    <3>2. (PayloadVerdict' <=> PayloadVerdict) /\ (Truncated' <=> Truncated)
      BY <3>1, VerdictSame DEF PayloadVerdict, Truncated
    <3>3. (GraphOK' <=> GraphOK) /\ (OnPath(visiting)' <=> OnPath(visiting))
      BY <3>1, GraphSame
    <3>4. Met(visiting)' = Met(visiting) /\ Size(Met(visiting))' = Size(Met(visiting))
      BY <3>1, MetSame
    <3>5. \A p : (Closes(p)' <=> Closes(p)) /\ KindOf(ValueAt(p))' = KindOf(ValueAt(p))
      BY <3>1, GraphSame
    <3> QED BY <3>1, <3>2, <3>3, <3>4, <3>5 DEF JsonInv
  <2> QED BY <2>1, <2>2, TruncateKeeps, VisitKeeps, MovesKeep DEF JsonNext
<1> QED BY <1>1, <1>2, PTL DEF JsonSpec

\* For every object graph, length of a string and budget: truncateJsonPayload
\* passes a payload on exactly when JSON.stringify can take it and what it adds up
\* is within the budget.
THEOREM PayloadJudged == JsonSpec => []PayloadVerdict
<1>1. JsonInv => PayloadVerdict
  BY DEF JsonInv
<1> QED BY <1>1, JsonInvHolds, PTL

-----------------------------------------------------------------------------
\* The SCALE codec.

\* A remainder, one digit at a time.
LEMMA DivMod ==
  \A x \in Nat : \A P, B \in Nat \ {0} : x % (P * B) = (x % P) + P * ((x \div P) % B)
<1> SUFFICES ASSUME NEW x \in Nat, NEW P \in Nat \ {0}, NEW B \in Nat \ {0}
             PROVE  x % (P * B) = (x % P) + P * ((x \div P) % B)
  OBVIOUS
<1> DEFINE r == x % P
           q == x \div P
           s == q % B
           t == q \div B
<1>1. r \in Nat /\ r <= P - 1 /\ q \in Nat /\ x = P * q + r
  OBVIOUS
<1>2. s \in Nat /\ s <= B - 1 /\ t \in Nat /\ q = B * t + s
  BY <1>1
<1> HIDE DEF r, q, s, t
<1>3. x = (P * B) * t + (P * s + r)
  <2>1. P * (B * t + s) = (P * B) * t + P * s
    BY <1>2
  <2> QED BY <1>1, <1>2, <2>1
<1>4. P * s + r < P * B /\ P * s + r \in Nat /\ P * B \in Nat
  <2>1. P * s <= P * (B - 1)
    BY <1>2
  <2>2. P * (B - 1) = P * B - P
    OBVIOUS
  <2> QED BY <1>1, <1>2, <2>1, <2>2
<1>5. \A a, m, b \in Nat : b < m => (m * a + b) % m = b
  OBVIOUS
<1>6. x % (P * B) = P * s + r
  BY <1>2, <1>3, <1>4, <1>5
<1> QED BY <1>1, <1>2, <1>6 DEF r, s, q

\* The powers of a byte that the four modes need.
LEMMA ByteIs ==
  /\ Byte \in Nat /\ Byte >= 8 /\ Byte = 4 * Pow(2, ByteBits - 2)
  /\ Pow(2, ByteBits - 2) \in Nat \ {0}
  /\ Pow(2, 2 * ByteBits - 2) = Byte * Pow(2, ByteBits - 2)
  /\ Pow(2, 4 * ByteBits - 2) = (Byte * Byte * Byte) * Pow(2, ByteBits - 2)
  /\ Pow(Byte, 0) = 1 /\ Pow(Byte, 1) = Byte /\ Pow(Byte, 2) = Byte * Byte
  /\ Pow(Byte, 4) = Byte * Byte * Byte * Byte
  /\ \A n \in Nat : Pow(Byte, n) \in Nat \ {0} /\ Pow(Byte, n + 1) = Byte * Pow(Byte, n)
<1> DEFINE b == ByteBits
           q == Pow(2, b - 2)
<1>1. b \in Nat /\ b > 2 /\ b - 2 \in Nat /\ b - 3 \in Nat
  BY WidthAssumption
<1>2. Pow(2, 0) = 1 /\ Pow(2, 1) = 2 /\ Pow(2, 2) = 4
  <2>1. Pow(2, 0) = 1 /\ Pow(2, 0 + 1) = 2 * Pow(2, 0) /\ Pow(2, 1 + 1) = 2 * Pow(2, 1)
    BY PowNext
  <2> QED BY <2>1
<1>3. q \in Nat \ {0} /\ q >= 2
  <2>1. Pow(2, 1) <= Pow(2, b - 2)
    BY <1>1, PowGrows
  <2> QED BY <1>1, <1>2, <2>1, PowPositive
<1>4. Byte = 4 * q
  <2>1. Pow(2, 2 + (b - 2)) = Pow(2, 2) * Pow(2, b - 2) /\ 2 + (b - 2) = b
    BY <1>1, PowSum
  <2> QED BY <1>2, <2>1 DEF Byte
<1>5. Byte \in Nat /\ Byte >= 8 /\ Byte \in Nat \ {0}
  BY <1>3, <1>4
<1>6. Pow(2, 2 * b - 2) = Byte * q
  <2>1. Pow(2, b + (b - 2)) = Pow(2, b) * q /\ b + (b - 2) = 2 * b - 2
    BY <1>1, PowSum
  <2> QED BY <2>1 DEF Byte
<1>7. Pow(2, 4 * b - 2) = (Byte * Byte * Byte) * q
  <2>1. Pow(2, b + (2 * b - 2)) = Byte * Pow(2, 2 * b - 2) /\ b + (2 * b - 2) = 3 * b - 2
    BY <1>1, PowSum DEF Byte
  <2>2. Pow(2, b + (3 * b - 2)) = Byte * Pow(2, 3 * b - 2) /\ b + (3 * b - 2) = 4 * b - 2
    BY <1>1, PowSum DEF Byte
  <2>3. Pow(2, 4 * b - 2) = Byte * (Byte * (Byte * q))
    BY <1>6, <2>1, <2>2
  <2>4. \A x, y \in Nat : x * (x * (x * y)) = (x * x * x) * y
    OBVIOUS
  <2> HIDE DEF q
  <2> QED BY <1>3, <1>5, <2>3, <2>4
<1>8. \A n \in Nat : Pow(Byte, n) \in Nat \ {0} /\ Pow(Byte, n + 1) = Byte * Pow(Byte, n)
  BY <1>5, PowNext, PowPositive
<1>9. /\ Pow(Byte, 0) = 1 /\ Pow(Byte, 1) = Byte /\ Pow(Byte, 2) = Byte * Byte
      /\ Pow(Byte, 4) = Byte * Byte * Byte * Byte
  <2>1. /\ Pow(Byte, 0) = 1 /\ Pow(Byte, 0 + 1) = Byte * Pow(Byte, 0)
        /\ Pow(Byte, 1 + 1) = Byte * Pow(Byte, 1) /\ Pow(Byte, 2 + 1) = Byte * Pow(Byte, 2)
        /\ Pow(Byte, 3 + 1) = Byte * Pow(Byte, 3)
    BY <1>5, PowNext
  <2>2. \A x \in Nat : x * (x * (x * x)) = x * x * x * x /\ x * 1 = x
    OBVIOUS
  <2> QED BY <1>5, <2>1, <2>2
<1> QED BY <1>3, <1>4, <1>5, <1>6, <1>7, <1>8, <1>9

\* ValueOf obeys its recursive definition.
LEMMA ValueOfIs ==
  ASSUME NEW bytes \in Seq(Int)
  PROVE  \E v : /\ ValueOf(bytes) = v[Len(bytes)] /\ v[0] = 0
                /\ \A k \in 1 .. Len(bytes) : v[k] = v[k - 1] + bytes[k] * Pow(Byte, k - 1)
<1> DEFINE n == Len(bytes)
           Is(f) == f = [k \in 0 .. n |-> IF k = 0 THEN 0 ELSE f[k - 1] + bytes[k] * Pow(Byte, k - 1)]
           c == [k \in 1 .. n |-> bytes[k] * Pow(Byte, k - 1)]
           v == CHOOSE f : Is(f)
<1>1. n \in Nat /\ \A k \in 1 .. n : bytes[k] \in Int /\ k - 1 \in Nat
  OBVIOUS
<1>2. c \in [1 .. n -> Int]
  <2>1. \A k \in 1 .. n : bytes[k] * Pow(Byte, k - 1) \in Int
    <3> TAKE k \in 1 .. n
    <3>1. bytes[k] \in Int /\ Pow(Byte, k - 1) \in Int
      BY <1>1, ByteIs
    <3> QED BY <3>1
  <2> QED BY <2>1
<1>3. \A k \in 1 .. n : c[k] = bytes[k] * Pow(Byte, k - 1)
  OBVIOUS
<1> HIDE DEF c
<1>4. PICK f : Horner(f, n, 0, 1, c)
  BY <1>1, <1>2, HornerExists
<1>5. Is(f)
  <2>1. f \in [0 .. n -> Int] /\ f[0] = 0 /\ \A k \in 1 .. n : f[k] = 1 * f[k - 1] + c[k]
    BY <1>4 DEF Horner
  <2>2. \A k \in 1 .. n : f[k - 1] \in Int /\ 1 * f[k - 1] = f[k - 1]
    <3> TAKE k \in 1 .. n
    <3>1. k - 1 \in 0 .. n
      BY <1>1
    <3>2. f[k - 1] \in Int
      BY <2>1, <3>1
    <3> QED BY <3>2
  <2>3. \A k \in 0 .. n : f[k] = IF k = 0 THEN 0 ELSE f[k - 1] + bytes[k] * Pow(Byte, k - 1)
    BY <1>1, <1>3, <2>1, <2>2
  <2>4. f = [k \in 0 .. n |-> f[k]]
    BY <2>1
  <2> QED BY <2>3, <2>4
<1>6. Is(v)
  <2> HIDE DEF Is
  <2> QED BY <1>5
<1>7. ValueOf(bytes) = v[n]
  BY DEF ValueOf
<1> HIDE DEF v
<1>8. v[0] = 0 /\ \A k \in 1 .. n : v[k] = v[k - 1] + bytes[k] * Pow(Byte, k - 1)
  BY <1>1, <1>6
<1> QED BY <1>7, <1>8

\* The low bytes of a number, put together, are what it leaves past a power.
LEMMA ReadsLittleEndian ==
  ASSUME NEW x \in Nat, NEW bytes \in Seq(Int),
         \A k \in 1 .. Len(bytes) : bytes[k] = (x \div Pow(Byte, k - 1)) % Byte
  PROVE  ValueOf(bytes) = x % Pow(Byte, Len(bytes))
<1> DEFINE n == Len(bytes)
<1>1. PICK v : /\ ValueOf(bytes) = v[n] /\ v[0] = 0
               /\ \A k \in 1 .. n : v[k] = v[k - 1] + bytes[k] * Pow(Byte, k - 1)
  BY ValueOfIs
<1> DEFINE S == {k \in Nat : k <= n => v[k] = x % Pow(Byte, k)}
<1>2. 0 \in S
  <2>1. x % 1 = 0
    OBVIOUS
  <2> QED BY <1>1, <2>1, ByteIs
<1>3. ASSUME NEW k \in Nat, k \in S PROVE k + 1 \in S
  <2> SUFFICES ASSUME k + 1 <= n PROVE v[k + 1] = x % Pow(Byte, k + 1)
    OBVIOUS
  <2> DEFINE P == Pow(Byte, k)
  <2>1. k + 1 \in 1 .. n /\ (k + 1) - 1 = k /\ k <= n
    OBVIOUS
  <2>2. P \in Nat \ {0} /\ Pow(Byte, k + 1) = Byte * P /\ Byte \in Nat \ {0}
    BY ByteIs
  <2>3. v[k + 1] = v[k] + bytes[k + 1] * P /\ bytes[k + 1] = (x \div P) % Byte /\ v[k] = x % P
    BY <1>1, <1>3, <2>1
  <2> HIDE DEF P
  <2>4. x % (P * Byte) = (x % P) + P * ((x \div P) % Byte)
    BY <2>2, DivMod
  <2>5. P * Byte = Byte * P /\ P * ((x \div P) % Byte) = ((x \div P) % Byte) * P
    BY <2>2
  <2> QED BY <2>2, <2>3, <2>4, <2>5
<1>4. Nat \subseteq S
  <2> HIDE DEF S
  <2> QED BY <1>2, <1>3, Induction
<1>5. n \in Nat
  OBVIOUS
<1> QED BY <1>1, <1>4, <1>5

\* What concatenation returns.
LEMMA ConcatIs ==
  ASSUME NEW s \in Seq(Int), NEW t \in Seq(Int)
  PROVE  /\ s \o t \in Seq(Int) /\ Len(s \o t) = Len(s) + Len(t) /\ Len(s) \in Nat /\ Len(t) \in Nat
         /\ \A k \in 1 .. Len(s) : (s \o t)[k] = s[k]
         /\ \A k \in 1 .. Len(t) : (s \o t)[Len(s) + k] = t[k]
OBVIOUS

\* Facts of division and multiplication that the leaves below need.
LEMMA Arithmetic ==
  /\ \A a \in Nat, m \in Nat \ {0} : /\ a = m * (a \div m) + (a % m)
                                    /\ a \div m \in Nat /\ a % m \in Nat /\ a % m < m
  /\ \A a, b \in Nat : a * b \in Nat /\ (4 * a) * b = 4 * (a * b)
  /\ \A a, m \in Nat : a < m => a % m = a
  /\ \A a \in Nat, b \in Nat \ {0} : a <= b * a /\ a <= a * b
OBVIOUS

\* The parts of three sequences in a row.
LEMMA Slice ==
  ASSUME NEW s \in Seq(Int), NEW t \in Seq(Int), NEW r \in Seq(Int), NEW b, b = s \o t \o r
  PROVE  /\ b \in Seq(Int) /\ Len(b) = Len(s) + Len(t) + Len(r)
         /\ SubSeq(b, Len(s) + 1, Len(s) + Len(t)) = t
         /\ SubSeq(b, Len(s) + Len(t) + 1, Len(b)) = r
         /\ \A k \in 1 .. Len(s) : b[k] = s[k]
<1> DEFINE i == Len(s)
           j == Len(t)
           l == Len(r)
<1>1. /\ b \in Seq(Int) /\ Len(b) = i + j + l /\ i \in Nat /\ j \in Nat /\ l \in Nat
      /\ \A k \in 1 .. i : b[k] = s[k]
      /\ \A k \in 1 .. j : b[i + k] = t[k]
      /\ \A k \in 1 .. l : b[i + j + k] = r[k]
  <2>1. s \o t \in Seq(Int) /\ Len(s \o t) = i + j /\ i \in Nat /\ j \in Nat /\ l \in Nat
    OBVIOUS
  <2>2. /\ \A k \in 1 .. i : (s \o t)[k] = s[k]
        /\ \A k \in 1 .. j : (s \o t)[i + k] = t[k]
    OBVIOUS
  <2> DEFINE u == s \o t
  <2>3. u \in Seq(Int) /\ Len(u) = i + j /\ \A k \in 1 .. i + j : u[k] = (s \o t)[k]
    BY <2>1
  <2> HIDE DEF u
  <2>4. /\ u \o r \in Seq(Int) /\ Len(u \o r) = i + j + l
        /\ \A k \in 1 .. i + j : (u \o r)[k] = u[k]
        /\ \A k \in 1 .. l : (u \o r)[i + j + k] = r[k]
    <3>1. /\ u \o r \in Seq(Int) /\ Len(u \o r) = Len(u) + l
          /\ \A k \in 1 .. Len(u) : (u \o r)[k] = u[k]
          /\ \A k \in 1 .. l : (u \o r)[Len(u) + k] = r[k]
      BY <2>3, ConcatIs
    <3> QED BY <2>3, <3>1
  <2>5. b = u \o r
    BY DEF u
  <2>6. \A k \in 1 .. i : k \in 1 .. i + j
    BY <2>1
  <2>7. \A k \in 1 .. j : i + k \in 1 .. i + j
    BY <2>1
  <2> QED BY <2>1, <2>2, <2>3, <2>4, <2>5, <2>6, <2>7
<1>2. SubSeq(b, i + 1, i + j) = t
  <2>1. Len(SubSeq(b, i + 1, i + j)) = j /\ SubSeq(b, i + 1, i + j) \in Seq(Int)
    BY <1>1
  <2>2. \A k \in 1 .. j : SubSeq(b, i + 1, i + j)[k] = b[i + k]
    BY <1>1
  <2> QED BY <1>1, <2>1, <2>2
<1>3. SubSeq(b, i + j + 1, Len(b)) = r
  <2>1. Len(SubSeq(b, i + j + 1, i + j + l)) = l /\ SubSeq(b, i + j + 1, i + j + l) \in Seq(Int)
    BY <1>1
  <2>2. \A k \in 1 .. l : SubSeq(b, i + j + 1, i + j + l)[k] = b[i + j + k]
    BY <1>1
  <2>3. SubSeq(b, i + j + 1, i + j + l) = r
    BY <1>1, <2>1, <2>2
  <2> QED BY <1>1, <2>3
<1> QED BY <1>1, <1>2, <1>3

\* LittleEndian has n bytes, and they hold every number that fits.
LEMMA LittleEndianIs ==
  ASSUME NEW x \in Nat, NEW n \in Nat
  PROVE  /\ LittleEndian(x, n) \in Seq(Int) /\ Len(LittleEndian(x, n)) = n
         /\ n > 0 => LittleEndian(x, n)[1] = x % Byte
         /\ x < Pow(Byte, n) => ValueOf(LittleEndian(x, n)) = x
<1> DEFINE b == LittleEndian(x, n)
<1>1. \A k \in 1 .. n : (x \div Pow(Byte, k - 1)) % Byte \in Int
  <2> TAKE k \in 1 .. n
  <2>1. Pow(Byte, k - 1) \in Nat \ {0} /\ Byte \in Nat \ {0}
    BY ByteIs
  <2>2. \A p, q \in Nat \ {0} : (x \div p) % q \in Int
    OBVIOUS
  <2> QED BY <2>1, <2>2
<1>2. b \in Seq(Int) /\ Len(b) = n /\ \A k \in 1 .. n : b[k] = (x \div Pow(Byte, k - 1)) % Byte
  BY <1>1 DEF LittleEndian
<1>3. ASSUME n > 0 PROVE b[1] = x % Byte
  <2>1. b[1] = (x \div Pow(Byte, 1 - 1)) % Byte /\ 1 - 1 = 0
    BY <1>2, <1>3
  <2>2. x \div 1 = x
    OBVIOUS
  <2> QED BY <2>1, <2>2, ByteIs
<1>4. ASSUME x < Pow(Byte, n) PROVE ValueOf(b) = x
  <2> HIDE DEF b
  <2>1. ValueOf(b) = x % Pow(Byte, n)
    BY <1>2, ReadsLittleEndian
  <2>2. Pow(Byte, n) \in Nat \ {0}
    BY ByteIs
  <2>3. \A m \in Nat : x < m => x % m = x
    OBVIOUS
  <2> QED BY <1>4, <2>1, <2>2, <2>3
<1> QED BY <1>2, <1>3, <1>4

\* A number that four bytes do not hold fits in ByteLength(v) bytes.
LEMMA ByteLengthIs ==
  ASSUME NEW v \in Nat, v < Pow(Byte, MaxBytes), ~FitsFour(v)
  PROVE  ByteLength(v) \in 4 .. MaxBytes /\ v < Pow(Byte, ByteLength(v))
<1> DEFINE S == {n \in 1 .. MaxBytes : v < Pow(Byte, n)}
           m == ByteLength(v)
<1>1. MaxBytes \in Nat /\ MaxBytes >= 4
  BY ByteIs DEF MaxBytes
<1>2. MaxBytes \in S /\ S \in SUBSET Nat
  BY <1>1
<1>3. m = CHOOSE x \in S : \A y \in S : x <= y
  BY DEF ByteLength, Min
<1> HIDE DEF S, m
<1>4. m \in S
  BY <1>2, <1>3, LeastNat
<1>5. m \in 1 .. MaxBytes /\ v < Pow(Byte, m)
  BY <1>4 DEF S
<1>6. m >= 4
  <2> SUFFICES ASSUME m <= 3 PROVE FALSE
    BY <1>1, <1>5
  <2>1. Pow(Byte, m) <= Pow(Byte, 3)
    BY <1>1, <1>5, ByteIs, PowGrows
  <2>2. Pow(Byte, 3) = Byte * Byte * Byte /\ Byte * Byte * Byte \in Nat
    <3>1. Pow(Byte, 2 + 1) = Byte * Pow(Byte, 2) /\ Pow(Byte, 2) = Byte * Byte /\ Byte \in Nat
      BY ByteIs
    <3>2. \A x \in Nat : x * (x * x) = x * x * x /\ x * x * x \in Nat
      OBVIOUS
    <3> QED BY <3>1, <3>2
  <2> DEFINE c == Byte * Byte * Byte
             q == Pow(2, ByteBits - 2)
  <2>3. ~(v < c * q) /\ q \in Nat \ {0} /\ c \in Nat
    BY <2>2, ByteIs DEF FitsFour
  <2>4. \A x \in Nat, y \in Nat \ {0} : x <= x * y /\ x * y \in Nat
    OBVIOUS
  <2>5. Pow(Byte, 3) = c /\ Pow(Byte, m) \in Nat
    BY <1>1, <1>5, <2>2, ByteIs
  <2> HIDE DEF c, q
  <2>6. c <= c * q /\ c * q \in Nat
    BY <2>3, <2>4
  <2> QED BY <1>5, <2>1, <2>3, <2>5, <2>6
<1> QED BY <1>1, <1>5, <1>6 DEF m

\* What compact writes is read back, and what follows it is left over.
LEMMA CompactRead ==
  ASSUME NEW v \in Nat, v < Pow(Byte, MaxBytes), NEW r \in Seq(Int)
  PROVE  compact(v) \in Seq(Int) /\ DecodeCompact(compact(v) \o r) = [value |-> v, rest |-> r]
<1> DEFINE q == Pow(2, ByteBits - 2)
<1>1. Byte \in Nat /\ Byte >= 8 /\ Byte = 4 * q /\ q \in Nat \ {0} /\ Byte \in Nat \ {0}
  BY ByteIs
<1> HIDE DEF q
\* The modes that keep the number above two bits.
<1>2. ASSUME NEW n \in {1, 2, 4}, NEW m \in 0 .. 2, 4 * v + m < Pow(Byte, n),
             n = 1 <=> m = 0, n = 2 <=> m = 1, n = 4 <=> m = 2, compact(v) = LittleEndian(4 * v + m, n)
      PROVE  compact(v) \in Seq(Int) /\ DecodeCompact(compact(v) \o r) = [value |-> v, rest |-> r]
  <2> DEFINE x == 4 * v + m
             t == LittleEndian(x, n)
             b == t \o r
  <2>1. x \in Nat /\ n \in Nat /\ n > 0 /\ x \div 4 = v
    OBVIOUS
  <2> HIDE DEF x
  <2>2. t \in Seq(Int) /\ Len(t) = n /\ t[1] = x % Byte /\ ValueOf(t) = x
    BY <1>2, <2>1, LittleEndianIs DEF x
  <2>3. (x % Byte) % 4 = m
    <3>1. x = Byte * (x \div Byte) + (x % Byte) /\ x % Byte \in Nat /\ x \div Byte \in Nat
      BY <1>1, <2>1, Arithmetic
    <3> DEFINE y == x % Byte
               z == x \div Byte
    <3> HIDE DEF y, z
    <3>2. 4 * v + m = 4 * (q * z) + y /\ y \in Nat /\ z \in Nat /\ q * z \in Nat
      <4>1. Byte * z = 4 * (q * z) /\ q * z \in Nat
        BY <1>1, <3>1, Arithmetic DEF z
      <4> QED BY <3>1, <4>1 DEF x, y, z
    <3> DEFINE w == q * z
    <3> HIDE DEF w
    <3>3. 4 * v + m = 4 * w + y /\ w \in Nat
      BY <3>2 DEF w
    <3>4. y % 4 = m
      BY <3>2, <3>3
    <3> QED BY <3>4 DEF y
  <2> HIDE DEF t
  <2> DEFINE e == << >>
  <2>4. b = e \o t \o r /\ e \in Seq(Int) /\ Len(e) = 0
    BY <2>2
  <2> HIDE DEF b, e
  <2>5. SubSeq(b, 1, n) = t /\ From(b, n + 1) = r
    <3>1. SubSeq(b, Len(e) + 1, Len(e) + Len(t)) = t /\ SubSeq(b, Len(e) + Len(t) + 1, Len(b)) = r
      BY <2>2, <2>4, Slice
    <3>2. Len(e) + 1 = 1 /\ Len(e) + Len(t) = n /\ Len(e) + Len(t) + 1 = n + 1
      BY <2>1, <2>2, <2>4
    <3> QED BY <3>1, <3>2 DEF From
  <2>6. b[1] = x % Byte
    <3>1. b = t \o r
      BY DEF b
    <3> QED BY <2>1, <2>2, <3>1
  <2>7. DecodeCompact(b) = [value |-> v, rest |-> r]
    BY <1>2, <2>1, <2>2, <2>3, <2>5, <2>6 DEF DecodeCompact
  <2> QED BY <1>2, <2>2, <2>7 DEF b, t, x
<1>3. CASE FitsOne(v)
  <2>1. 4 * v + 0 < Pow(Byte, 1) /\ 4 * v < Byte
    BY <1>1, <1>3, ByteIs DEF FitsOne, q
  <2>2. compact(v) = <<4 * v>>
    <3>1. (4 * v) % Byte = 4 * v
      BY <1>1, <2>1, Arithmetic
    <3>2. FitsTwo(v)
      <4>1. q <= Byte * q /\ Byte * q \in Nat /\ v < q /\ Pow(2, 2 * ByteBits - 2) = Byte * q
        BY <1>1, <1>3, Arithmetic, ByteIs DEF FitsOne, q
      <4> QED BY <1>1, <4>1 DEF FitsTwo
    <3> QED BY <1>3, <3>1, <3>2 DEF compact
  <2>3. LittleEndian(4 * v + 0, 1) = <<4 * v>>
    <3> DEFINE x == 4 * v
               t == LittleEndian(x, 1)
    <3>1. 4 * v + 0 = x /\ x \in Nat /\ x % Byte = x
      BY <1>1, <2>1, Arithmetic
    <3> HIDE DEF x
    <3>2. t \in Seq(Int) /\ Len(t) = 1 /\ t[1] = x
      <4>1. 1 \in Nat /\ 1 > 0
        OBVIOUS
      <4> QED BY <3>1, <4>1, LittleEndianIs
    <3> HIDE DEF t
    <3>3. t = <<x>>
      BY <3>2
    <3> QED BY <3>1, <3>3 DEF x, t
  <2> QED BY <1>2, <2>1, <2>2, <2>3
<1>4. CASE ~FitsOne(v) /\ FitsTwo(v)
  <2>1. v < Byte * q /\ Pow(Byte, 2) = Byte * Byte /\ Byte * q \in Nat
    BY <1>1, <1>4, ByteIs, Arithmetic DEF FitsTwo, q
  <2>2. Byte * Byte = 4 * (Byte * q)
    BY <1>1
  <2>3. 4 * v + 1 < Pow(Byte, 2)
    BY <2>1, <2>2
  <2>4. compact(v) = LittleEndian(4 * v + 1, 2)
    BY <1>4 DEF compact
  <2> QED BY <1>2, <2>3, <2>4
<1>5. CASE ~FitsTwo(v) /\ FitsFour(v)
  <2> DEFINE c == Byte * Byte * Byte
  <2>0. c \in Nat
    BY <1>1
  <2>1. v < c * q /\ Pow(Byte, 4) = c * Byte
    BY <1>1, <1>5, ByteIs DEF FitsFour, q
  <2> HIDE DEF c
  <2>2. c * Byte = 4 * (c * q) /\ c * q \in Nat
    BY <1>1, <2>0
  <2>3. 4 * v + 2 < Pow(Byte, 4)
    BY <2>1, <2>2
  <2>4. ~FitsOne(v)
    <3>1. q <= Byte * q /\ Byte * q \in Nat
      BY <1>1
    <3> QED BY <1>1, <1>5, <3>1, ByteIs DEF FitsOne, FitsTwo, q
  <2>5. compact(v) = LittleEndian(4 * v + 2, 4)
    BY <1>5, <2>4 DEF compact
  <2> QED BY <1>2, <2>3, <2>5
<1>6. CASE ~FitsFour(v)
  <2> DEFINE n == ByteLength(v)
             x == 4 * (n - 4) + 3
             t == LittleEndian(v, n)
             e == <<x>>
             b == e \o t \o r
  <2>1. n \in 4 .. MaxBytes /\ v < Pow(Byte, n) /\ n \in Nat
    BY <1>6, ByteLengthIs
  <2> HIDE DEF n
  <2>2. x \in Nat /\ x < Byte /\ x % 4 = 3 /\ (x \div 4) + 4 = n
    <3>1. MaxBytes = 3 + q
      BY <1>1 DEF MaxBytes, q
    <3>2. n - 4 \in Nat /\ n - 4 <= q - 1
      BY <1>1, <2>1, <3>1
    <3> QED BY <1>1, <3>2, <2>1
  <2> HIDE DEF x
  <2>3. t \in Seq(Int) /\ Len(t) = n /\ ValueOf(t) = v
    BY <2>1, LittleEndianIs
  <2> HIDE DEF t
  <2>4. ~FitsTwo(v) /\ ~FitsOne(v)
    <3> DEFINE c == Byte * Byte * Byte
    <3>1. c \in Nat /\ q <= Byte * q /\ Byte * q \in Nat
      BY <1>1
    <3>2. Byte * q <= c * q /\ c * q \in Nat
      <4>1. Byte <= c
        <5>1. \A y \in Nat : y >= 8 => y <= y * y * y
          OBVIOUS
        <5> QED BY <1>1, <5>1
      <4> HIDE DEF c
      <4> QED BY <1>1, <3>1, <4>1
    <3> HIDE DEF c
    <3>3. ~(v < c * q)
      BY <1>6, ByteIs DEF FitsFour, c, q
    <3>4. Pow(2, 2 * ByteBits - 2) = Byte * q /\ Pow(2, ByteBits - 2) = q
      BY ByteIs DEF q
    <3>5. \A l, k, m \in Nat : ~(v < m) /\ k <= m /\ l <= k => ~(v < k) /\ ~(v < l)
      OBVIOUS
    <3>6. ~(v < Byte * q) /\ ~(v < q)
      BY <1>1, <3>1, <3>2, <3>3, <3>5
    <3> QED BY <3>4, <3>6 DEF FitsOne, FitsTwo
  <2>5. compact(v) = <<x % Byte>> \o t
    BY <1>6, <2>4 DEF compact, x, n, t
  <2>7. e \in Seq(Int) /\ Len(e) = 1 /\ e[1] = x
    BY <2>2
  <2>6. compact(v) \o r = b /\ compact(v) \in Seq(Int)
    <3>1. x % Byte = x
      BY <1>1, <2>2, Arithmetic
    <3>2. compact(v) = e \o t
      BY <2>5, <3>1
    <3> HIDE DEF e
    <3> QED BY <2>3, <2>7, <3>2, ConcatIs
  <2> HIDE DEF e
  <2>8. SubSeq(b, 2, n + 1) = t /\ From(b, n + 2) = r /\ b[1] = x
    <3>1. /\ SubSeq(b, Len(e) + 1, Len(e) + Len(t)) = t /\ SubSeq(b, Len(e) + Len(t) + 1, Len(b)) = r
          /\ \A k \in 1 .. Len(e) : b[k] = e[k]
      <4>1. b = e \o t \o r
        OBVIOUS
      <4> HIDE DEF b
      <4>2. e \in Seq(Int) /\ t \in Seq(Int)
        BY <2>3, <2>7
      <4> QED BY <4>1, <4>2, Slice
    <3>2. Len(e) + 1 = 2 /\ Len(e) + Len(t) = n + 1 /\ Len(e) + Len(t) + 1 = n + 2 /\ 1 \in 1 .. Len(e)
      BY <2>1, <2>3, <2>7
    <3> QED BY <2>7, <3>1, <3>2 DEF From
  <2> HIDE DEF b
  <2>9. DecodeCompact(b) = [value |-> v, rest |-> r]
    <3>1. b[1] % 4 = 3 /\ (b[1] \div 4) + 4 = n
      BY <2>2, <2>8
    <3>2. ~(b[1] % 4 = 0) /\ ~(b[1] % 4 = 1) /\ ~(b[1] % 4 = 2)
      BY <3>1
    <3> QED BY <2>3, <2>8, <3>1, <3>2 DEF DecodeCompact
  <2> QED BY <2>6, <2>9
<1> QED BY <1>3, <1>4, <1>5, <1>6

\* The parts of two sequences in a row.
LEMMA Halves ==
  ASSUME NEW t \in Seq(Int), NEW r \in Seq(Int), NEW b, b = t \o r
  PROVE  SubSeq(b, 1, Len(t)) = t /\ SubSeq(b, Len(t) + 1, Len(b)) = r
<1> DEFINE e == << >>
<1>1. e \in Seq(Int) /\ b = e \o t \o r /\ Len(e) = 0
  OBVIOUS
<1> HIDE DEF e
<1>2. e \in Seq(Int) /\ b = e \o t \o r
  BY <1>1
<1>3. SubSeq(b, Len(e) + 1, Len(e) + Len(t)) = t /\ SubSeq(b, Len(e) + Len(t) + 1, Len(b)) = r
  BY <1>2, Slice
<1>4. Len(e) + 1 = 1 /\ Len(e) + Len(t) = Len(t) /\ Len(e) + Len(t) + 1 = Len(t) + 1
  BY <1>1
<1> QED BY <1>3, <1>4

\* Concatenation is associative.
LEMMA Associative ==
  ASSUME NEW s \in Seq(Int), NEW t \in Seq(Int), NEW r \in Seq(Int)
  PROVE  (s \o t) \o r = s \o (t \o r)
OBVIOUS

\* concatBytes of two and of three parts.
LEMMA Flattened ==
  ASSUME NEW s \in Seq(Int), NEW t \in Seq(Int), NEW r \in Seq(Int)
  PROVE  concatBytes(<<s, t>>) = s \o t /\ concatBytes(<<s, t, r>>) = (s \o t) \o r
<1>1. concatBytes(<<s, t>>) = s \o t
  <2> DEFINE q == <<s, t>>
             Is(f) == f = [i \in 1 .. Len(q) |-> IF i = 1 THEN q[i] ELSE f[i - 1] \o q[i]]
             g == [i \in 1 .. 2 |-> IF i = 1 THEN s ELSE s \o t]
             f == CHOOSE h : Is(h)
  <2>1. Len(q) = 2 /\ q[1] = s /\ q[2] = t
    OBVIOUS
  <2> HIDE DEF q
  <2>2. concatBytes(q) = f[2]
    BY <2>1 DEF concatBytes, FlattenSeq
  <2>3. Is(g)
    BY <2>1
  <2>4. Is(f)
    <3> HIDE DEF Is, g
    <3> QED BY <2>3
  <2> HIDE DEF f
  <2>5. f[1] = s /\ f[2] = f[1] \o t
    <3>1. 1 \in 1 .. Len(q) /\ 2 \in 1 .. Len(q) /\ 2 - 1 = 1
      BY <2>1
    <3>2. \A i \in 1 .. Len(q) : f[i] = IF i = 1 THEN q[i] ELSE f[i - 1] \o q[i]
      BY <2>4
    <3> HIDE DEF Is
    <3> QED BY <2>1, <3>1, <3>2
  <2> QED BY <2>2, <2>5 DEF q
<1>2. concatBytes(<<s, t, r>>) = (s \o t) \o r
  <2> DEFINE q == <<s, t, r>>
             Is(f) == f = [i \in 1 .. Len(q) |-> IF i = 1 THEN q[i] ELSE f[i - 1] \o q[i]]
             g == [i \in 1 .. 3 |-> IF i = 1 THEN s ELSE IF i = 2 THEN s \o t ELSE (s \o t) \o r]
             f == CHOOSE h : Is(h)
  <2>1. Len(q) = 3 /\ q[1] = s /\ q[2] = t /\ q[3] = r
    OBVIOUS
  <2> HIDE DEF q
  <2>2. concatBytes(q) = f[3]
    BY <2>1 DEF concatBytes, FlattenSeq
  <2>3. Is(g)
    <3>1. \A i \in 1 .. 3 : g[i] = IF i = 1 THEN q[i] ELSE g[i - 1] \o q[i]
      <4> TAKE i \in 1 .. 3
      <4>1. i = 1 \/ i = 2 \/ i = 3
        OBVIOUS
      <4>2. g[1] = s /\ g[2] = s \o t /\ g[3] = (s \o t) \o r
        OBVIOUS
      <4>3. 2 - 1 = 1 /\ 3 - 1 = 2
        OBVIOUS
      <4> HIDE DEF g
      <4> QED BY <2>1, <4>1, <4>2, <4>3
    <3>2. g = [i \in 1 .. 3 |-> g[i]]
      OBVIOUS
    <3> HIDE DEF g
    <3> QED BY <2>1, <3>1, <3>2
  <2>4. Is(f)
    <3> HIDE DEF Is, g
    <3> QED BY <2>3
  <2> HIDE DEF f
  <2>5. f[1] = s /\ f[2] = f[1] \o t /\ f[3] = f[2] \o r
    <3>1. 1 \in 1 .. Len(q) /\ 2 \in 1 .. Len(q) /\ 3 \in 1 .. Len(q) /\ 2 - 1 = 1 /\ 3 - 1 = 2
      BY <2>1
    <3>2. \A i \in 1 .. Len(q) : f[i] = IF i = 1 THEN q[i] ELSE f[i - 1] \o q[i]
      BY <2>4
    <3> HIDE DEF Is
    <3> QED BY <2>1, <3>1, <3>2
  <2> QED BY <2>2, <2>5 DEF q
<1> QED BY <1>1, <1>2

\* A word keeps the value modulo its range.
LEMMA U64Is ==
  ASSUME NEW v \in Int
  PROVE  /\ u64le(v) \in Seq(Int) /\ Len(u64le(v)) = WordBytes
         /\ ValueOf(u64le(v)) = v % Pow(Byte, WordBytes)
<1> DEFINE m == Pow(Byte, WordBytes)
           x == v % m
<1>1. m \in Nat \ {0} /\ WordBytes \in Nat
  BY WidthAssumption, ByteIs
<1> HIDE DEF m
<1>2. x \in Nat /\ x < m
  BY <1>1
<1> HIDE DEF x
<1>3. u64le(v) = LittleEndian(x, WordBytes)
  BY DEF u64le, x, m
<1> QED BY <1>1, <1>2, <1>3, LittleEndianIs DEF m, x

\* The three parts of a heartbeat payload are found where SCALE puts them.
LEMMA HeartbeatRead ==
  ASSUME NEW c \in Seq(0 .. Byte - 1), Len(c) < Pow(Byte, MaxBytes), NEW i \in Int, NEW j \in Int,
         NEW b, b = heartbeatSigningPayload(c, i, j),
         NEW head, head = DecodeCompact(b), NEW words, words = From(head.rest, head.value + 1)
  PROVE  /\ SubSeq(head.rest, 1, head.value) = c
         /\ ValueOf(SubSeq(words, 1, WordBytes)) = i % Pow(Byte, WordBytes)
         /\ ValueOf(From(words, WordBytes + 1)) = j % Pow(Byte, WordBytes)
<1> DEFINE s == compact(Len(c))
           x == u64le(i)
           y == u64le(j)
<1>1. c \in Seq(Int) /\ Len(c) \in Nat
  <2> DEFINE D == 0 .. Byte - 1
  <2>0. D \subseteq Int /\ c \in Seq(D)
    BY ByteIs
  <2> HIDE DEF D
  <2>1. Len(c) \in Nat /\ c \in [1 .. Len(c) -> D]
    BY <2>0
  <2>2. c \in [1 .. Len(c) -> Int]
    BY <2>0, <2>1
  <2> QED BY <2>1, <2>2
<1>2. /\ x \in Seq(Int) /\ Len(x) = WordBytes /\ ValueOf(x) = i % Pow(Byte, WordBytes)
      /\ y \in Seq(Int) /\ Len(y) = WordBytes /\ ValueOf(y) = j % Pow(Byte, WordBytes)
  BY U64Is
<1>3. s \in Seq(Int)
  BY <1>1, <1>2, CompactRead
<1> HIDE DEF s, x, y
<1> DEFINE w == x \o y
           r == c \o w
<1>4. w \in Seq(Int) /\ c \o x \in Seq(Int) /\ s \o c \in Seq(Int)
  BY <1>1, <1>2, <1>3
<1>5. r \in Seq(Int)
  BY <1>1, <1>4
<1>6. b = s \o r
  <2>1. b = ((s \o c) \o x) \o y
    <3>1. b = concatBytes(<<concatBytes(<<s, c>>), x, y>>)
      BY DEF heartbeatSigningPayload, scaleBytes, s, x, y
    <3>2. concatBytes(<<s, c>>) = s \o c
      BY <1>1, <1>3, Flattened
    <3>3. concatBytes(<<s \o c, x, y>>) = ((s \o c) \o x) \o y
      BY <1>2, <1>4, Flattened
    <3> QED BY <3>1, <3>2, <3>3
  <2>2. ((s \o c) \o x) \o y = (s \o c) \o w
    BY <1>2, <1>4, Associative
  <2>3. (s \o c) \o w = s \o (c \o w)
    BY <1>1, <1>3, <1>4, Associative
  <2> QED BY <2>1, <2>2, <2>3
<1> HIDE DEF r, w
<1>7. head = [value |-> Len(c), rest |-> r]
  BY <1>1, <1>5, <1>6, CompactRead DEF s
<1>8. head.value = Len(c) /\ head.rest = r
  BY <1>7
<1>9. SubSeq(r, 1, Len(c)) = c /\ SubSeq(r, Len(c) + 1, Len(r)) = w
  <2>1. r = c \o w
    BY DEF r
  <2> QED BY <1>1, <1>4, <2>1, Halves
<1>10. words = w
  BY <1>8, <1>9 DEF From
<1>11. SubSeq(w, 1, Len(x)) = x /\ SubSeq(w, Len(x) + 1, Len(w)) = y
  <2>1. w = x \o y /\ x \in Seq(Int) /\ y \in Seq(Int)
    BY <1>2 DEF w
  <2> QED BY <2>1, Halves
<1>12. SubSeq(w, 1, WordBytes) = x /\ From(w, WordBytes + 1) = y
  BY <1>2, <1>11 DEF From
<1> QED BY <1>2, <1>8, <1>9, <1>10, <1>12

\* For every width of a byte and of a word and every number below the limit of
\* the big-integer mode: what compact, scaleBytes and heartbeatSigningPayload
\* encode is read back, and nothing is left over.
THEOREM EncodedReadsBack == ScaleSpec => []ReadsBack
<1>1. ScaleInit => ReadsBack
  BY DEF ScaleInit, NotCoded, ReadsBack
<1>2. ReadsBack /\ [ScaleNext]_coded => ReadsBack'
  <2> SUFFICES ASSUME ReadsBack, [ScaleNext]_coded PROVE ReadsBack'
    OBVIOUS
  <2>1. ASSUME NEW v \in Integral, Compacts(v) PROVE ReadsBack'
    <3>1. coded'.call = "compact" /\ coded'.input = <<v>> /\ coded'.bytes = compact(v)
      BY <2>1 DEF Compacts
    <3>2. v \in Nat /\ v < Pow(Byte, MaxBytes)
      BY <2>1, WidthAssumption DEF Compacts
    <3> DEFINE e == << >>
    <3>3. e \in Seq(Int)
      OBVIOUS
    <3> HIDE DEF e
    <3>4. compact(v) \in Seq(Int) /\ DecodeCompact(compact(v) \o e) = [value |-> v, rest |-> e]
      BY <3>2, <3>3, CompactRead
    <3>5. compact(v) \o e = compact(v)
      BY <3>4 DEF e
    <3>6. DecodeCompact(compact(v)) = [value |-> v, rest |-> << >>]
      BY <3>4, <3>5 DEF e
    <3> QED BY <3>1, <3>6 DEF ReadsBack
  <2>2. ASSUME NEW v \in Integral, CompactThrows(v) PROVE ReadsBack'
    BY <2>2 DEF CompactThrows, ReadsBack
  <2>3. ASSUME NEW c \in Contexts, NEW i \in Words64, NEW j \in Words64, SignsHeartbeat(c, i, j)
        PROVE  ReadsBack'
    <3>1. /\ coded'.call = "heartbeat" /\ coded'.bytes = heartbeatSigningPayload(c, i, j)
          /\ coded'.input[1] = c /\ coded'.input[2] = i /\ coded'.input[3] = j
      BY <2>3 DEF SignsHeartbeat
    <3>2. c \in Seq(0 .. Byte - 1) /\ Len(c) < Pow(Byte, MaxBytes) /\ i \in Int /\ j \in Int
      BY WidthAssumption
    <3> QED BY <3>1, <3>2, HeartbeatRead DEF ReadsBack
  <2>4. ASSUME UNCHANGED coded PROVE ReadsBack'
    BY <2>4 DEF ReadsBack
  <2> QED BY <2>1, <2>2, <2>3, <2>4 DEF ScaleNext
<1> QED BY <1>1, <1>2, PTL DEF ScaleSpec

-----------------------------------------------------------------------------
\* Token amounts.

\* The powers of ten.
LEMMA TenIs ==
  /\ Pow(10, 0) = 1
  /\ \A n \in Nat : Pow(10, n) \in Nat \ {0} /\ Pow(10, n + 1) = 10 * Pow(10, n)
BY PowNext, PowPositive

\* Numeral obeys its recursive definition.
LEMMA NumeralIs ==
  ASSUME NEW s \in Seq(Int)
  PROVE  \E n : /\ Numeral(s) = n[Len(s)] /\ n \in [0 .. Len(s) -> Int] /\ n[0] = 0
                /\ \A k \in 1 .. Len(s) : n[k] = 10 * n[k - 1] + s[k]
<1> DEFINE l == Len(s)
           Is(f) == f = [k \in 0 .. l |-> IF k = 0 THEN 0 ELSE 10 * f[k - 1] + s[k]]
           n == CHOOSE f : Is(f)
<1>1. l \in Nat /\ s \in [1 .. l -> Int]
  OBVIOUS
<1>2. PICK f : Horner(f, l, 0, 10, s)
  BY <1>1, HornerExists
<1>3. f \in [0 .. l -> Int] /\ f[0] = 0 /\ \A k \in 1 .. l : f[k] = 10 * f[k - 1] + s[k]
  BY <1>2 DEF Horner
<1>4. Is(f)
  <2>1. \A k \in 0 .. l : f[k] = IF k = 0 THEN 0 ELSE 10 * f[k - 1] + s[k]
    BY <1>1, <1>3
  <2>2. f = [k \in 0 .. l |-> f[k]]
    BY <1>3
  <2> QED BY <2>1, <2>2
<1>5. Is(n)
  <2> HIDE DEF Is
  <2> QED BY <1>4
<1>6. Numeral(s) = n[l]
  BY DEF Numeral
<1> HIDE DEF n
<1>7. n[0] = 0 /\ \A k \in 1 .. l : n[k] = 10 * n[k - 1] + s[k]
  <2>1. \A k \in 0 .. l : n[k] = IF k = 0 THEN 0 ELSE 10 * n[k - 1] + s[k]
    BY <1>5
  <2> HIDE DEF Is
  <2> QED BY <1>1, <2>1
<1> DEFINE S == {k \in Nat : k <= l => n[k] \in Int}
<1>8. 0 \in S
  BY <1>7
<1>9. ASSUME NEW k \in Nat, k \in S PROVE k + 1 \in S
  <2> SUFFICES ASSUME k + 1 <= l PROVE n[k + 1] \in Int
    OBVIOUS
  <2>1. k + 1 \in 1 .. l /\ (k + 1) - 1 = k
    BY <1>1
  <2>2. n[k + 1] = 10 * n[k] + s[k + 1] /\ n[k] \in Int /\ s[k + 1] \in Int
    BY <1>1, <1>7, <1>9, <2>1
  <2> QED BY <2>2
<1>10. Nat \subseteq S
  <2> HIDE DEF S
  <2> QED BY <1>8, <1>9, Induction
<1>11. n \in [0 .. l -> Int]
  <2>1. \A k \in 0 .. l : n[k] \in Int
    BY <1>1, <1>10
  <2>2. n = [k \in 0 .. l |-> n[k]]
    BY <1>5
  <2> QED BY <2>1, <2>2
<1> QED BY <1>6, <1>7, <1>11

\* A number is known by the numbers its first digits make.
LEMMA NumeralOf ==
  ASSUME NEW s \in Seq(Int), NEW f, f[0] = 0, \A k \in 1 .. Len(s) : f[k] = 10 * f[k - 1] + s[k]
  PROVE  Numeral(s) = f[Len(s)]
<1> DEFINE l == Len(s)
<1>1. l \in Nat
  OBVIOUS
<1>2. PICK n : Numeral(s) = n[l] /\ n[0] = 0 /\ \A k \in 1 .. l : n[k] = 10 * n[k - 1] + s[k]
  BY NumeralIs
<1> DEFINE S == {k \in Nat : k <= l => n[k] = f[k]}
<1>3. 0 \in S
  BY <1>2
<1>4. ASSUME NEW k \in Nat, k \in S PROVE k + 1 \in S
  <2> SUFFICES ASSUME k + 1 <= l PROVE n[k + 1] = f[k + 1]
    OBVIOUS
  <2>1. k + 1 \in 1 .. l /\ (k + 1) - 1 = k /\ k <= l
    BY <1>1
  <2>2. n[k + 1] = 10 * n[k] + s[k + 1] /\ f[k + 1] = 10 * f[k] + s[k + 1]
    BY <1>2, <2>1
  <2> QED BY <1>4, <2>1, <2>2
<1>5. Nat \subseteq S
  <2> HIDE DEF S
  <2> QED BY <1>3, <1>4, Induction
<1> QED BY <1>1, <1>2, <1>5

\* The number of two texts in a row.
LEMMA NumeralConcat ==
  ASSUME NEW s \in Seq(Int), NEW t \in Seq(Int)
  PROVE  Numeral(s \o t) = Numeral(s) * Pow(10, Len(t)) + Numeral(t) /\ Numeral(s) \in Int /\ Numeral(t) \in Int
<1> DEFINE i == Len(s)
           j == Len(t)
           u == s \o t
<1>1. i \in Nat /\ j \in Nat /\ u \in Seq(Int) /\ Len(u) = i + j
  OBVIOUS
<1>2. (\A k \in 1 .. i : u[k] = s[k]) /\ (\A k \in 1 .. j : u[i + k] = t[k])
  OBVIOUS
<1> HIDE DEF u
<1>3. PICK a : /\ Numeral(s) = a[i] /\ a \in [0 .. i -> Int] /\ a[0] = 0
               /\ \A k \in 1 .. i : a[k] = 10 * a[k - 1] + s[k]
  BY NumeralIs
<1>4. PICK b : /\ Numeral(t) = b[j] /\ b \in [0 .. j -> Int] /\ b[0] = 0
               /\ \A k \in 1 .. j : b[k] = 10 * b[k - 1] + t[k]
  BY NumeralIs
<1> DEFINE A == a[i]
           f == [k \in 0 .. i + j |-> IF k <= i THEN a[k] ELSE A * Pow(10, k - i) + b[k - i]]
<1>5. A \in Int /\ \A k \in 0 .. j : b[k] \in Int /\ Pow(10, k) \in Int
  <2>1. A \in Int
    <3>1. i \in 0 .. i
      BY <1>1
    <3> HIDE DEF i
    <3> QED BY <1>3, <3>1
  <2>2. \A k \in 0 .. j : b[k] \in Int
    BY <1>4
  <2>3. \A k \in 0 .. j : Pow(10, k) \in Int
    BY <1>1, TenIs
  <2> QED BY <2>1, <2>2, <2>3
<1>6. f[0] = 0
  BY <1>1, <1>3
<1>7. ASSUME NEW k \in 1 .. i + j PROVE f[k] = 10 * f[k - 1] + u[k]
  <2>1. CASE k <= i
    <3>1. k \in 1 .. i /\ k \in 0 .. i + j /\ k - 1 \in 0 .. i + j /\ k - 1 <= i
      BY <1>1, <2>1
    <3>2. f[k] = a[k] /\ f[k - 1] = a[k - 1]
      BY <2>1, <3>1
    <3> QED BY <1>2, <1>3, <3>1, <3>2
  <2>2. CASE k > i
    <3> DEFINE m == k - i
    <3>1. m \in 1 .. j /\ m \in Nat /\ m - 1 \in Nat /\ k = i + m /\ (m - 1) + 1 = m /\ m - 1 \in 0 .. j
          /\ k \in 0 .. i + j /\ k - 1 \in 0 .. i + j /\ ~(k <= i) /\ (k - 1) - i = m - 1
      BY <1>1, <2>2
    <3>2. f[k] = A * Pow(10, m) + b[m]
      BY <3>1
    <3>3. f[k - 1] = A * Pow(10, m - 1) + b[m - 1]
      <4>1. CASE k - 1 <= i
        <5>1. k - 1 = i /\ m - 1 = 0
          BY <1>1, <2>2, <3>1, <4>1
        <5>2. f[k - 1] = A
          BY <3>1, <5>1, <4>1
        <5>3. A * 1 + 0 = A
          BY <1>5
        <5> QED BY <1>4, <5>1, <5>2, <5>3, TenIs
      <4>2. CASE ~(k - 1 <= i)
        BY <3>1, <4>2
      <4> QED BY <4>1, <4>2
    <3>4. u[k] = t[m]
      BY <1>2, <3>1
    <3>5. b[m] = 10 * b[m - 1] + t[m]
      BY <1>4, <3>1
    <3>6. Pow(10, m) = 10 * Pow(10, m - 1) /\ Pow(10, m - 1) \in Int
      <4>1. Pow(10, (m - 1) + 1) = 10 * Pow(10, m - 1) /\ Pow(10, m - 1) \in Nat \ {0}
        BY <3>1, TenIs
      <4> HIDE DEF m
      <4> QED BY <3>1, <4>1
    <3>7. t[m] \in Int /\ b[m - 1] \in Int
      BY <1>5, <3>1
    <3> HIDE DEF m, f, A
    <3>8. \A x, y, z, c \in Int : x * (10 * y) + (10 * z + c) = 10 * (x * y + z) + c
      OBVIOUS
    <3> QED BY <1>5, <3>2, <3>3, <3>4, <3>5, <3>6, <3>7, <3>8
  <2> QED BY <1>1, <2>1, <2>2
<1>8. f[i + j] = A * Pow(10, j) + b[j]
  <2>1. CASE j = 0
    <3>1. f[i + j] = A
      BY <1>1, <2>1
    <3>2. A * 1 + 0 = A
      BY <1>5
    <3> QED BY <1>4, <2>1, <3>1, <3>2, TenIs
  <2>2. CASE j > 0
    <3>1. i + j \in 0 .. i + j /\ ~(i + j <= i) /\ (i + j) - i = j
      BY <1>1, <2>2
    <3> QED BY <3>1
  <2> QED BY <1>1, <2>1, <2>2
<1> HIDE DEF f, A
<1>9. Numeral(u) = f[Len(u)]
  BY <1>1, <1>6, <1>7, NumeralOf
<1> QED BY <1>1, <1>3, <1>4, <1>5, <1>8, <1>9 DEF u, A

\* Zeros are zeros.
LEMMA ZerosIs ==
  ASSUME NEW n \in Nat
  PROVE  Zeros(n) \in Seq(Int) /\ Len(Zeros(n)) = n /\ (\A k \in 1 .. n : Zeros(n)[k] = 0) /\ Numeral(Zeros(n)) = 0
<1> DEFINE z == Zeros(n)
           f == [k \in 0 .. n |-> 0]
<1>1. z \in Seq(Int) /\ Len(z) = n /\ \A k \in 1 .. n : z[k] = 0
  BY DEF Zeros
<1> HIDE DEF z
<1>2. f[0] = 0 /\ f[n] = 0 /\ \A k \in 1 .. Len(z) : f[k] = 10 * f[k - 1] + z[k]
  BY <1>1
<1> HIDE DEF f
<1>3. Numeral(z) = f[Len(z)]
  BY <1>1, <1>2, NumeralOf
<1> QED BY <1>1, <1>2, <1>3 DEF z

\* WithoutCommas obeys its recursive definition,
LEMMA WithoutIs ==
  ASSUME NEW s \in Seq(Int)
  PROVE  \E w : /\ WithoutCommas(s) = w[Len(s)] /\ w[0] = << >>
                /\ \A k \in 1 .. Len(s) : w[k] = IF s[k] = Comma THEN w[k - 1] ELSE Append(w[k - 1], s[k])
<1> DEFINE l == Len(s)
           Is(f) == f = [k \in 0 .. l |-> IF k = 0 THEN << >>
                           ELSE IF s[k] = Comma THEN f[k - 1] ELSE Append(f[k - 1], s[k])]
           step == [k \in 1 .. l |-> [v \in Seq(Int) |-> IF s[k] = Comma THEN v ELSE Append(v, s[k])]]
           w == CHOOSE f : Is(f)
<1>1. l \in Nat /\ \A k \in 1 .. l : s[k] \in Int
  OBVIOUS
<1>2. step \in [1 .. l -> [Seq(Int) -> Seq(Int)]]
  <2>1. ASSUME NEW k \in 1 .. l, NEW v \in Seq(Int)
        PROVE  (IF s[k] = Comma THEN v ELSE Append(v, s[k])) \in Seq(Int)
    BY <1>1
  <2> QED BY <2>1
<1>3. \A k \in 1 .. l : \A v \in Seq(Int) : step[k][v] = IF s[k] = Comma THEN v ELSE Append(v, s[k])
  OBVIOUS
<1> HIDE DEF step
<1>4. PICK f : Follows(f, l, Seq(Int), << >>, step)
  <2>1. << >> \in Seq(Int)
    OBVIOUS
  <2> QED BY <1>1, <1>2, <2>1, FollowsExists
<1>5. f \in [0 .. l -> Seq(Int)] /\ f[0] = << >> /\ \A k \in 1 .. l : f[k] = step[k][f[k - 1]]
  BY <1>4 DEF Follows
<1>6. Is(f)
  <2>1. ASSUME NEW k \in 0 .. l
        PROVE  f[k] = IF k = 0 THEN << >> ELSE IF s[k] = Comma THEN f[k - 1] ELSE Append(f[k - 1], s[k])
    <3>1. CASE k = 0
      BY <1>5, <3>1
    <3>2. CASE k # 0
      <4>1. k \in 1 .. l /\ k - 1 \in 0 .. l
        BY <1>1, <3>2
      <4>2. f[k - 1] \in Seq(Int) /\ f[k] = step[k][f[k - 1]]
        BY <1>5, <4>1
      <4> QED BY <1>3, <3>2, <4>1, <4>2
    <3> QED BY <3>1, <3>2
  <2>2. f = [k \in 0 .. l |-> f[k]]
    BY <1>5
  <2> QED BY <2>1, <2>2
<1>7. Is(w)
  <2> HIDE DEF Is
  <2> QED BY <1>6
<1>8. WithoutCommas(s) = w[l]
  BY DEF WithoutCommas
<1> HIDE DEF w
<1>9. \A k \in 0 .. l : w[k] = IF k = 0 THEN << >> ELSE IF s[k] = Comma THEN w[k - 1] ELSE Append(w[k - 1], s[k])
  BY <1>7
<1> HIDE DEF Is
<1>10. w[0] = << >> /\ \A k \in 1 .. l : w[k] = IF s[k] = Comma THEN w[k - 1] ELSE Append(w[k - 1], s[k])
  BY <1>1, <1>9
<1> QED BY <1>8, <1>10

\* and so drops commas one by one.
LEMMA WithoutAppend ==
  /\ WithoutCommas(<< >>) = << >>
  /\ \A s \in Seq(Int) : \A x \in Int :
       WithoutCommas(Append(s, x)) = IF x = Comma THEN WithoutCommas(s) ELSE Append(WithoutCommas(s), x)
<1>1. WithoutCommas(<< >>) = << >>
  <2>1. << >> \in Seq(Int) /\ Len(<< >>) = 0
    OBVIOUS
  <2> QED BY <2>1, WithoutIs
<1>2. ASSUME NEW s \in Seq(Int), NEW x \in Int
      PROVE  WithoutCommas(Append(s, x)) = IF x = Comma THEN WithoutCommas(s) ELSE Append(WithoutCommas(s), x)
  <2> DEFINE l == Len(s)
             t == Append(s, x)
  <2>1. l \in Nat /\ t \in Seq(Int) /\ Len(t) = l + 1 /\ t[l + 1] = x /\ \A k \in 1 .. l : t[k] = s[k]
    OBVIOUS
  <2> HIDE DEF t
  <2>2. PICK v : /\ WithoutCommas(s) = v[l] /\ v[0] = << >>
                 /\ \A k \in 1 .. l : v[k] = IF s[k] = Comma THEN v[k - 1] ELSE Append(v[k - 1], s[k])
    BY WithoutIs
  <2>3. PICK w : /\ WithoutCommas(t) = w[l + 1] /\ w[0] = << >>
                 /\ \A k \in 1 .. l + 1 : w[k] = IF t[k] = Comma THEN w[k - 1] ELSE Append(w[k - 1], t[k])
    <3> HIDE DEF l
    <3>1. t \in Seq(Int) /\ Len(t) = l + 1
      BY <2>1
    <3>2. \E w : /\ WithoutCommas(t) = w[Len(t)] /\ w[0] = << >>
                 /\ \A k \in 1 .. Len(t) : w[k] = IF t[k] = Comma THEN w[k - 1] ELSE Append(w[k - 1], t[k])
      BY <3>1, WithoutIs
    <3> QED BY <3>1, <3>2
  <2> DEFINE S == {k \in Nat : k <= l => v[k] = w[k]}
  <2>4. 0 \in S
    BY <2>2, <2>3
  <2>5. ASSUME NEW k \in Nat, k \in S PROVE k + 1 \in S
    <3> SUFFICES ASSUME k + 1 <= l PROVE v[k + 1] = w[k + 1]
      OBVIOUS
    <3>1. k + 1 \in 1 .. l /\ k + 1 \in 1 .. l + 1 /\ (k + 1) - 1 = k /\ k <= l
      BY <2>1
    <3>2. v[k] = w[k] /\ t[k + 1] = s[k + 1]
      BY <2>1, <2>5, <3>1
    <3> QED BY <2>2, <2>3, <3>1, <3>2
  <2>6. Nat \subseteq S
    <3> HIDE DEF S
    <3> QED BY <2>4, <2>5, Induction
  <2>7. v[l] = w[l]
    BY <2>1, <2>6
  <2>8. l + 1 \in 1 .. l + 1 /\ (l + 1) - 1 = l
    BY <2>1
  <2> HIDE DEF S, l
  <2>9. w[l + 1] = IF x = Comma THEN w[l] ELSE Append(w[l], x)
    BY <2>1, <2>3, <2>8
  <2> QED BY <2>2, <2>3, <2>7, <2>9 DEF t
<1> QED BY <1>1, <1>2

\* Dropping the commas undoes addThousandsSeparators.
LEMMA SeparatorsDropped ==
  ASSUME NEW ds \in Seq(Digit), ds # << >>
  PROVE  WithoutCommas(addThousandsSeparators(ds)) = ds
<1> DEFINE n == Len(ds)
           Apart(i) == i > 1 /\ (n - i + 1) % 3 = 0
           parts == [i \in DOMAIN ds |-> IF Apart(i) THEN <<Comma, ds[i]>> ELSE <<ds[i]>>]
           Is(f) == f = [i \in 1 .. Len(parts) |-> IF i = 1 THEN parts[i] ELSE f[i - 1] \o parts[i]]
           flat == CHOOSE f : Is(f)
           step == [i \in 1 .. n |-> [v \in Seq(Int) |-> v \o parts[i]]]
<1>1. n \in Nat /\ n # 0 /\ DOMAIN ds = 1 .. n /\ \A i \in 1 .. n : ds[i] \in Digit
  OBVIOUS
<1>2. Comma \in Int /\ \A d \in Digit : d \in Int /\ d # Comma
  BY DEF Comma, Digit
<1>3. /\ DOMAIN parts = 1 .. n
      /\ \A i \in 1 .. n : parts[i] = IF Apart(i) THEN <<Comma, ds[i]>> ELSE <<ds[i]>>
  <2> HIDE DEF Apart
  <2> QED BY <1>1
<1> HIDE DEF Apart
<1>4. \A i \in 1 .. n : parts[i] \in Seq(Int)
  <2> TAKE i \in 1 .. n
  <2>1. ds[i] \in Int
    BY <1>1, <1>2
  <2>2. <<Comma, ds[i]>> \in Seq(Int) /\ <<ds[i]>> \in Seq(Int)
    BY <1>2, <2>1
  <2> QED BY <1>3, <2>2
<1>5. parts \in Seq(Seq(Int)) /\ Len(parts) = n
  <2>1. parts = [i \in 1 .. n |-> parts[i]]
    BY <1>1
  <2> HIDE DEF parts
  <2> QED BY <1>1, <1>3, <1>4, <2>1
<1>6. addThousandsSeparators(ds) = flat[n]
  <2>1. addThousandsSeparators(ds) = FlattenSeq(parts)
    BY DEF addThousandsSeparators, Apart
  <2> HIDE DEF parts
  <2> QED BY <1>1, <1>5, <2>1 DEF FlattenSeq
<1> HIDE DEF parts
<1>7. step \in [1 .. n -> [Seq(Int) -> Seq(Int)]]
  <2>1. ASSUME NEW i \in 1 .. n, NEW v \in Seq(Int) PROVE v \o parts[i] \in Seq(Int)
    BY <1>4
  <2> QED BY <2>1
<1>8. \A i \in 1 .. n : \A v \in Seq(Int) : step[i][v] = v \o parts[i]
  OBVIOUS
<1> HIDE DEF step
<1>9. PICK g : Follows(g, n, Seq(Int), << >>, step)
  <2>1. << >> \in Seq(Int)
    OBVIOUS
  <2> QED BY <1>1, <1>7, <2>1, FollowsExists
<1>10. g \in [0 .. n -> Seq(Int)] /\ g[0] = << >> /\ \A i \in 1 .. n : g[i] = g[i - 1] \o parts[i]
  <2>1. g \in [0 .. n -> Seq(Int)] /\ g[0] = << >> /\ \A i \in 1 .. n : g[i] = step[i][g[i - 1]]
    BY <1>9 DEF Follows
  <2>2. ASSUME NEW i \in 1 .. n PROVE g[i] = g[i - 1] \o parts[i]
    <3>1. g[i - 1] \in Seq(Int)
      BY <1>1, <2>1
    <3> QED BY <1>8, <2>1, <3>1
  <2> QED BY <2>1, <2>2
<1>11. 1 \in 1 .. n /\ g[1] = parts[1]
  <2>1. 1 \in 1 .. n /\ 1 - 1 = 0
    BY <1>1
  <2>2. g[1] = << >> \o parts[1] /\ parts[1] \in Seq(Int)
    BY <1>4, <1>10, <2>1
  <2> QED BY <2>1, <2>2
<1>12. Is([i \in 1 .. n |-> g[i]])
  <2> DEFINE h == [i \in 1 .. n |-> g[i]]
  <2>1. \A i \in 1 .. n : h[i] = IF i = 1 THEN parts[i] ELSE h[i - 1] \o parts[i]
    <3> TAKE i \in 1 .. n
    <3>1. CASE i = 1
      BY <1>11, <3>1
    <3>2. CASE i # 1
      <4>1. i - 1 \in 1 .. n
        BY <1>1, <3>2
      <4> QED BY <1>10, <3>2, <4>1
    <3> QED BY <3>1, <3>2
  <2>2. h = [i \in 1 .. n |-> h[i]]
    OBVIOUS
  <2> HIDE DEF h
  <2>3. Is(h)
    BY <1>5, <2>1, <2>2
  <2> QED BY <2>3 DEF h
<1>13. Is(flat)
  <2> HIDE DEF Is
  <2> QED BY <1>12
<1> HIDE DEF flat
<1>14. \A i \in 1 .. n : flat[i] = IF i = 1 THEN parts[i] ELSE flat[i - 1] \o parts[i]
  BY <1>5, <1>13
<1> HIDE DEF Is
<1> DEFINE pre(i) == [j \in 1 .. i |-> ds[j]]
           S == {i \in Nat : i + 1 <= n => flat[i + 1] = g[i + 1] /\ WithoutCommas(g[i + 1]) = pre(i + 1)}
<1>15. \A i \in 0 .. n : pre(i) \in Seq(Int)
  <2> TAKE i \in 0 .. n
  <2>1. \A j \in 1 .. i : ds[j] \in Int
    BY <1>1, <1>2
  <2> QED BY <1>1, <2>1
\* One part more, one digit more.
<1>16. ASSUME NEW i \in 0 .. n, i + 1 <= n, WithoutCommas(g[i]) = pre(i)
       PROVE  WithoutCommas(g[i + 1]) = pre(i + 1)
  <2> DEFINE d == ds[i + 1]
             v == g[i]
  <2>1. i + 1 \in 1 .. n /\ (i + 1) - 1 = i /\ i \in Nat
    BY <1>1, <1>16
  <2>2. d \in Int /\ d # Comma
    BY <1>1, <1>2, <2>1
  <2>3. v \in Seq(Int) /\ g[i + 1] = v \o parts[i + 1]
    BY <1>10, <2>1
  <2>4. Append(pre(i), d) = pre(i + 1)
    <3>1. pre(i) \in Seq(Int) /\ Len(pre(i)) = i
      BY <1>15, <2>1
    <3> QED BY <2>1, <2>2, <3>1
  <2> HIDE DEF v, pre
  <2>5. CASE Apart(i + 1)
    <3>1. parts[i + 1] = <<Comma, d>>
      BY <1>3, <2>1, <2>5
    <3> HIDE DEF d
    <3>2. v \o <<Comma, d>> = Append(Append(v, Comma), d) /\ Append(v, Comma) \in Seq(Int)
      BY <1>2, <2>2, <2>3
    <3>3. WithoutCommas(Append(v, Comma)) = WithoutCommas(v)
      BY <1>2, <2>3, WithoutAppend
    <3>4. WithoutCommas(Append(Append(v, Comma), d)) = Append(WithoutCommas(Append(v, Comma)), d)
      BY <2>2, <3>2, WithoutAppend
    <3> QED BY <1>16, <2>3, <2>4, <3>1, <3>2, <3>3, <3>4 DEF v
  <2>6. CASE ~Apart(i + 1)
    <3>1. parts[i + 1] = <<d>>
      BY <1>3, <2>1, <2>6
    <3> HIDE DEF d
    <3>2. v \o <<d>> = Append(v, d)
      BY <2>2, <2>3
    <3>4. WithoutCommas(Append(v, d)) = Append(WithoutCommas(v), d)
      BY <2>2, <2>3, WithoutAppend
    <3> QED BY <1>16, <2>3, <2>4, <3>1, <3>2, <3>4 DEF v
  <2> QED BY <2>5, <2>6
<1>17. 0 \in S
  <2>1. flat[1] = g[1] /\ 0 + 1 = 1
    BY <1>11, <1>14
  <2>2. WithoutCommas(g[0]) = pre(0)
    <3>1. pre(0) = << >>
      OBVIOUS
    <3> QED BY <1>10, <3>1, WithoutAppend
  <2>3. 0 \in 0 .. n /\ 0 + 1 <= n
    BY <1>1
  <2> HIDE DEF pre
  <2>4. WithoutCommas(g[0 + 1]) = pre(0 + 1)
    BY <1>16, <2>2, <2>3
  <2> QED BY <2>1, <2>4
<1>18. ASSUME NEW i \in Nat, i \in S PROVE i + 1 \in S
  <2> HIDE DEF pre
  <2> SUFFICES ASSUME (i + 1) + 1 <= n
               PROVE  flat[(i + 1) + 1] = g[(i + 1) + 1] /\ WithoutCommas(g[(i + 1) + 1]) = pre((i + 1) + 1)
    OBVIOUS
  <2>1. i + 1 \in 0 .. n /\ (i + 1) + 1 \in 1 .. n /\ ((i + 1) + 1) - 1 = i + 1 /\ (i + 1) + 1 # 1
    BY <1>1
  <2>2. flat[i + 1] = g[i + 1] /\ WithoutCommas(g[i + 1]) = pre(i + 1)
    BY <1>18, <2>1
  <2>3. flat[(i + 1) + 1] = g[(i + 1) + 1]
    <3> DEFINE j == (i + 1) + 1
    <3>1. j \in 1 .. n /\ j - 1 = i + 1 /\ j # 1
      BY <2>1
    <3> HIDE DEF j
    <3>2. flat[j] = flat[j - 1] \o parts[j] /\ g[j] = g[j - 1] \o parts[j]
      BY <1>10, <1>14, <3>1
    <3> QED BY <2>2, <3>1, <3>2 DEF j
  <2>4. WithoutCommas(g[(i + 1) + 1]) = pre((i + 1) + 1)
    BY <1>16, <2>1, <2>2
  <2> QED BY <2>3, <2>4
<1>19. Nat \subseteq S
  <2> HIDE DEF S
  <2> QED BY <1>17, <1>18, Induction
<1>20. flat[n] = g[n] /\ WithoutCommas(g[n]) = pre(n)
  <2>1. n - 1 \in Nat /\ (n - 1) + 1 = n
    BY <1>1
  <2> HIDE DEF pre, n
  <2>2. n - 1 \in S
    BY <1>19, <2>1
  <2> QED BY <1>1, <2>1, <2>2
<1>21. pre(n) = ds
  BY <1>1
<1> QED BY <1>6, <1>20, <1>21

\* Dropping the last digit of a quotient.
LEMMA DivTen ==
  \A x \in Nat : \A p \in Nat \ {0} :
    /\ x \div p \in Nat
    /\ x \div p = 10 * (x \div (10 * p)) + ((x \div p) % 10)
<1> SUFFICES ASSUME NEW x \in Nat, NEW p \in Nat \ {0}
             PROVE  x \div p \in Nat /\ x \div p = 10 * (x \div (10 * p)) + ((x \div p) % 10)
  OBVIOUS
<1> DEFINE y == x \div p
           q == y \div 10
           r == x % p
<1>1. y \in Nat /\ r \in 0 .. p - 1 /\ x = p * y + r
  OBVIOUS
<1> HIDE DEF y, r
<1>2. q \in Nat /\ y = 10 * q + (y % 10) /\ y % 10 \in 0 .. 9
  BY <1>1
<1> HIDE DEF q
<1> DEFINE s == p * (y % 10) + r
<1>3. x = (10 * p) * q + s
  BY <1>1, <1>2
<1>4. s \in 0 .. 10 * p - 1
  <2>1. \A c \in 0 .. 9 : p * c \in Nat /\ p * c <= 9 * p
    OBVIOUS
  <2> QED BY <1>1, <1>2, <2>1
<1> HIDE DEF s
<1>5. x \div (10 * p) = q
  <2>1. \A b \in Nat \ {0} : \A c \in 0 .. b - 1 : \A k \in Nat : (b * k + c) \div b = k
    OBVIOUS
  <2>2. 10 * p \in Nat \ {0}
    OBVIOUS
  <2> QED BY <1>2, <1>3, <1>4, <2>1, <2>2
<1> QED BY <1>1, <1>2, <1>5 DEF y

\* n.toString() has the digits of n, as few as will do.
LEMMA DigitsOfIs ==
  ASSUME NEW x \in Nat, x < Pow(10, MaxDigits)
  PROVE  /\ DigitsOf(x) \in Seq(Digit) /\ DigitsOf(x) # << >> /\ Numeral(DigitsOf(x)) = x
         /\ \A d \in Nat \ {0} : x < Pow(10, d) => Len(DigitsOf(x)) <= d
         /\ Len(DigitsOf(x)) > 1 => Head(DigitsOf(x)) # 0
<1> DEFINE T == {k \in 1 .. MaxDigits : x < Pow(10, k)}
           L == Min(T)
           D(i) == (x \div Pow(10, L - i)) % 10
           ds == [i \in 1 .. L |-> D(i)]
<1>0. MaxDigits \in Nat \ {0}
  BY AmountAssumption
<1>1. L \in T /\ \A k \in T : L <= k
  <2>1. T \in SUBSET Nat /\ T # {}
    BY <1>0
  <2> HIDE DEF T
  <2>2. \E m \in T : \A k \in T : m <= k
    BY <2>1, LeastNat
  <2> QED BY <2>2 DEF Min
<1> HIDE DEF L
<1>2. L \in 1 .. MaxDigits /\ L \in Nat /\ x < Pow(10, L)
  BY <1>0, <1>1
<1>3. DigitsOf(x) = ds
  BY DEF DigitsOf, L
<1>4. \A i \in 0 .. L : Pow(10, L - i) \in Nat \ {0} /\ x \div Pow(10, L - i) \in Nat
  <2> TAKE i \in 0 .. L
  <2>1. L - i \in Nat
    BY <1>2
  <2>2. Pow(10, L - i) \in Nat \ {0}
    BY <2>1, TenIs
  <2> QED BY <2>2, DivTen
<1>5. \A i \in 1 .. L : D(i) \in Digit
  <2> TAKE i \in 1 .. L
  <2>1. x \div Pow(10, L - i) \in Nat
    BY <1>2, <1>4
  <2>2. \A y \in Nat : y % 10 \in Digit
    BY DEF Digit
  <2> QED BY <2>1, <2>2
<1>6. ds \in Seq(Digit) /\ ds \in Seq(Int) /\ Len(ds) = L /\ \A i \in 1 .. L : ds[i] = D(i)
  <2> HIDE DEF D
  <2>1. \A i \in 1 .. L : D(i) \in Int
    BY <1>5 DEF Digit
  <2> QED BY <1>2, <1>5, <2>1
<1> HIDE DEF ds
<1>7. Numeral(ds) = x
  <2> DEFINE f == [k \in 0 .. L |-> x \div Pow(10, L - k)]
  <2>1. \A k \in 0 .. L : f[k] = x \div Pow(10, L - k)
    OBVIOUS
  <2> HIDE DEF f
  <2>2. f[0] = 0
    <3>1. f[0] = x \div Pow(10, L) /\ Pow(10, L) \in Nat \ {0}
      <4>1. 0 \in 0 .. L /\ L - 0 = L
        BY <1>2
      <4>2. Pow(10, L - 0) \in Nat \ {0}
        BY <1>4, <4>1
      <4> QED BY <2>1, <4>1, <4>2
    <3>2. \A p \in Nat \ {0} : x < p => x \div p = 0
      OBVIOUS
    <3> QED BY <1>2, <3>1, <3>2
  <2>3. ASSUME NEW k \in 1 .. Len(ds) PROVE f[k] = 10 * f[k - 1] + ds[k]
    <3> DEFINE p == Pow(10, L - k)
    <3>1. k \in 1 .. L /\ k \in 0 .. L /\ k - 1 \in 0 .. L /\ L - k \in Nat /\ L - (k - 1) = (L - k) + 1
      BY <1>2, <1>6
    <3>2. p \in Nat \ {0} /\ Pow(10, (L - k) + 1) = 10 * p
      BY <3>1, TenIs
    <3>3. f[k] = x \div p /\ f[k - 1] = x \div (10 * p) /\ ds[k] = (x \div p) % 10
      <4>1. Pow(10, L - (k - 1)) = 10 * p
        BY <3>1, <3>2
      <4> QED BY <1>6, <2>1, <3>1, <4>1
    <3> HIDE DEF p
    <3> QED BY <3>2, <3>3, DivTen
  <2>4. f[L] = x
    <3>1. L \in 0 .. L /\ L - L = 0
      BY <1>2
    <3>2. x \div 1 = x
      OBVIOUS
    <3>3. f[L] = x \div Pow(10, 0)
      BY <2>1, <3>1
    <3> QED BY <3>2, <3>3, TenIs
  <2> QED BY <1>6, <2>2, <2>3, <2>4, NumeralOf
<1>8. ASSUME NEW d \in Nat \ {0}, x < Pow(10, d) PROVE L <= d
  BY <1>0, <1>1, <1>2, <1>8
<1>9. ASSUME L > 1 PROVE ds[1] # 0
  <2> DEFINE p == Pow(10, L - 1)
  <2>1. 1 \in 1 .. L /\ L - 1 \in Nat /\ (L - 1) + 1 = L /\ L - 1 \in 1 .. MaxDigits /\ ~(L <= L - 1)
    BY <1>0, <1>2, <1>9
  <2>2. p \in Nat \ {0} /\ Pow(10, (L - 1) + 1) = 10 * p
    BY <2>1, TenIs
  <2>3. ~(x < p)
    BY <1>1, <2>1
  <2>4. x < 10 * p
    BY <1>2, <2>1, <2>2
  <2>5. ds[1] = (x \div p) % 10
    BY <1>6, <2>1
  <2> HIDE DEF p
  <2>6. x \div p \in 1 .. 9
    <3>1. \A a \in Nat : \A b \in Nat \ {0} : ~(a < b) /\ a < 10 * b => a \div b \in 1 .. 9
      <4> SUFFICES ASSUME NEW a \in Nat, NEW b \in Nat \ {0}, ~(a < b), a < 10 * b PROVE a \div b \in 1 .. 9
        OBVIOUS
      <4>1. a \div b \in Nat /\ a % b \in 0 .. b - 1 /\ a = b * (a \div b) + (a % b)
        OBVIOUS
      <4>2. \A q \in Nat : q >= 10 => b * q >= 10 * b
        OBVIOUS
      <4>3. a \div b = 0 => b * (a \div b) = 0
        OBVIOUS
      <4> QED BY <4>1, <4>2, <4>3
    <3> QED BY <2>2, <2>3, <2>4, <3>1
  <2>7. \A c \in 1 .. 9 : c % 10 # 0
    OBVIOUS
  <2> QED BY <2>5, <2>6, <2>7
<1>10. ds # << >> /\ Head(ds) = ds[1]
  BY <1>2, <1>6
<1> QED BY <1>3, <1>6, <1>7, <1>8, <1>9, <1>10

\* Zeros in front change nothing.
LEMMA PadStart ==
  ASSUME NEW s \in Seq(Digit), NEW d \in Nat, Len(s) <= d
  PROVE  padStart(s, d) \in Seq(Digit) /\ Len(padStart(s, d)) = d /\ Numeral(padStart(s, d)) = Numeral(s)
<1> DEFINE z == Zeros(d - Len(s))
<1>1. d - Len(s) \in Nat /\ s \in Seq(Int)
  BY DEF Digit
<1>2. z \in Seq(Int) /\ Len(z) = d - Len(s) /\ Numeral(z) = 0 /\ \A k \in 1 .. Len(z) : z[k] = 0
  BY <1>1, ZerosIs
<1>3. z \in Seq(Digit)
  <2>1. \A k \in 1 .. Len(z) : z[k] \in Digit
    BY <1>2 DEF Digit
  <2> HIDE DEF z
  <2> QED BY <1>2, <2>1
<1>4. padStart(s, d) = z \o s
  BY DEF padStart
<1> HIDE DEF z
<1>5. z \o s \in Seq(Digit) /\ Len(z \o s) = d
  BY <1>2, <1>3
<1>6. Numeral(z \o s) = 0 * Pow(10, Len(s)) + Numeral(s) /\ Numeral(s) \in Int
  BY <1>1, <1>2, NumeralConcat
<1>7. Pow(10, Len(s)) \in Int
  BY TenIs
<1>8. \A p, q \in Int : 0 * p + q = q
  OBVIOUS
<1> QED BY <1>4, <1>5, <1>6, <1>7, <1>8

\* Zeros at the end multiply.
LEMMA PadEnd ==
  ASSUME NEW s \in Seq(Int), NEW d \in Nat, Len(s) <= d
  PROVE  Numeral(padEnd(s, d)) = Numeral(s) * Pow(10, d - Len(s))
<1> DEFINE z == Zeros(d - Len(s))
<1>1. d - Len(s) \in Nat
  OBVIOUS
<1>2. z \in Seq(Int) /\ Len(z) = d - Len(s) /\ Numeral(z) = 0
  BY <1>1, ZerosIs
<1>4. padEnd(s, d) = s \o z
  BY DEF padEnd
<1> HIDE DEF z
<1>6. Numeral(s \o z) = Numeral(s) * Pow(10, d - Len(s)) + 0 /\ Numeral(s) \in Int
  BY <1>2, NumeralConcat
<1>7. Pow(10, d - Len(s)) \in Int
  BY <1>1, TenIs
<1>8. \A p, q \in Int : p * q + 0 = p * q
  OBVIOUS
<1> QED BY <1>4, <1>6, <1>7, <1>8

\* Trimming takes only zeros off the end, all of them, and padEnd puts them back.
LEMMA TrimZerosIs ==
  ASSUME NEW s \in Seq(Digit)
  PROVE  /\ TrimZeros(s) \in Seq(Digit) /\ Len(TrimZeros(s)) <= Len(s)
         /\ padEnd(TrimZeros(s), Len(s)) = s
         /\ TrimZeros(s) # << >> => Last(TrimZeros(s)) # 0
         /\ TrimZeros(s) = << >> => Numeral(s) = 0
<1> DEFINE l == Len(s)
           T == {0} \cup {i \in DOMAIN s : s[i] # 0}
           m == Max(T)
           t == SubSeq(s, 1, m)
<1>1. l \in Nat /\ DOMAIN s = 1 .. l /\ s \in [1 .. l -> Digit]
  OBVIOUS
<1>2. m \in T /\ \A i \in T : m >= i
  <2> DEFINE U == {k \in 0 .. l : \A i \in T : k >= i}
  <2>1. U \in SUBSET Nat /\ l \in U
    BY <1>1
  <2> HIDE DEF U
  <2>2. PICK u \in U : \A k \in U : u <= k
    BY <2>1, LeastNat
  <2>3. u \in 0 .. l /\ \A i \in T : u >= i
    BY <2>2 DEF U
  <2>4. u \in T
    <3> SUFFICES ASSUME u \notin T PROVE FALSE
      OBVIOUS
    <3>1. u # 0 /\ u - 1 \in 0 .. l /\ T \subseteq 0 .. l
      BY <1>1, <2>3
    <3>2. \A i \in T : u - 1 >= i
      <4> TAKE i \in T
      <4>1. i \in Nat /\ u >= i /\ i # u
        BY <2>3, <3>1
      <4> HIDE DEF T
      <4> QED BY <2>3, <4>1
    <3>3. u - 1 \in U
      BY <3>1, <3>2 DEF U
    <3> QED BY <2>2, <2>3, <3>3
  <2> HIDE DEF T
  <2> QED BY <2>3, <2>4 DEF Max
<1> HIDE DEF m
<1>3. m \in 0 .. l /\ (m # 0 => s[m] # 0) /\ \A i \in 1 .. l : i > m => s[i] = 0
  <2>1. m \in 0 .. l /\ (m # 0 => s[m] # 0)
    BY <1>1, <1>2
  <2>2. \A i \in 1 .. l : i > m => s[i] = 0
    <3> TAKE i \in 1 .. l
    <3>1. s[i] # 0 => i \in T
      BY <1>1
    <3> HIDE DEF T
    <3> QED BY <1>1, <1>2, <2>1, <3>1
  <2> QED BY <2>1, <2>2
<1>4. TrimZeros(s) = t
  BY DEF TrimZeros, m
<1>5. t \in Seq(Digit) /\ Len(t) = m /\ \A i \in 1 .. m : t[i] = s[i]
  BY <1>1, <1>3
<1> HIDE DEF t, T
<1> DEFINE z == Zeros(l - m)
<1>6. l - m \in Nat
  BY <1>1, <1>3
<1>7. z \in Seq(Int) /\ Len(z) = l - m /\ (\A k \in 1 .. l - m : z[k] = 0) /\ Numeral(z) = 0
  BY <1>6, ZerosIs
<1>8. padEnd(t, l) = t \o z
  BY <1>5 DEF padEnd
<1> HIDE DEF z
<1>9. t \o z = s
  <2> DEFINE u == t \o z
  <2>1. t \in Seq(Int) /\ s \in Seq(Int)
    BY <1>5 DEF Digit
  <2>2. u \in Seq(Int) /\ Len(u) = Len(t) + Len(z)
    BY <1>7, <2>1
  <2>3. (\A i \in 1 .. Len(t) : u[i] = t[i]) /\ \A i \in 1 .. Len(z) : u[Len(t) + i] = z[i]
    BY <1>7, <2>1
  <2> HIDE DEF u, l
  <2>4. Len(u) = l
    BY <1>1, <1>3, <1>5, <1>7, <2>2
  <2>5. ASSUME NEW i \in 1 .. l PROVE u[i] = s[i]
    <3>1. CASE i <= m
      <4>1. i \in 1 .. m
        BY <1>1, <1>3, <3>1
      <4> QED BY <1>5, <2>3, <4>1
    <3>2. CASE i > m
      <4>1. i - m \in 1 .. l - m /\ s[i] = 0 /\ m + (i - m) = i
        BY <1>1, <1>3, <3>2
      <4>2. u[m + (i - m)] = z[i - m]
        BY <1>5, <1>7, <2>3, <4>1
      <4> QED BY <1>7, <4>1, <4>2
    <3> QED BY <1>1, <1>3, <3>1, <3>2
  <2>6. u = s
    <3>1. \A q \in Seq(Int) : q = [i \in 1 .. Len(q) |-> q[i]]
      OBVIOUS
    <3>2. u = [i \in 1 .. l |-> u[i]] /\ s = [i \in 1 .. l |-> s[i]]
      BY <2>1, <2>2, <2>4, <3>1 DEF l
    <3> QED BY <2>5, <3>2
  <2> QED BY <2>6 DEF u
<1>10. t # << >> => Last(t) # 0
  <2> SUFFICES ASSUME t # << >> PROVE Last(t) # 0
    OBVIOUS
  <2>1. m # 0 /\ m \in 1 .. m
    BY <1>3, <1>5
  <2> QED BY <1>3, <1>5, <2>1 DEF Last
<1>11. t = << >> => Numeral(s) = 0
  <2> SUFFICES ASSUME t = << >> PROVE Numeral(s) = 0
    OBVIOUS
  <2>1. << >> \o z = z
    BY <1>7
  <2> QED BY <1>7, <1>9, <2>1
<1> QED BY <1>1, <1>3, <1>4, <1>5, <1>8, <1>9, <1>10, <1>11

\* An amount above zero, shown, is read back, and it is shown without
\* superfluous zeros.
ShownIsRead(v, d) ==
  LET shown == formatTokenAmount(v, d)
      typed == Number(WithoutCommas(shown.whole), shown.frac)
  IN /\ parseTokenAmount(typed, d) = [kind |-> "ok", value |-> v]
     /\ typed.frac # << >> => Last(typed.frac) # 0
     /\ Len(typed.whole) > 1 => Head(typed.whole) # 0

\* What formatTokenAmount shows parseTokenAmount reads.
LEMMA FormatRead ==
  ASSUME NEW v \in 1 .. MaxAmount, NEW d \in 0 .. 255
  PROVE  ShownIsRead(v, d)
<1> DEFINE base == Pow(10, d)
           q == v \div base
           r == v % base
           w == DigitsOf(q)
           p == padStart(DigitsOf(r), d)
           t == IF d > 0 THEN TrimZeros(p) ELSE << >>
           shown == formatTokenAmount(v, d)
           typed == Number(w, t)
<1>1. MaxAmount \in Nat /\ MaxAmount < Pow(10, MaxDigits) /\ Pow(10, MaxDigits) \in Nat /\ d \in Nat /\ v \in Nat
  BY AmountAssumption, TenIs
<1>2. base \in Nat \ {0}
  BY <1>1, TenIs
<1>3. q \in Nat /\ r \in Nat /\ r < base /\ q <= v /\ r <= v /\ q * base + r = v
  <2>1. \A a \in Nat : \A b \in Nat \ {0} :
          /\ a \div b \in Nat /\ a % b \in Nat /\ a % b < b /\ (a \div b) * b + (a % b) = a
    OBVIOUS
  <2>2. \A a, c \in Nat : \A b \in Nat \ {0} : a <= a * b + c /\ c <= a * b + c
    OBVIOUS
  <2> HIDE DEF base
  <2>3. q \in Nat /\ r \in Nat /\ r < base /\ q * base + r = v
    BY <1>1, <1>2, <2>1
  <2> HIDE DEF q, r
  <2> QED BY <1>2, <2>2, <2>3
<1> HIDE DEF base
<1>4. q < Pow(10, MaxDigits) /\ r < Pow(10, MaxDigits)
  <2> HIDE DEF q, r
  <2> QED BY <1>1, <1>3
<1> HIDE DEF q, r
<1>5. w \in Seq(Digit) /\ w # << >> /\ Numeral(w) = q /\ (Len(w) > 1 => Head(w) # 0)
  BY <1>3, <1>4, DigitsOfIs
<1>6. shown.whole = addThousandsSeparators(w) /\ shown.frac = t
  <2>1. ~(v < 0)
    BY <1>1
  <2> QED BY <2>1 DEF formatTokenAmount, base, q, r
<1> HIDE DEF w
<1>7. WithoutCommas(shown.whole) = w
  BY <1>5, <1>6, SeparatorsDropped
<1>8. /\ t \in Seq(Digit) /\ Len(t) <= d /\ (t # << >> => Last(t) # 0)
      /\ (IF t = << >> THEN 0 ELSE Numeral(padEnd(t, d))) = r
  <2>1. CASE d = 0
    <3>1. t = << >> /\ << >> \in Seq(Digit) /\ Len(<< >>) = 0
      BY <2>1
    <3>2. r = 0
      <4>1. base = 1
        BY <2>1, TenIs DEF base
      <4> QED BY <1>3, <4>1
    <3> HIDE DEF t
    <3> QED BY <2>1, <3>1, <3>2
  <2>2. CASE d > 0
    <3> DEFINE s == DigitsOf(r)
    <3>1. s \in Seq(Digit) /\ Numeral(s) = r /\ Len(s) <= d
      BY <1>1, <1>3, <1>4, <2>2, DigitsOfIs DEF base
    <3>2. p \in Seq(Digit) /\ Len(p) = d /\ Numeral(p) = r
      BY <1>1, <3>1, PadStart
    <3>3. t = TrimZeros(p)
      BY <2>2
    <3> HIDE DEF p, t
    <3> QED BY <1>1, <3>2, <3>3, TrimZerosIs
  <2> QED BY <1>1, <2>1, <2>2
<1> HIDE DEF t, shown
<1>9. typed.whole = w /\ typed.frac = t /\ typed.form = "number"
  BY DEF Number
<1> HIDE DEF typed
<1>10. parseTokenAmount(typed, d) = [kind |-> "ok", value |-> v]
  <2> DEFINE value == Numeral(typed.whole) * Pow(10, d)
                      + (IF typed.frac = << >> THEN 0 ELSE Numeral(padEnd(typed.frac, d)))
  <2>1. value = v
    BY <1>3, <1>5, <1>8, <1>9 DEF base
  <2>2. ~(value <= 0) /\ ~(value > MaxAmount) /\ ~(Len(typed.frac) > d)
    <3> HIDE DEF value
    <3> QED BY <1>1, <1>8, <1>9, <2>1
  <2>3. parseTokenAmount(typed, d) =
          IF Len(typed.frac) > d THEN Refusal("too-many-fractional-digits")
          ELSE IF value <= 0 THEN Refusal("not-positive")
          ELSE IF value > MaxAmount THEN Refusal("exceeds-max")
          ELSE [kind |-> "ok", value |-> value]
    BY <1>9 DEF parseTokenAmount
  <2> HIDE DEF value
  <2> QED BY <2>1, <2>2, <2>3
<1>11. typed = Number(WithoutCommas(shown.whole), shown.frac)
  BY <1>6, <1>7 DEF typed
<1> QED BY <1>5, <1>8, <1>9, <1>10, <1>11 DEF ShownIsRead, shown

\* What is accepted is the typed decimal times the scale.
LEMMA ParseExact ==
  ASSUME NEW t \in Typed, NEW d \in Int, parseTokenAmount(Number(t.whole, t.frac), d).kind = "ok"
  PROVE  /\ d \in 0 .. 255
         /\ parseTokenAmount(Number(t.whole, t.frac), d).value * Pow(10, Len(t.frac))
              = Numeral(t.whole \o t.frac) * Pow(10, d)
<1> DEFINE text == Number(t.whole, t.frac)
           w == t.whole
           f == t.frac
           value == Numeral(w) * Pow(10, d) + (IF f = << >> THEN 0 ELSE Numeral(padEnd(f, d)))
           result == parseTokenAmount(text, d)
<1>1. w \in Seq(Int) /\ f \in Seq(Int)
  <2>1. \A s \in Seq(Digit) : s \in Seq(Int)
    BY DEF Digit
  <2>2. w \in Seq(Digit) /\ f \in Seq(Digit)
    BY AmountAssumption
  <2> QED BY <2>1, <2>2
<1>2. text.whole = w /\ text.frac = f /\ text.form = "number"
  BY DEF Number
<1> HIDE DEF text, w, f
<1>3. d \in 0 .. 255
  BY <1>2 DEF parseTokenAmount, Refusal, text, w, f
<1>4. result = IF Len(f) > d THEN Refusal("too-many-fractional-digits")
               ELSE IF value <= 0 THEN Refusal("not-positive")
               ELSE IF value > MaxAmount THEN Refusal("exceeds-max")
               ELSE [kind |-> "ok", value |-> value]
  BY <1>2, <1>3 DEF parseTokenAmount
<1>5. result.kind = "ok"
  BY DEF text, w, f
<1> HIDE DEF value, result
<1>6. ~(Len(f) > d) /\ result.value = value
  BY <1>4, <1>5 DEF Refusal
<1> DEFINE n == Len(f)
           W == Numeral(w)
           F == Numeral(f)
           A == Pow(10, n)
           B == Pow(10, d - n)
<1>7. n \in Nat /\ d \in Nat /\ d - n \in Nat /\ n <= d /\ n + (d - n) = d
  BY <1>1, <1>3, <1>6
<1>8. Numeral(w \o f) = W * A + F /\ W \in Int /\ F \in Int
  BY <1>1, NumeralConcat
<1>9. A \in Int /\ B \in Int /\ Pow(10, d) = A * B
  <2>1. \A k \in Nat : Pow(10, n + k) = Pow(10, n) * Pow(10, k)
    BY <1>7, PowSum
  <2>2. Pow(10, n + (d - n)) = A * B
    BY <1>7, <2>1
  <2>3. A \in Int /\ B \in Int
    BY <1>7, TenIs
  <2> HIDE DEF n, A, B
  <2> QED BY <1>7, <2>2, <2>3
<1>10. value = W * (A * B) + F * B
  <2>1. CASE f = << >>
    <3>1. F = 0
      <4>1. << >> \in Seq(Int) /\ Len(<< >>) = 0
        OBVIOUS
      <4> QED BY <2>1, <4>1, NumeralIs
    <3>2. 0 * B = 0
      BY <1>9
    <3> HIDE DEF W, A, B, F
    <3> QED BY <1>9, <2>1, <3>1, <3>2 DEF value, W
  <2>2. CASE f # << >>
    <3>1. Numeral(padEnd(f, d)) = F * B
      BY <1>1, <1>7, PadEnd
    <3> HIDE DEF A, B, F
    <3> QED BY <1>9, <2>2, <3>1 DEF value, W
  <2> QED BY <2>1, <2>2
<1>11. \A a, b, x, y \in Int : (x * (a * b) + y * b) * a = (x * a + y) * (a * b)
  OBVIOUS
<1> HIDE DEF n, W, F, A, B
<1>12. value * A = Numeral(w \o f) * Pow(10, d)
  BY <1>8, <1>9, <1>10, <1>11
<1> QED BY <1>3, <1>6, <1>12 DEF result, text, w, f, A, n

\* For every text of digits, scale, maximum and balance: parseTokenAmount is
\* exact, and what formatTokenAmount shows is read back to the same base units.
THEOREM AmountsRoundTrip == AmountSpec => []AmountRoundTrip
<1>1. AmountInit => AmountRoundTrip
  BY DEF AmountInit, Untouched, AmountRoundTrip
<1>2. ASSUME AmountRoundTrip, [AmountNext]_field PROVE AmountRoundTrip'
  <2>1. CASE UNCHANGED field
    BY <1>2, <2>1 DEF AmountRoundTrip, Retyped
  <2>3. ASSUME NEW d \in Decimals, NEW t \in Typed, Submit(Number(t.whole, t.frac), d)
        PROVE  AmountRoundTrip'
    <3> DEFINE text == Number(t.whole, t.frac)
               r == parseTokenAmount(text, d)
    <3>1. /\ field'.decimals = d /\ field'.text = text /\ field'.result = r
          /\ field'.shown = IF r.kind = "ok" THEN formatTokenAmount(r.value, d) ELSE NotShown
      BY <2>3 DEF Submit
    <3>2. text.whole = t.whole /\ text.frac = t.frac
      BY DEF Number
    <3>3. d \in Int
      BY AmountAssumption
    <3>4. CASE r.kind = "ok"
      <4>1. d \in 0 .. 255 /\ r.value * Pow(10, Len(text.frac)) = Numeral(text.whole \o text.frac) * Pow(10, d)
        BY <3>2, <3>3, <3>4, ParseExact
      <4> HIDE DEF text, r
      <4>2. r.value \in 1 .. MaxAmount => ShownIsRead(r.value, d)
        BY <4>1, FormatRead
      <4> QED BY <3>1, <3>4, <4>1, <4>2 DEF AmountRoundTrip, Retyped, ShownIsRead
    <3>5. CASE r.kind # "ok"
      <4>1. r.kind # "balance"
        BY <3>5 DEF parseTokenAmount, Refusal, Number
      <4> HIDE DEF text, r
      <4> QED BY <3>1, <3>5, <4>1 DEF AmountRoundTrip
    <3> QED BY <3>4, <3>5
  <2>4. ASSUME NEW d \in Decimals, NEW text \in {Nothing, Garbled}, Submit(text, d)
        PROVE  AmountRoundTrip'
    <3>1. parseTokenAmount(text, d).kind \notin {"ok", "balance"}
      <4>1. text.form \in {"empty", "garbled"}
        BY DEF Nothing, Garbled
      <4> QED BY <4>1 DEF parseTokenAmount, Refusal
    <3>2. field'.result = parseTokenAmount(text, d)
      BY <2>4 DEF Submit
    <3> QED BY <3>1, <3>2 DEF AmountRoundTrip
  <2>5. ASSUME NEW d \in Decimals, NEW v \in Balances, ShowBalance(v, d)
        PROVE  AmountRoundTrip'
    <3>1. /\ field'.decimals = d /\ field'.text = Nothing /\ d \in 0 .. 255 /\ field'.result.value = v
          /\ field'.shown = formatTokenAmount(v, d) /\ field'.result.kind = "balance"
      BY <2>5 DEF ShowBalance
    <3>2. v \in 1 .. MaxAmount => ShownIsRead(v, d)
      BY <3>1, FormatRead
    <3> QED BY <3>1, <3>2 DEF AmountRoundTrip, Retyped, ShownIsRead
  <2> QED BY <1>2, <2>1, <2>3, <2>4, <2>5 DEF AmountNext
<1> QED BY <1>1, <1>2, PTL DEF AmountSpec
=============================================================================
