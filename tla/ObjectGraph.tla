----------------------------- MODULE ObjectGraph -----------------------------
(***************************************************************************)
(* The JavaScript values that the logger and the JSON helpers walk over: a *)
(* graph of objects, possibly shared (diamonds) and cyclic.  An object is  *)
(* a plain record, an array, an instance of a class, which has fields of   *)
(* its own as well (an Error or a Map has none that JSON.stringify sees),  *)
(* an instance with a toJSON (a Date), or stands for a bigint.  An array's *)
(* elements are kept under the same names, as its indices.                 *)
(***************************************************************************)
EXTENDS Naturals, FiniteSets, Sequences, SequencesExt

CONSTANTS
  Root,      \* the record a walk begins with
  Obj,       \* the other objects
  NameSeq,   \* the field names, in the order Object.entries lists them
  Fields,    \* the contents the root may have: name -> value
  Heaps      \* the graphs the other objects may form: object -> [kind, fields]

VARIABLE heap   \* object -> [kind, fields]

Name == Range(NameSeq)
Absent == "absent"
Leaf == "string"
Value == Obj \cup {Absent, Leaf}
Node == [kind : {"record", "array", "instance", "date", "bigint"}, fields : [Name -> Value]]

ASSUME GraphAssumption ==
  /\ Root \notin Obj /\ IsFiniteSet(Obj)
  /\ (Obj \cup {Root}) \cap {Absent, Leaf, "bigint", "[redacted]", "[circular]"} = {}
  /\ NameSeq \in Seq(Name)
  /\ \A j, k \in DOMAIN NameSeq : NameSeq[j] = NameSeq[k] => j = k
  /\ Fields \subseteq [Name -> Value] /\ Heaps \subseteq [Obj -> Node]

Graph(fields, objects) ==
  [o \in Obj \cup {Root} |-> IF o = Root THEN [kind |-> "record", fields |-> fields] ELSE objects[o]]

IsObject(v) == v \in Obj \cup {Root}

\* The objects whose fields JSON.stringify enters.
Container(v) == IsObject(v) /\ heap[v].kind \in {"record", "array", "instance"}
KindOf(v) == IF IsObject(v) THEN heap[v].kind ELSE v

-----------------------------------------------------------------------------
FieldOf(v, n) == IF Container(v) THEN heap[v].fields[n] ELSE Absent

\* The root, and what each name of a path leads to from there.
Along(p) ==
  LET v[k \in 0 .. Len(p)] == IF k = 0 THEN Root ELSE FieldOf(v[k - 1], p[k]) IN v
ValueAt(p) == Along(p)[Len(p)]

\* The paths of field names from the root that enter no object twice.
Path == UNION {[1 .. k -> Name] : k \in 1 .. Cardinality(Obj) + 1}
Reached ==
  {p \in Path : /\ ValueAt(p) # Absent
                /\ \A j, k \in 0 .. Len(p) - 1 : Along(p)[j] = Along(p)[k] => j = k}

\* The value at the end of p is an object p came through.
Closes(p) == \E k \in 0 .. Len(p) - 1 : Along(p)[k] = ValueAt(p)

-----------------------------------------------------------------------------
\* A walk keeps a frame [obj, i] for every object it is inside of, i the next
\* entry, and goes on with the entry of the last.
TopOf(frames) == frames[Len(frames)]
EntryAt(frames) == heap[TopOf(frames).obj].fields[NameSeq[TopOf(frames).i]]
Inside(frames) == {frames[k].obj : k \in 1 .. Len(frames)}
PathTo(frames) == [k \in 1 .. Len(frames) |-> NameSeq[frames[k].i]]
Advanced(frames) == [frames EXCEPT ![Len(frames)].i = @ + 1]
Entering(frames) == Append(frames, [obj |-> EntryAt(frames), i |-> 1])

\* What a walk preserves: the frames are the objects of one path.
GraphOK == heap \in [Obj \cup {Root} -> Node] /\ heap[Root].kind = "record"

Frame == [obj : Obj \cup {Root}, i : 1 .. Len(NameSeq) + 1]

OnPath(frames) ==
  /\ frames \in Seq(Frame)
  /\ frames # << >> /\ frames[1].obj = Root
  /\ \A k \in 1 .. Len(frames) : Container(frames[k].obj)
  /\ \A k \in 1 .. Len(frames) - 1 :
       /\ frames[k].i <= Len(NameSeq)
       /\ frames[k + 1].obj = heap[frames[k].obj].fields[NameSeq[frames[k].i]]
  /\ \A j, k \in 1 .. Len(frames) : frames[j].obj = frames[k].obj => j = k

\* The walk is past p and all that is below it.
Behind(frames, p) ==
  \E k \in 1 .. Len(frames) :
    /\ k <= Len(p) /\ \A j \in 1 .. k - 1 : p[j] = NameSeq[frames[j].i]
    /\ \E m \in 1 .. frames[k].i - 1 : p[k] = NameSeq[m]
=============================================================================
