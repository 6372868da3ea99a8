---------------------------- MODULE JsonPayload ----------------------------
(***************************************************************************)
(* truncateJsonPayload of packages/indexer/squid-common/src/json.ts: the   *)
(* replacer of one JSON.stringify call adds up an estimate of the size and *)
(* answers undefined once the budget is exceeded.  JSON.stringify visits   *)
(* depth first, calls the replacer before it looks at a value, and throws  *)
(* on a bigint or an object it is already inside of.                       *)
(***************************************************************************)
EXTENDS ObjectGraph

CONSTANTS
  Budgets,        \* the byte budgets to choose from
  StringLength    \* the length of the strings in the graphs

ASSUME BudgetAssumption == Budgets \subseteq Nat /\ StringLength \in Nat

VARIABLES
  byteBudget,
  accumulated,
  visiting,   \* the objects JSON.stringify is inside of: frames [obj, i]
  verdict     \* "none", "visiting", "ok", "too-large" or "non-serializable"

jsonVars == <<heap, byteBudget, accumulated, visiting, verdict>>

JsonInit ==
  /\ byteBudget = 0 /\ accumulated = 0
  /\ visiting = << >> /\ verdict = "none"

-----------------------------------------------------------------------------
\* What the replacer adds for a value; a date arrives as its toJSON.
Estimate(v) == IF KindOf(v) \in {Leaf, "date"} THEN StringLength ELSE 10

\* Fault: the limit is checked before the value is added.
OverLimitBefore(v) == accumulated > byteBudget

\* The value takes the estimate over the budget.
OverLimit(v) == accumulated + Estimate(v) > byteBudget

\* A primitive payload is passed at once.
TruncatePrimitive ==
  /\ verdict = "none"
  /\ verdict' = "ok"
  /\ UNCHANGED <<heap, byteBudget, accumulated, visiting>>

\* The call: the replacer sees the payload itself first.
Truncate(budget) ==
  /\ verdict = "none"
  /\ byteBudget' = budget
  /\ \E fields \in Fields, objects \in Heaps : heap' = Graph(fields, objects)
  /\ accumulated' = 10
  /\ visiting' = <<[obj |-> Root, i |-> 1]>>
  /\ verdict' = IF 10 > budget THEN "too-large" ELSE "visiting"

Visits(v) ==
  verdict = "visiting" /\ TopOf(visiting).i <= Len(NameSeq) /\ v = EntryAt(visiting)

VisitNothing ==
  /\ Visits(Absent)
  /\ visiting' = Advanced(visiting)
  /\ UNCHANGED <<heap, byteBudget, accumulated, verdict>>

\* Past the budget every later call of the replacer answers undefined.
VisitExceeds(v) ==
  /\ Visits(v) /\ OverLimit(v)
  /\ verdict' = "too-large"
  /\ UNCHANGED <<heap, byteBudget, accumulated, visiting>>

\* JSON.stringify throws, the catch answers.
VisitThrows(v) ==
  /\ Visits(v) /\ ~OverLimit(v)
  /\ KindOf(v) = "bigint" \/ v \in Inside(visiting)
  /\ verdict' = "non-serializable"
  /\ UNCHANGED <<heap, byteBudget, accumulated, visiting>>

VisitAdds(v) ==
  /\ Visits(v) /\ ~OverLimit(v)
  /\ KindOf(v) # "bigint" /\ v \notin Inside(visiting)
  /\ accumulated' = accumulated + Estimate(v)
  /\ visiting' = IF Container(v) THEN Entering(visiting) ELSE Advanced(visiting)
  /\ UNCHANGED <<heap, byteBudget, verdict>>

\* An object is over; after the payload itself the call returns.
VisitLeaves ==
  /\ verdict = "visiting" /\ TopOf(visiting).i > Len(NameSeq)
  /\ visiting' = IF Len(visiting) > 1 THEN Advanced(Front(visiting)) ELSE << >>
  /\ verdict' = IF Len(visiting) > 1 THEN verdict ELSE "ok"
  /\ UNCHANGED <<heap, byteBudget, accumulated>>

Truncated == verdict \in {"ok", "too-large", "non-serializable"}

JsonNext ==
  \/ TruncatePrimitive
  \/ \E budget \in Budgets : Truncate(budget)
  \/ \E v \in Value \ {Absent} : VisitExceeds(v) \/ VisitThrows(v) \/ VisitAdds(v)
  \/ VisitNothing \/ VisitLeaves
  \/ Truncated /\ UNCHANGED jsonVars

JsonSpec == JsonInit /\ [][JsonNext]_jsonVars

-----------------------------------------------------------------------------
Serializable == \A p \in Reached : ~Closes(p) /\ KindOf(ValueAt(p)) # "bigint"
Size(paths) == MapThenSumSet(LAMBDA p : Estimate(ValueAt(p)), paths)
Total == 10 + Size(Reached)

\* A payload is passed on exactly when JSON.stringify can take it and all its
\* values, shared ones counted wherever they appear, are within the budget: the
\* early stop never lets a cycle or a bigint behind the limit through, and
\* never calls a payload that fits too large.
PayloadVerdict ==
  Truncated /\ byteBudget > 0 =>
    /\ verdict = "ok" <=> Serializable /\ Total <= byteBudget
    /\ verdict = "non-serializable" => ~Serializable

-----------------------------------------------------------------------------
\* What the replacer has seen of a walk: what is behind it, and the objects it is
\* inside of.
OnWay(frames, p) == Len(p) < Len(frames) /\ \A k \in 1 .. Len(p) : p[k] = NameSeq[frames[k].i]
Met(frames) == {p \in Reached : Behind(frames, p) \/ OnWay(frames, p)}

\* What the steps preserve: the estimate is that of the values met, and none of
\* them made JSON.stringify throw.
JsonInv ==
  /\ verdict \in {"none", "visiting"} \/ Truncated
  /\ verdict = "none" => byteBudget = 0
  /\ verdict = "visiting" =>
       /\ GraphOK /\ OnPath(visiting)
       /\ byteBudget \in Nat /\ accumulated = 10 + Size(Met(visiting)) /\ accumulated <= byteBudget
       /\ \A p \in Met(visiting) : ~Closes(p) /\ KindOf(ValueAt(p)) # "bigint"
  /\ PayloadVerdict
=============================================================================
