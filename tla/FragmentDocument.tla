-------------------------- MODULE FragmentDocument --------------------------
(***************************************************************************)
(* assembleDocument of packages/web/graphql-client/src/fragments.ts: the   *)
(* worklist that collects the definitions of every fragment a query        *)
(* references.  A document, the query or a fragment's definition, is       *)
(* abstracted to the list of its `...Name` spreads, in order.  GraphQL and *)
(* the regular expression FRAGMENT_SPREAD do not always read the same: a   *)
(* spread may be "misread", with a directive, a comment or another spread  *)
(* right behind its name (`...Name@include`) or a space behind its dots,   *)
(* and what stands in a "comment" is no spread to GraphQL.                 *)
(*                                                                         *)
(* `known` and `spreads` are what the caller's FragmentRegistry, or plain  *)
(* map, holds; nothing runs between the steps of a call.                   *)
(***************************************************************************)
EXTENDS Naturals, Sequences, SequencesExt

CONSTANTS
  Name,          \* fragment names
  Query,         \* the document to assemble for
  Garbled,       \* what the regular expression makes of a misread spread
  None,
  SpreadLists    \* the lists of spreads a document may have

Spread == [name : Name, form : {"plain", "misread", "comment"}]

ASSUME NamesAssumption ==
  /\ Query \notin Name /\ Garbled \notin Name
  /\ None \notin Name /\ None # Query
  /\ SpreadLists \subseteq Seq(Spread)

Doc == Name \cup {Query}

VARIABLES
  known,       \* the names that lookup resolves
  spreads,     \* document -> its spreads
  collected,   \* the keys of the map of that name, in insertion order
  pending,     \* the stack
  document,    \* the document whose spreads are visited, or None
  at,          \* the next of them
  returned

docVars == <<known, spreads, collected, pending, document, at, returned>>

DocTypeOK ==
  /\ known \in SUBSET Name
  /\ spreads \in [Doc -> Seq(Spread)]
  /\ collected \in Seq(Name)
  /\ pending \in Seq(Doc)
  /\ document \in Doc \cup {None}
  /\ at \in Nat \ {0}
  /\ returned \in BOOLEAN

DocInit ==
  /\ known \in SUBSET Name
  /\ spreads \in [Doc -> SpreadLists]
  /\ \A n \in Name \ known : spreads[n] = <<>>
  /\ collected = <<>>
  /\ pending = <<Query>>
  /\ document = None /\ at = 1
  /\ returned = FALSE

-----------------------------------------------------------------------------
\* spreadNames, one name of it.
SpreadName(s) == IF s.form = "misread" THEN Garbled ELSE s.name

Scanning == document # None /\ at <= Len(spreads[document])

\* Fault: the stack is peeked at, not popped.
StackKept == pending

\* pop()
Popped == Front(pending)

\* The loop takes the last document of the stack.
Pop ==
  /\ ~returned /\ ~Scanning /\ pending # <<>>
  /\ document' = Last(pending)
  /\ pending' = Popped
  /\ at' = 1
  /\ UNCHANGED <<known, spreads, collected, returned>>

\* Fault: only the spreads of the query itself are followed.
SkipsNested(n) == n \in ToSet(collected) \/ n \notin known \/ document # Query

\* The two `continue`s of the inner loop.
Skips(n) == n \in ToSet(collected) \/ n \notin known

VisitSkips ==
  /\ ~returned /\ Scanning
  /\ Skips(SpreadName(spreads[document][at]))
  /\ at' = at + 1
  /\ UNCHANGED <<known, spreads, collected, pending, document, returned>>

\* A new name: its definition is collected and pushed.
VisitCollects ==
  LET n == SpreadName(spreads[document][at])
  IN /\ ~returned /\ Scanning
     /\ ~Skips(n)
     /\ collected' = Append(collected, n)
     /\ pending' = Append(pending, n)
     /\ at' = at + 1
     /\ UNCHANGED <<known, spreads, document, returned>>

\* The stack is empty: the query and the collected definitions are joined.
Return ==
  /\ ~returned /\ ~Scanning /\ pending = <<>>
  /\ returned' = TRUE
  /\ UNCHANGED <<known, spreads, collected, pending, document, at>>

Resolved == returned /\ UNCHANGED docVars

DocNext == Pop \/ VisitSkips \/ VisitCollects \/ Return \/ Resolved

DocSpec == DocInit /\ [][DocNext]_docVars

\* A synchronous loop goes on.
DocFairness == WF_docVars(Pop \/ VisitSkips \/ VisitCollects \/ Return)

-----------------------------------------------------------------------------
\* The fragments a document references in GraphQL, however they are written.
References(d) == {spreads[d][k].name : k \in {i \in DOMAIN spreads[d] : spreads[d][i].form # "comment"}}

\* S holds every known fragment that the query, or a member of S, references.
Closed(S) == \A d \in S \cup {Query} : References(d) \cap known \subseteq S

\* The fragments the query references transitively: the least closed set.
Reachable == {n \in known : \A S \in SUBSET known : Closed(S) => n \in S}

\* No spread of the query or of a collected definition has this form.
Without(form) ==
  \A d \in ToSet(collected) \cup {Query} : \A k \in DOMAIN spreads[d] : spreads[d][k].form # form

\* "Return `query` followed by the definitions of every fragment it
\* references, transitively": every one when the regular expression misreads
\* none of their spreads, and no other when no comment holds a spread; cycles,
\* repeated and unknown spreads included.
CollectsReachable ==
  returned => /\ Without("misread") => Reachable \subseteq ToSet(collected)
              /\ Without("comment") => ToSet(collected) \subseteq Reachable

\* The same promise as it is made, for every document GraphQL accepts.
CollectsEveryReference == returned => Reachable \subseteq ToSet(collected)

\* assembleDocument returns, on cyclic fragments too.
Assembles == <>returned

\* The names a document spreads by the regular expression, and the least set of
\* known ones that is closed under them.
Reads(d) == {SpreadName(spreads[d][k]) : k \in DOMAIN spreads[d]}
ReadClosed(S) == \A d \in S \cup {Query} : Reads(d) \cap known \subseteq S
ReadReachable == {n \in known : \A S \in SUBSET known : ReadClosed(S) => n \in S}

\* What the steps preserve: every collected fragment is reachable by what is
\* read, and a document whose names are not all collected is on the stack or still
\* visited.
DocInv ==
  /\ DocTypeOK
  /\ ToSet(collected) \subseteq known
  /\ ToSet(collected) \subseteq ReadReachable
  /\ ToSet(pending) \subseteq ToSet(collected) \cup {Query}
  /\ document = None \/ document \in ToSet(collected) \cup {Query}
  /\ \A d \in ToSet(collected) \cup {Query} :
       \/ d \in ToSet(pending)
       \/ \A k \in DOMAIN spreads[d] :
            \/ SpreadName(spreads[d][k]) \in ToSet(collected)
            \/ SpreadName(spreads[d][k]) \notin known
            \/ d = document /\ k >= at
  /\ returned => pending = <<>> /\ ~Scanning
=============================================================================
