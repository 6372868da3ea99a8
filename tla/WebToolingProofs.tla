-------------------------- MODULE WebToolingProofs --------------------------
(***************************************************************************)
(* Proofs about packages/web/graphql-client and packages/tooling.          *)
(* assembleDocument is correct for every query, every registry and every   *)
(* number of fragments, cyclic ones included: DocInv is the loop invariant *)
(* of the worklist.  usePaginatedResource shows the page asked for, for    *)
(* every page size and every number of rows: PageInv says that what SWR    *)
(* keeps under a key is of that key's page.  And the git hooks let through *)
(* only what they checked, for every set of files and whatever is edited   *)
(* and staged meanwhile.                                                   *)
(***************************************************************************)
EXTENDS FragmentDocument, PaginatedResource, GitHooks, FiniteSetTheorems, TLAPS

-----------------------------------------------------------------------------
\* The fragment assembly and the pages.

\* The members of a popped stack.
LEMMA PopSet ==
  ASSUME NEW S, NEW s \in Seq(S), s # <<>>
  PROVE  /\ Front(s) \in Seq(S) /\ Last(s) \in S
         /\ Last(s) \in ToSet(s)
         /\ ToSet(Front(s)) \subseteq ToSet(s)
         /\ \A x \in ToSet(s) : x = Last(s) \/ x \in ToSet(Front(s))
<1>1. Len(s) \in Nat /\ Len(s) > 0 /\ DOMAIN s = 1 .. Len(s)
  OBVIOUS
<1>2. Front(s) \in Seq(S) /\ Len(Front(s)) = Len(s) - 1
  BY <1>1 DEF Front
<1>3. \A i \in 1 .. Len(s) - 1 : Front(s)[i] = s[i]
  BY <1>1 DEF Front
<1>4. DOMAIN Front(s) = 1 .. Len(s) - 1
  BY <1>2
<1> QED BY <1>1, <1>2, <1>3, <1>4 DEF Last, ToSet

\* The members of a sequence with one more element.
LEMMA PushSet ==
  ASSUME NEW S, NEW s \in Seq(S), NEW x \in S
  PROVE  Append(s, x) \in Seq(S) /\ ToSet(Append(s, x)) = ToSet(s) \cup {x}
<1>1. /\ DOMAIN s = 1 .. Len(s) /\ Len(s) \in Nat
      /\ DOMAIN Append(s, x) = 1 .. Len(s) + 1
      /\ Append(s, x)[Len(s) + 1] = x
      /\ \A i \in 1 .. Len(s) : Append(s, x)[i] = s[i]
  OBVIOUS
<1>2. \A y \in ToSet(s) \cup {x} : y \in ToSet(Append(s, x))
  BY <1>1 DEF ToSet
<1>3. \A y \in ToSet(Append(s, x)) : y \in ToSet(s) \cup {x}
  BY <1>1 DEF ToSet
<1> QED BY <1>2, <1>3

\* What is read of the query and the fragments depends on the registry alone.
LEMMA ReachableKept ==
  ASSUME UNCHANGED <<known, spreads>> PROVE ReadReachable' = ReadReachable
BY DEF ReadReachable, ReadClosed, Reads

\* With nothing collected only the query is left to visit.
LEMMA InitDoc == DocInit => DocInv
<1> SUFFICES ASSUME DocInit PROVE DocInv
  OBVIOUS
<1> USE NamesAssumption
<1>1. DocTypeOK
  <2>1. spreads \in [Doc -> Seq(Spread)]
    BY DEF DocInit
  <2>2. pending \in Seq(Doc) /\ collected \in Seq(Name)
    BY DEF DocInit, Doc
  <2>3. known \in SUBSET Name /\ document = None /\ at = 1 /\ returned = FALSE
    BY DEF DocInit
  <2>4. at \in Nat \ {0}
    BY <2>3
  <2> QED BY <2>1, <2>2, <2>3, <2>4, Zenon DEF DocTypeOK
<1>2. ToSet(collected) = {} /\ ToSet(pending) = {Query}
  BY DEF DocInit, ToSet
<1> QED BY <1>1, <1>2 DEF DocInit, DocInv

\* One conjunct group per step: the popped document is now the visited one.
LEMMA PopKeeps == DocInv /\ Pop => DocInv'
<1> SUFFICES ASSUME DocInv, Pop PROVE DocInv'
  OBVIOUS
<1> USE NamesAssumption DEF DocInv, DocTypeOK, Doc
<1>1. ReadReachable' = ReadReachable
  BY ReachableKept DEF Pop
<1>2. /\ Front(pending) \in Seq(Doc) /\ Last(pending) \in Doc
      /\ Last(pending) \in ToSet(pending)
      /\ ToSet(Front(pending)) \subseteq ToSet(pending)
      /\ \A x \in ToSet(pending) : x = Last(pending) \/ x \in ToSet(Front(pending))
  BY PopSet DEF Pop
<1>3. \A d \in ToSet(collected) \cup {Query} : d \in Doc
  BY DEF ToSet
<1>4. \A d \in Doc : DOMAIN spreads[d] = 1 .. Len(spreads[d])
  OBVIOUS
<1>5. DocTypeOK' /\ ToSet(collected)' = ToSet(collected) /\ ToSet(pending)' = ToSet(Front(pending))
  BY <1>2 DEF Pop, Popped, ToSet
<1>6. ASSUME NEW d \in ToSet(collected) \cup {Query}, d \notin ToSet(pending)'
      PROVE  \A k \in DOMAIN spreads[d] :
               \/ SpreadName(spreads[d][k]) \in ToSet(collected)
               \/ SpreadName(spreads[d][k]) \notin known
               \/ d = document' /\ k >= at'
  <2>1. CASE d = Last(pending)
    BY <2>1, <1>3, <1>4 DEF Pop
  <2>2. CASE d # Last(pending)
    <3>1. d \notin ToSet(pending)
      BY <2>2, <1>2, <1>5, <1>6
    <3>2. ASSUME NEW k \in DOMAIN spreads[d] PROVE ~(d = document /\ k >= at)
      BY <3>2, <1>3, <1>4 DEF Pop, Scanning
    <3> QED BY <3>1, <3>2
  <2> QED BY <2>1, <2>2
<1> QED BY <1>1, <1>2, <1>5, <1>6 DEF Pop, Scanning

\* A visited spread is collected, or needs no collecting.
LEMMA VisitKeeps == DocInv /\ (VisitSkips \/ VisitCollects) => DocInv'
<1> SUFFICES ASSUME DocInv, VisitSkips \/ VisitCollects PROVE DocInv'
  OBVIOUS
<1> USE NamesAssumption DEF DocInv, DocTypeOK, Doc
<1> DEFINE n == SpreadName(spreads[document][at])
<1>1. ReadReachable' = ReadReachable
  BY ReachableKept DEF VisitSkips, VisitCollects
<1>2. document \in Doc /\ at \in DOMAIN spreads[document]
  <2>1. document \in Doc /\ at <= Len(spreads[document])
    BY DEF VisitSkips, VisitCollects, Scanning
  <2>2. spreads[document] \in Seq(Spread)
    BY <2>1
  <2> QED BY <2>1, <2>2
<1>3. CASE VisitSkips
  <2>1. n \in ToSet(collected) \/ n \notin known
    BY <1>2, <1>3 DEF VisitSkips, Skips
  <2>2. ToSet(collected)' = ToSet(collected) /\ ToSet(pending)' = ToSet(pending)
    BY <1>3 DEF VisitSkips, ToSet
  <2>3. \A d \in ToSet(collected) \cup {Query} : d \in Doc
    BY DEF ToSet
  <2>4. \A d \in Doc : \A k \in DOMAIN spreads[d] : k \in Nat
    OBVIOUS
  <2>5. /\ document' = document /\ at' = at + 1 /\ ~returned
        /\ UNCHANGED <<known, spreads, collected, pending, returned>>
    BY <1>3 DEF VisitSkips
  <2>6. ASSUME NEW d \in ToSet(collected) \cup {Query}, d \notin ToSet(pending),
               NEW k \in DOMAIN spreads[d]
        PROVE  \/ SpreadName(spreads[d][k]) \in ToSet(collected)
               \/ SpreadName(spreads[d][k]) \notin known
               \/ d = document /\ k >= at + 1
    <3>1. CASE d = document /\ k = at
      BY <2>1, <3>1
    <3>2. CASE ~(d = document /\ k = at)
      <4>1. \/ SpreadName(spreads[d][k]) \in ToSet(collected)
            \/ SpreadName(spreads[d][k]) \notin known
            \/ d = document /\ k >= at
        BY <2>6
      <4>2. k \in Nat /\ at \in Nat
        BY <2>3, <2>4
      <4> QED BY <4>1, <4>2, <3>2
    <3> QED BY <3>1, <3>2
  <2> QED BY <1>1, <1>2, <2>2, <2>5, <2>6
<1>4. CASE VisitCollects
  <2>1. n \notin ToSet(collected) /\ n \in known /\ n \in Name
    BY <1>2, <1>4 DEF VisitCollects, Skips
  <2>2. /\ collected' = Append(collected, n) /\ pending' = Append(pending, n)
        /\ document' = document /\ at' = at + 1
        /\ known' = known /\ spreads' = spreads /\ returned' = returned /\ ~returned
    BY <1>2, <1>4 DEF VisitCollects
  <2>3. /\ collected' \in Seq(Name) /\ ToSet(collected)' = ToSet(collected) \cup {n}
        /\ pending' \in Seq(Doc) /\ ToSet(pending)' = ToSet(pending) \cup {n}
    <3>1. /\ Append(collected, n) \in Seq(Name)
          /\ ToSet(Append(collected, n)) = ToSet(collected) \cup {n}
      BY <2>1, PushSet
    <3>2. /\ Append(pending, n) \in Seq(Doc)
          /\ ToSet(Append(pending, n)) = ToSet(pending) \cup {n}
      <4>1. n \in Doc /\ pending \in Seq(Doc)
        BY <2>1
      <4> HIDE DEF Doc, DocInv, DocTypeOK, n
      <4> QED BY <4>1, PushSet
    <3> QED BY <3>1, <3>2, <2>2
  <2>4. n \in ReadReachable
    <3> SUFFICES ASSUME NEW S \in SUBSET known, ReadClosed(S) PROVE n \in S
      BY <2>1 DEF ReadReachable
    <3>1. document \in S \cup {Query}
      BY <1>2, NamesAssumption DEF ReadReachable
    <3>2. n \in Reads(document)
      BY <1>2 DEF Reads
    <3> QED BY <3>1, <3>2, <2>1 DEF ReadClosed
  <2>5. \A d \in ToSet(collected) \cup {Query} : d \in Doc
    BY DEF ToSet
  <2>6. \A d \in Doc : \A k \in DOMAIN spreads[d] : k \in Nat
    OBVIOUS
  <2>7. ASSUME NEW d \in ToSet(collected)' \cup {Query}, d \notin ToSet(pending)'
        PROVE  \A k \in DOMAIN spreads[d] :
                 \/ SpreadName(spreads[d][k]) \in ToSet(collected)'
                 \/ SpreadName(spreads[d][k]) \notin known
                 \/ d = document /\ k >= at + 1
    BY <1>2, <2>3, <2>5, <2>6, <2>7
  <2> QED BY <1>1, <1>2, <2>1, <2>2, <2>3, <2>4, <2>7
<1> QED BY <1>3, <1>4

\* Every step keeps the loop invariant.
LEMMA NextDoc == DocInv /\ [DocNext]_docVars => DocInv'
<1> SUFFICES ASSUME DocInv, [DocNext]_docVars PROVE DocInv'
  OBVIOUS
<1>1. CASE Pop
  BY <1>1, PopKeeps
<1>2. CASE VisitSkips \/ VisitCollects
  BY <1>2, VisitKeeps
<1>3. CASE Return
  <2>1. ReadReachable' = ReadReachable
    BY <1>3, ReachableKept DEF Return
  <2> QED BY <1>3, <2>1 DEF Return, DocInv, DocTypeOK, Scanning, ToSet
<1>4. CASE UNCHANGED docVars
  <2>1. ReadReachable' = ReadReachable
    BY <1>4, ReachableKept DEF docVars
  <2> QED BY <1>4, <2>1 DEF docVars, DocInv, DocTypeOK, Scanning, ToSet
<1> QED BY <1>1, <1>2, <1>3, <1>4 DEF DocNext, Resolved

\* assembleDocument returns the definitions of exactly the fragments the query
\* references transitively, of all of them where no spread is misread and of no
\* other where no comment holds a spread.
THEOREM AssemblesReachable == DocSpec => []CollectsReachable
<1>1. DocInit => DocInv
  BY InitDoc
<1>2. DocInv => CollectsReachable
  <2> SUFFICES ASSUME DocInv, returned
               PROVE  /\ Without("misread") => Reachable \subseteq ToSet(collected)
                      /\ Without("comment") => ToSet(collected) \subseteq Reachable
    BY DEF CollectsReachable
  <2>1. ToSet(pending) = {} /\ ToSet(collected) \subseteq Doc /\ ToSet(collected) \in SUBSET known
    BY DEF DocInv, DocTypeOK, ToSet, Doc
  <2>2. ASSUME NEW d \in ToSet(collected) \cup {Query}, NEW k \in DOMAIN spreads[d]
        PROVE  SpreadName(spreads[d][k]) \in ToSet(collected) \/ SpreadName(spreads[d][k]) \notin known
    <3>1. d \in Doc /\ d # None /\ DOMAIN spreads[d] = 1 .. Len(spreads[d])
      BY <2>1, NamesAssumption DEF DocInv, DocTypeOK, Doc
    <3>2. ~(d = document /\ k >= at)
      BY <3>1 DEF DocInv, DocTypeOK, Scanning
    <3> QED BY <2>1, <3>2 DEF DocInv
  <2>3. ReadClosed(ToSet(collected))
    BY <2>2 DEF ReadClosed, Reads
  <2>4. ASSUME Without("misread") PROVE Reachable \subseteq ToSet(collected)
    <3>1. Closed(ToSet(collected))
      BY <2>2, <2>4 DEF Closed, References, Without, SpreadName
    <3> QED BY <2>1, <3>1 DEF Reachable
  <2>5. ASSUME Without("comment") PROVE ToSet(collected) \subseteq Reachable
    <3> SUFFICES ASSUME NEW S \in SUBSET known, Closed(S) PROVE ToSet(collected) \subseteq S
      BY <2>1 DEF Reachable
    <3> DEFINE T == S \cap ToSet(collected)
    <3>1. ASSUME NEW d \in T \cup {Query}, NEW n \in Reads(d) \cap known PROVE n \in S
      <4>1. PICK k \in DOMAIN spreads[d] : n = SpreadName(spreads[d][k])
        BY <3>1 DEF Reads
      <4>2. n = spreads[d][k].name /\ spreads[d][k].form # "comment"
        BY <2>5, <3>1, <4>1, NamesAssumption DEF SpreadName, Without, DocInv, DocTypeOK
      <4>3. n \in References(d)
        BY <4>2 DEF References
      <4> QED BY <3>1, <4>3 DEF Closed
    <3>2. ReadClosed(T)
      BY <2>3, <3>1 DEF ReadClosed
    <3> QED BY <2>1, <3>2 DEF DocInv, ReadReachable
  <2> QED BY <2>4, <2>5
<1> QED BY <1>1, <1>2, NextDoc, PTL DEF DocSpec

-----------------------------------------------------------------------------
\* What division is, for a divisor that is not a constant.
LEMMA DivBounds ==
  ASSUME NEW a \in Nat, NEW b \in Nat \ {0}
  PROVE  a \div b \in Nat /\ b * (a \div b) <= a /\ a < b * (a \div b) + b
  BY SMT

\* Multiples of b are at least b apart.
LEMMA MulGap ==
  ASSUME NEW q \in Int, NEW k \in Int, NEW b \in Nat \ {0}, q < k
  PROVE  b * q + b <= b * k
  BY SMT

\* The quotient is the only number between whose multiples a lies.
LEMMA DivUnique ==
  ASSUME NEW a \in Nat, NEW b \in Nat \ {0}, NEW q \in Int, b * q <= a, a < b * q + b
  PROVE  a \div b = q
<1>1. a \div b \in Nat /\ b * (a \div b) <= a /\ a < b * (a \div b) + b
  BY DivBounds
<1>2. ~(a \div b < q)
  <2> SUFFICES ASSUME a \div b < q PROVE FALSE
    OBVIOUS
  <2>1. b * (a \div b) + b <= b * q
    BY <1>1, MulGap
  <2>2. b * q \in Int /\ b * (a \div b) \in Int
    BY <1>1
  <2> QED BY <1>1, <2>1, <2>2
<1>3. ~(q < a \div b)
  <2> SUFFICES ASSUME q < a \div b PROVE FALSE
    OBVIOUS
  <2>1. b * q + b <= b * (a \div b)
    BY <1>1, MulGap
  <2>2. b * q \in Int /\ b * (a \div b) \in Int
    BY <1>1
  <2> QED BY <1>1, <2>1, <2>2
<1> QED BY <1>1, <1>2, <1>3

\* The rows after a page's cursor are the rows of that page.
LEMMA CursorIsPage ==
  ASSUME NEW p \in Page, NEW r \in Nat \ {0}
  PROVE  (p - 1) * PageSize < r /\ r <= (p - 1) * PageSize + PageSize <=> PageOf(r) = p
<1> DEFINE q == (r - 1) \div PageSize
           o == PageSize * (p - 1)
<1>1. p \in Nat \ {0} /\ PageSize \in Nat \ {0} /\ r - 1 \in Nat
  BY PageAssumption DEF Page
<1>2. o \in Int /\ (p - 1) * PageSize = o
  BY <1>1
<1>3. q \in Nat /\ PageSize * q <= r - 1 /\ r - 1 < PageSize * q + PageSize
  BY <1>1, DivBounds
<1>4. ASSUME o < r, r <= o + PageSize PROVE PageOf(r) = p
  <2>1. o <= r - 1 /\ r - 1 < o + PageSize
    BY <1>1, <1>2, <1>4
  <2>2. q = p - 1
    BY <1>1, <2>1, DivUnique
  <2> QED BY <1>1, <2>2 DEF PageOf
<1>5. ASSUME PageOf(r) = p PROVE o < r /\ r <= o + PageSize
  <2>1. q = p - 1
    BY <1>1, <1>3, <1>5 DEF PageOf
  <2>2. o <= r - 1 /\ r - 1 < o + PageSize
    BY <1>3, <2>1
  <2> QED BY <1>1, <1>2, <2>2
<1> HIDE DEF o
<1> QED BY <1>2, <1>4, <1>5

\* PagesFor is the number of pages that n rows fill, the last of them in
\* part, and a page is followed by a row exactly when it is not the last.
LEMMA PagesOfRows ==
  ASSUME NEW n \in Nat
  PROVE  /\ PagesFor(n) \in Nat
         /\ {PageOf(r) : r \in 1 .. n} = 1 .. PagesFor(n)
         /\ \A p \in Nat \ {0} : (p - 1) * PageSize + PageSize < n <=> p < PagesFor(n)
<1> DEFINE c == PagesFor(n)
<1>1. PageSize \in Nat \ {0} /\ n + PageSize - 1 \in Nat
  BY PageAssumption
<1>2. c \in Nat /\ PageSize * c <= n + PageSize - 1 /\ n + PageSize - 1 < PageSize * c + PageSize
  BY <1>1, DivBounds DEF PagesFor
<1> HIDE DEF c
<1>3. PageSize * c \in Nat /\ n <= PageSize * c /\ PageSize * c < n + PageSize
  BY <1>1, <1>2
<1>4. ASSUME NEW r \in 1 .. n PROVE PageOf(r) \in 1 .. c
  <2> DEFINE q == (r - 1) \div PageSize
  <2>1. q \in Nat /\ PageSize * q <= r - 1 /\ r - 1 < PageSize * q + PageSize
    BY <1>1, DivBounds
  <2>2. PageOf(r) = q + 1
    BY DEF PageOf
  <2> HIDE DEF q
  <2>3. ASSUME c <= q PROVE FALSE
    <3>1. PageSize * c <= PageSize * q
      <4>1. CASE c = q
        BY <1>1, <1>2, <4>1
      <4>2. CASE c < q
        BY <1>1, <1>2, <1>3, <2>1, <4>2, MulGap
      <4> QED BY <1>2, <2>1, <2>3, <4>1, <4>2
    <3>2. PageSize * q \in Nat
      BY <1>1, <2>1
    <3> QED BY <1>3, <2>1, <3>1, <3>2
  <2> QED BY <1>2, <2>1, <2>2, <2>3
<1>5. ASSUME NEW p \in 1 .. c PROVE \E r \in 1 .. n : PageOf(r) = p
  <2> DEFINE o == PageSize * (p - 1)
             r == o + 1
  <2>1. p \in Nat \ {0} /\ p - 1 \in Nat /\ o \in Nat
    BY <1>1, <1>2
  <2>2. o + PageSize <= PageSize * c
    BY <1>1, <1>2, <2>1, MulGap
  <2>3. r \in 1 .. n
    BY <1>1, <1>3, <2>1, <2>2
  <2>4. (r - 1) \div PageSize = p - 1
    <3>1. o <= r - 1 /\ r - 1 < o + PageSize /\ r - 1 \in Nat
      BY <1>1, <2>1
    <3> QED BY <1>1, <2>1, <3>1, DivUnique
  <2>5. PageOf(r) = p
    BY <2>1, <2>4 DEF PageOf
  <2> QED BY <2>3, <2>5
<1>6. {PageOf(r) : r \in 1 .. n} = 1 .. c
  BY <1>4, <1>5
<1>7. ASSUME NEW p \in Nat \ {0}
      PROVE  (p - 1) * PageSize + PageSize < n <=> p < c
  <2> DEFINE e == PageSize * p
  <2>1. e \in Nat /\ (p - 1) * PageSize + PageSize = e
    BY <1>1
  <2> HIDE DEF e
  <2>2. ASSUME p < c PROVE e < n
    <3>1. e + PageSize <= PageSize * c
      BY <1>1, <1>2, <2>2, MulGap DEF e
    <3> QED BY <1>1, <1>3, <2>1, <3>1
  <2>3. ASSUME c <= p PROVE n <= e
    <3>1. CASE c = p
      BY <1>3, <3>1 DEF e
    <3>2. CASE c < p
      <4>1. PageSize * c + PageSize <= e
        BY <1>1, <1>2, <3>2, MulGap DEF e
      <4> QED BY <1>1, <1>3, <2>1, <4>1
    <3> QED BY <1>2, <2>3, <3>1, <3>2
  <2> QED BY <1>2, <2>1, <2>2, <2>3
<1> QED BY <1>2, <1>6, <1>7 DEF c

\* What a fetched page says is true of the rows the server had.
LEMMA FetchedPageIsPage ==
  ASSUME NEW p \in Page, NEW n \in 0 .. MaxRows, NEW total \in {n, Undefined}
  PROVE  IsPageOf(FetchedPage(p, n, total), p, n)
<1> DEFINE shown == FetchedPage(p, n, total)
<1>1. n \in Nat /\ p \in Nat \ {0} /\ n # Undefined
  BY PageAssumption, UndefinedAssumption DEF Page
<1>2. /\ shown.page = p /\ shown.totalCount = total
      /\ shown.data = {r \in 1 .. n : (p - 1) * PageSize < r /\ r <= (p - 1) * PageSize + PageSize}
      /\ shown.totalPageCount = TotalPageCount(total)
      /\ shown.hasNext = ((p - 1) * PageSize + PageSize < n)
  BY DEF FetchedPage, extractConnectionItems, Connection, paginationToConnectionCursor
<1>3. shown.data = {r \in 1 .. n : PageOf(r) = p}
  <2>1. \A r \in 1 .. n : (p - 1) * PageSize < r /\ r <= (p - 1) * PageSize + PageSize
                            <=> PageOf(r) = p
    BY <1>1, CursorIsPage
  <2> QED BY <1>2, <2>1
<1>4. PagesFor(n) \in Nat /\ {PageOf(r) : r \in 1 .. n} = 1 .. PagesFor(n)
  BY <1>1, PagesOfRows
<1>5. Cardinality({PageOf(r) : r \in 1 .. n}) = PagesFor(n)
  <2>1. \A c \in Nat : Cardinality(1 .. c) = c
    BY FS_Interval
  <2> QED BY <1>4, <2>1
<1>6. shown.hasNext <=> p < PagesFor(n)
  BY <1>1, <1>2, PagesOfRows
<1>7. p < PagesFor(n) <=> \E r \in 1 .. n : PageOf(r) > p
  <2>1. \A r \in 1 .. n : PageOf(r) \in 1 .. PagesFor(n)
    BY <1>4
  <2>2. ASSUME p < PagesFor(n) PROVE \E r \in 1 .. n : PageOf(r) > p
    <3>1. PagesFor(n) \in 1 .. PagesFor(n)
      BY <1>1, <1>4, <2>2
    <3>2. PICK r \in 1 .. n : PageOf(r) = PagesFor(n)
      BY <1>4, <3>1
    <3> QED BY <1>1, <1>4, <2>2, <3>2
  <2> QED BY <1>1, <1>4, <2>1, <2>2
<1>8. \/ shown.totalCount = Undefined /\ shown.totalPageCount = Undefined
      \/ shown.totalCount = n /\ shown.totalPageCount = Cardinality({PageOf(r) : r \in 1 .. n})
  BY <1>1, <1>2, <1>5 DEF TotalPageCount
<1> HIDE DEF shown
<1>9. IsPageOf(shown, p, n)
  BY <1>2, <1>3, <1>6, <1>7, <1>8 DEF IsPageOf
<1> QED BY <1>9 DEF shown

\* The first page is fetched at once, unless it is skipped.
LEMMA PageInvInit == PageInit => PageInv
<1> SUFFICES ASSUME PageInit PROVE PageInv
  OBVIOUS
<1> USE DEF PageInit
<1>1. 1 \in Page /\ 0 \in 0 .. MaxRows /\ 0 \in 0 .. MaxPage /\ Page \subseteq 0 .. MaxPage
  BY PageAssumption DEF Page
<1>2. PageTypeOK
  <2>1. [data |-> Undefined, error |-> Undefined] \in Entry
    BY DEF Entry
  <2>2. NoFetch \in Request /\ [stage |-> "sent", page |-> 1, rows |-> 0] \in Request
    BY <1>1 DEF NoFetch, Request
  <2> QED BY <1>1, <2>1, <2>2 DEF PageTypeOK
<1>3. \A k \in Page : /\ fetching[k].stage # "no" => fetching[k].page = k
                      /\ swr[k].data = Undefined
  BY DEF NoFetch
<1>4. ~skip => fetching[page].stage # "no"
  BY <1>1
<1> QED BY <1>2, <1>3, <1>4 DEF PageInv

\* A request that is sent, or not, for the page p.
LEMMA SendingKeepsInv ==
  ASSUME PageInv, NEW p \in Page, Fetches(p) \/ Revalidates(p)
  PROVE  /\ fetching' \in [Page -> Request]
         /\ \A k \in Page : /\ fetching'[k].stage # "no" => fetching'[k].page = k
                            /\ fetching[k].stage # "no" => fetching'[k].stage # "no"
         /\ fetching[p].stage # "no" \/ Fetches(p) => fetching'[p].stage # "no"
<1> DEFINE sent == [stage |-> "sent", page |-> p, rows |-> 0]
<1>1. sent \in Request
  BY PageAssumption DEF Request, Page
<1>2. fetching \in [Page -> Request]
  BY DEF PageInv, PageTypeOK
<1>3. CASE fetching' = [fetching EXCEPT ![p] = sent]
  BY <1>1, <1>2, <1>3 DEF PageInv
<1>4. CASE fetching' = fetching /\ ~Fetches(p)
  BY <1>2, <1>4 DEF PageInv
<1>5. Fetches(p) => fetching' = [fetching EXCEPT ![p] = sent]
  BY DEF Fetches, SwrKey
<1> QED BY <1>3, <1>4, <1>5 DEF Fetches, Revalidates, SwrKey

\* A request that settles.
LEMMA SettlingKeepsInv ==
  ASSUME PageInv, NEW k \in Page, NEW data, NEW error \in NonFatalError \cup {"SyntaxError", Undefined},
         error = Undefined => \E n \in 0 .. MaxRows, total \in Total :
                                total \in {n, Undefined} /\ data = FetchedPage(k, n, total),
         Settle(k, data, error)
  PROVE  PageInv'
<1> DEFINE entry == [data |-> IF error = Undefined THEN data ELSE swr[k].data, error |-> error]
<1>1. PageTypeOK
  BY DEF PageInv
<1>2. UNCHANGED <<page, skip, rows>>
  BY DEF Settle
<1>3. swr' = [swr EXCEPT ![k] = entry] /\ fetching' = [fetching EXCEPT ![k] = NoFetch]
  BY DEF Settle
<1>4. swr[k].data \in {FetchedPage(p, n, total) : p \in Page, n \in 0 .. MaxRows, total \in Total}
                       \cup {Undefined}
  BY <1>1 DEF PageTypeOK, Entry
<1>5. entry \in Entry
  BY <1>4 DEF Entry
<1>6. NoFetch \in Request
  BY PageAssumption DEF NoFetch, Request
<1>7. PageTypeOK'
  BY <1>1, <1>2, <1>3, <1>5, <1>6 DEF PageTypeOK
<1>8. entry.data # Undefined =>
        \E n \in 0 .. MaxRows, total \in Total :
          total \in {n, Undefined} /\ entry.data = FetchedPage(k, n, total)
  BY DEF PageInv
<1>9. entry.data = Undefined => entry.error # Undefined
  BY UndefinedAssumption
<1> HIDE DEF entry
<1>10. ASSUME NEW j \in Page
       PROVE  /\ fetching'[j].stage # "no" => fetching'[j].page = j
              /\ swr'[j].data # Undefined =>
                   \E n \in 0 .. MaxRows, total \in Total :
                     total \in {n, Undefined} /\ swr'[j].data = FetchedPage(j, n, total)
  <2>1. CASE j = k
    BY <1>1, <1>3, <1>8, <2>1 DEF PageTypeOK, NoFetch
  <2>2. CASE j # k
    BY <1>1, <1>3, <2>2 DEF PageTypeOK, PageInv
  <2> QED BY <2>1, <2>2
<1>11. ~skip' /\ fetching'[page'].stage = "no" =>
         swr'[page'].data # Undefined \/ swr'[page'].error # Undefined
  <2>1. CASE page = k
    BY <1>1, <1>2, <1>3, <1>9, <2>1 DEF PageTypeOK
  <2>2. CASE page # k
    BY <1>1, <1>2, <1>3, <2>2 DEF PageTypeOK, PageInv
  <2> QED BY <2>1, <2>2
<1> QED BY <1>7, <1>10, <1>11 DEF PageInv

\* Every step of the user, the server, SWR and React keeps it.
LEMMA PageInvStep == PageInv /\ [PageNext]_pageVars => PageInv'
<1> SUFFICES ASSUME PageInv, [PageNext]_pageVars PROVE PageInv'
  OBVIOUS
<1>1. PageTypeOK
  BY DEF PageInv
<1>2. ASSUME NEW p \in Page, NEW s \in BOOLEAN, Turn(p, s) PROVE PageInv'
  <2>1. page' = p /\ skip' = s /\ UNCHANGED <<rows, swr>>
    BY <1>2 DEF Turn
  <2>2. CASE s
    <3>1. UNCHANGED fetching
      BY <1>2, <2>2 DEF Turn
    <3> QED BY <1>1, <2>1, <2>2, <3>1 DEF PageInv, PageTypeOK
  <2>3. CASE ~s
    <3>1. IF fetching[p].stage = "no" THEN Fetches(p) ELSE Revalidates(p)
      BY <1>2, <2>3 DEF Turn, SwrKey
    <3>2. /\ fetching' \in [Page -> Request]
          /\ \A k \in Page : fetching'[k].stage # "no" => fetching'[k].page = k
          /\ fetching'[p].stage # "no"
      BY <3>1, SendingKeepsInv
    <3> QED BY <1>1, <2>1, <3>2 DEF PageInv, PageTypeOK
  <2> QED BY <2>2, <2>3
<1>3. ASSUME NEW n \in 0 .. MaxRows, RowsChange(n) PROVE PageInv'
  BY <1>1, <1>3 DEF RowsChange, PageInv, PageTypeOK
<1>4. ASSUME NEW k \in Page, RequestStep(k) PROVE PageInv'
  <2>1. CASE FetchFails(k)
    <3>1. PICK error \in {"NetworkError", "FetchError"} : Settle(k, Undefined, error)
      BY <2>1 DEF FetchFails
    <3>2. error # Undefined /\ error \in NonFatalError \cup {"SyntaxError", Undefined}
      BY UndefinedAssumption DEF NonFatalError
    <3> QED BY <3>1, <3>2, SettlingKeepsInv
  <2>2. CASE Responds(k)
    <3>1. /\ fetching' = [fetching EXCEPT ![k].stage = "body", ![k].rows = rows]
          /\ fetching[k].stage = "sent" /\ UNCHANGED <<page, skip, rows, swr>>
      BY <2>2 DEF Responds
    <3>2. fetching' \in [Page -> Request]
      BY <1>1, <3>1 DEF PageTypeOK, Request
    <3>3. \A j \in Page : /\ fetching'[j].page = fetching[j].page
                          /\ fetching'[j].stage # "no" <=> fetching[j].stage # "no"
      BY <1>1, <3>1 DEF PageTypeOK, Request
    <3> QED BY <1>1, <3>1, <3>2, <3>3 DEF PageInv, PageTypeOK
  <2>3. CASE BodyFails(k)
    <3>1. Settle(k, Undefined, "SyntaxError")
      BY <2>3 DEF BodyFails
    <3>2. "SyntaxError" # Undefined
      BY UndefinedAssumption
    <3> QED BY <3>1, <3>2, SettlingKeepsInv
  <2>4. CASE NoData(k)
    <3>1. Settle(k, Undefined, "DataError")
      BY <2>4 DEF NoData
    <3>2. "DataError" # Undefined /\ "DataError" \in NonFatalError
      BY UndefinedAssumption DEF NonFatalError
    <3> QED BY <3>1, <3>2, SettlingKeepsInv
  <2>5. CASE Answers(k)
    <3>1. fetching[k].page = k /\ fetching[k].rows \in 0 .. MaxRows
      BY <1>1, <2>5 DEF Answers, PageInv, PageTypeOK, Request
    <3>2. PICK total \in {fetching[k].rows, Undefined} :
            Settle(k, FetchedPage(k, fetching[k].rows, total), Undefined)
      BY <2>5, <3>1 DEF Answers
    <3>3. total \in Total
      BY <3>1 DEF Total
    <3> QED BY <3>1, <3>2, <3>3, SettlingKeepsInv
  <2> QED BY <1>4, <2>1, <2>2, <2>3, <2>4, <2>5 DEF RequestStep
<1>5. CASE Refetch
  <2>1. UNCHANGED <<page, skip, rows, swr>> /\ page \in Page
    BY <1>1, <1>5 DEF Refetch, PageTypeOK
  <2>2. IF fetching[page].stage = "no" THEN Fetches(page) ELSE Revalidates(page)
    BY <1>5 DEF Refetch, SwrKey
  <2>3. /\ fetching' \in [Page -> Request]
        /\ \A k \in Page : fetching'[k].stage # "no" => fetching'[k].page = k
        /\ fetching'[page].stage # "no"
    BY <2>1, <2>2, SendingKeepsInv
  <2> QED BY <1>1, <2>1, <2>3 DEF PageInv, PageTypeOK
<1>6. CASE Effect \/ AtRest \/ UNCHANGED pageVars
  <2>1. UNCHANGED <<page, skip, rows, swr, fetching>>
    BY <1>6 DEF Effect, AtRest, pageVars
  <2> QED BY <2>1 DEF PageInv, PageTypeOK
<1> QED BY <1>2, <1>3, <1>4, <1>5, <1>6 DEF PageNext

\* It is strong enough: what the hook shows, it reads under the page's own key.
LEMMA PageInvShows == PageInv => ShowsPageAsked
<1> SUFFICES ASSUME PageInv, View.shows # Undefined PROVE ShowsPageAsked
  BY DEF ShowsPageAsked
<1>1. page \in Page /\ skip \in BOOLEAN
  BY DEF PageInv, PageTypeOK
<1>2. CASE Status = "notFound"
  <2>1. View.shows = [data |-> {}, page |-> page, totalPageCount |-> Undefined,
                      hasPrevious |-> FALSE, hasNext |-> FALSE, totalCount |-> Undefined]
    BY <1>2 DEF View
  <2>2. skip \/ Throws
    <3> SUFFICES ASSUME ~skip PROVE Throws
      OBVIOUS
    <3>1. Current = [data |-> swr[page].data, error |-> swr[page].error,
                     isLoading |-> fetching[page].stage # "no" /\ swr[page].data = Undefined]
      BY DEF Current, SwrKey
    <3>2. Current.error \notin NonFatalError /\ ~Current.isLoading /\ Current.data = Undefined
      BY <1>2 DEF Status
    <3>3. fetching[page].stage = "no" /\ swr[page].data = Undefined
      BY <3>1, <3>2
    <3>4. swr[page].error # Undefined
      BY <3>3 DEF PageInv
    <3> QED BY <3>1, <3>2, <3>4 DEF Throws
  <2>3. Current.data = Undefined
    BY <1>2 DEF Status
  <2> QED BY <2>1, <2>2, <2>3 DEF ShowsPageAsked
<1>3. CASE Status = "ready"
  <2>1. View.shows = Current.data
    BY <1>3 DEF View
  <2>2. Current.data # Undefined
    BY <1>3 DEF Status
  <2>3. ~skip /\ Current.data = swr[page].data
    BY <2>2 DEF Current, SwrKey
  <2>4. PICK n \in 0 .. MaxRows, total \in Total :
          total \in {n, Undefined} /\ View.shows = FetchedPage(page, n, total)
    BY <1>1, <2>1, <2>2, <2>3 DEF PageInv
  <2>5. IsPageOf(View.shows, page, n)
    BY <1>1, <2>4, FetchedPageIsPage
  <2> QED BY <2>2, <2>5 DEF ShowsPageAsked
<1>4. Status \in {"loading", "error"} => View.shows = Undefined
  BY DEF View
<1> QED BY <1>2, <1>3, <1>4 DEF Status

\* However pages are turned, refetched and skipped while requests are under
\* way, usePaginatedResource shows the rows of the page asked for, and shows a
\* page as empty only when it loaded without rows: for every page size and any
\* number of pages and rows.
THEOREM ShownIsPageAsked == PageSpec => []ShowsPageAsked
<1>1. PageInit => PageInv
  BY PageInvInit
<1>2. PageInv /\ [PageNext]_pageVars => PageInv'
  BY PageInvStep
<1>3. PageInv => ShowsPageAsked
  BY PageInvShows
<1> QED BY <1>1, <1>2, <1>3, PTL DEF PageSpec

-----------------------------------------------------------------------------
\* The git hooks.

\* Formatting keeps a file a file.
LEMMA FormatTypes ==
  ASSUME NEW c \in Content \cup {Absent}
  PROVE  Format(c) \in Content \cup {Absent}
BY AbsentAssumption DEF Format, Content

LEMMA InitHook == HookInit => HookInv
<1> SUFFICES ASSUME HookInit PROVE HookInv
  OBVIOUS
<1>1. Clean \in Content
  BY EditsAssumption DEF Clean, Content
<1>2. HookTypeOK
  BY <1>1, EditsAssumption DEF HookInit, HookTypeOK, Tree, Nothing
<1> QED BY <1>2 DEF HookInit, HookInv

\* git is done: nothing is known of the files any more.
LEMMA EndsKeeps ==
  ASSUME HookInv, Ends, UNCHANGED <<hooks, index, edits>>, head' \in Tree, work' \in Tree
  PROVE  HookInv'
<1>1. HookTypeOK'
  BY DEF Ends, HookInv, HookTypeOK, Nothing, Tree
<1>2. step' = "rest" /\ touched' = {}
  BY DEF Ends
<1>3. \A f \in File : HookOf(f)'
  BY <1>2 DEF HookOf
<1> QED BY <1>1, <1>2, <1>3 DEF HookInv

LEMMA NextHook == HookInv /\ [HookNext]_hookVars => HookInv'
<1> SUFFICES ASSUME HookInv, [HookNext]_hookVars PROVE HookInv'
  OBVIOUS
<1> USE DEF HookInv
<1>1. CASE Install
  <2>1. HookTypeOK' /\ step' = "rest"
    BY <1>1 DEF Install, HookTypeOK, HOOKS
  <2>2. \A f \in File : HookOf(f)'
    BY <2>1 DEF HookOf
  <2> QED BY <1>1, <2>1, <2>2 DEF Install
<1>2. ASSUME NEW f \in File, Edit(f) PROVE HookInv'
  <2>1. PICK c \in Content \cup {Absent} : work' = [work EXCEPT ![f] = c]
    BY <1>2 DEF Edit
  <2>2. HookTypeOK'
    BY <1>2, <2>1, EditsAssumption DEF Edit, HookTypeOK, Tree
  <2>3. CASE step = "rest"
    BY <1>2, <2>2, <2>3 DEF Edit, HookOf
  <2>4. CASE step # "rest"
    <3>1. \A g \in File : g # f => (HookOf(g) => HookOf(g)')
      BY <1>2, <2>1 DEF Edit, HookTypeOK, Tree, HookOf, ToCommit
    <3> QED BY <1>2, <2>2, <2>4, <3>1 DEF Edit
  <2> QED BY <2>3, <2>4
<1>3. ASSUME NEW f \in File, Stage(f) PROVE HookInv'
  <2>1. HookTypeOK'
    BY <1>3 DEF Stage, HookTypeOK, Tree
  <2>2. CASE step = "rest"
    BY <1>3, <2>1, <2>2 DEF Stage, HookOf
  <2>3. CASE step # "rest"
    <3>1. \A g \in File : g # f => (HookOf(g) => HookOf(g)')
      BY <1>3 DEF Stage, HookTypeOK, Tree, HookOf, ToCommit
    <3> QED BY <1>3, <2>1, <2>3, <3>1 DEF Stage
  <2> QED BY <2>2, <2>3
<1>4. CASE CommitBegins
  <2>1. HookTypeOK'
    BY <1>4 DEF CommitBegins, HookTypeOK
  <2>2. "pre-commit" \in hooks => step' = "format" /\ \A f \in File : HookOf(f)'
    BY <1>4 DEF CommitBegins, HookOf
  <2> QED BY <1>4, <2>1, <2>2 DEF CommitBegins
<1>5. CASE Formats
  <2>1. work' \in Tree
    BY <1>5, FormatTypes DEF Formats, HookTypeOK, Tree
  <2>2. HookTypeOK' /\ step' = "restage" /\ step = "format"
    BY <1>5, <2>1 DEF Formats, HookTypeOK
  <2>3. \A f \in File : HookOf(f) => HookOf(f)'
    BY <1>5, <2>2 DEF Formats, HookOf
  <2> QED BY <1>5, <2>2, <2>3 DEF Formats
<1>6. CASE FormatFails
  <2>1. work' \in Tree
    BY <1>6, FormatTypes DEF FormatFails, HookTypeOK, Tree
  <2> QED BY <1>6, <2>1, EndsKeeps DEF FormatFails, HookTypeOK
<1>7. CASE Restages
  <2>1. index' \in Tree
    BY <1>7 DEF Restages, HookTypeOK, Tree
  <2>2. HookTypeOK' /\ step' = "lint" /\ step = "restage"
    BY <1>7, <2>1 DEF Restages, HookTypeOK
  <2>3. ASSUME NEW f \in File, HookOf(f) PROVE HookOf(f)'
    <3>1. index[f] = staged[f] /\ work[f] = Format(worked[f])
      BY <2>2, <2>3 DEF HookOf
    <3>2. index'[f] = ToCommit(f)
      BY <1>7, <3>1 DEF Restages, Restaged, ToCommit
    <3> QED BY <1>7, <2>2, <3>1, <3>2 DEF Restages, HookOf, ToCommit
  <2> QED BY <1>7, <2>2, <2>3 DEF Restages
<1>8. CASE RestageFails
  BY <1>8, EndsKeeps DEF RestageFails, HookTypeOK
<1>9. ASSUME NEW s \in {"lint", "typecheck", "audit"}, StepPasses(s) PROVE HookInv'
  <2>1. /\ step = s /\ step' \in {"typecheck", "audit", "message"}
        /\ UNCHANGED <<hooks, head, index, work, edits, staged, worked, touched>>
        /\ step = "lint" => Passes("lint")
    BY <1>9 DEF StepPasses, After
  <2>2. HookTypeOK'
    BY <2>1 DEF HookTypeOK
  <2>3. \A f \in File : HookOf(f) => HookOf(f)'
    BY <1>9, <2>1 DEF HookOf, ToCommit, Passes
  <2> QED BY <1>9, <2>1, <2>2, <2>3
<1>10. ASSUME NEW s \in {"lint", "typecheck", "audit"}, StepFails(s) PROVE HookInv'
  BY <1>10, EndsKeeps DEF StepFails, Failed, HookTypeOK
<1>11. ASSUME NEW m \in Message, Commits(m) \/ MessageFails(m) PROVE HookInv'
  BY <1>11, EndsKeeps DEF Commits, MessageFails, HookTypeOK
<1>12. CASE UNCHANGED hookVars
  BY <1>12 DEF hookVars, HookTypeOK, HookOf, ToCommit
<1> QED BY <1>1, <1>2, <1>3, <1>4, <1>5, <1>6, <1>7, <1>8, <1>9, <1>10, <1>11, <1>12 DEF HookNext

LEMMA HookInvariant == HookSpec => []HookInv
BY InitHook, NextHook, PTL DEF HookSpec

\* Only git's commit moves HEAD, and it takes the index.
LEMMA HeadMoves ==
  ASSUME [HookNext]_hookVars, head' # head
  PROVE  step = "message" /\ head' = index
BY DEF HookNext, hookVars, Install, Edit, Stage, CommitBegins, Formats, FormatFails, Restages,
       RestageFails, StepPasses, StepFails, Commits, MessageFails

\* runPreCommit: what a commit changes has passed every step as it is committed,
\* unless the file was edited or staged while the hook ran.
THEOREM CommitsAreChecked == HookSpec => CommitIsChecked
<1>1. ASSUME HookInv, [HookNext]_hookVars, head' # head, "pre-commit" \in hooks,
             NEW f \in File \ touched, head'[f] \notin {head[f], Absent}
      PROVE  head'[f].formatted /\ head'[f].sound
  <2>1. step = "message" /\ head' = index
    BY <1>1, HeadMoves
  <2>2. HookOf(f)
    BY <1>1 DEF HookInv
  <2>3. index[f] = work[f] /\ work[f] # Absent
    BY <1>1, <2>1, <2>2 DEF HookOf, ToCommit
  <2> QED BY <2>1, <2>2, <2>3 DEF HookOf
<1>2. HookInv /\ [HookNext]_hookVars =>
        [head' # head /\ "pre-commit" \in hooks =>
           \A f \in File \ touched :
             head'[f] \notin {head[f], Absent} => head'[f].formatted /\ head'[f].sound]_hookVars
  BY <1>1
<1> QED BY HookInvariant, <1>2, PTL DEF HookSpec, CommitIsChecked

\* runPreCommit: the hook commits what was staged, formatted, and nothing of a
\* file that was not; of a file staged in part, all of the working tree.
THEOREM CommitsWhatWasStaged == HookSpec => CommitsStaged
<1>1. ASSUME HookInv, [HookNext]_hookVars, head' # head, "pre-commit" \in hooks, NEW f \in File \ touched
      PROVE  head'[f] = IF staged[f] \in {head[f], Absent} THEN staged[f] ELSE Format(worked[f])
  <2>1. step = "message" /\ head' = index
    BY <1>1, HeadMoves
  <2>2. HookOf(f)
    BY <1>1 DEF HookInv
  <2> QED BY <2>1, <2>2 DEF HookOf, ToCommit
<1>2. HookInv /\ [HookNext]_hookVars =>
        [head' # head /\ "pre-commit" \in hooks =>
           \A f \in File \ touched :
             head'[f] = IF staged[f] \in {head[f], Absent} THEN staged[f] ELSE Format(worked[f])]_hookVars
  BY <1>1
<1> QED BY HookInvariant, <1>2, PTL DEF HookSpec, CommitsStaged
=============================================================================
