-------------------------- MODULE PaginatedResource --------------------------
(***************************************************************************)
(* A page of packages/web/graphql-client on the screen: a component calls  *)
(* usePaginatedResource (over useResource) with a fetcher written as the   *)
(* README does, fetchGraphql and then extractConnectionItems.              *)
(*                                                                         *)
(* External: the server's connection, whose rows come and go between two   *)
(* requests; fetch(), whose response and body arrive apart; and SWR, which *)
(* keeps data and error per key, drops the answer of a request that a      *)
(* later one for its key has replaced, and keeps the data when a request   *)
(* fails.  React runs effects some time after it showed what was rendered. *)
(***************************************************************************)
EXTENDS Naturals, FiniteSets

CONSTANTS
  PageSize,      \* options.pageSize
  MaxPage,       \* the pages a user asks for
  MaxRows,       \* bound of the rows on the server
  MaxOps,        \* bound of what the user, the poll and the server do
  Undefined      \* JavaScript's undefined

ASSUME PageAssumption ==
  PageSize \in Nat \ {0} /\ MaxPage \in Nat \ {0} /\ MaxRows \in Nat /\ MaxOps \in Nat

Page == 1 .. MaxPage

VARIABLES
  page,       \* the page asked for
  skip,       \* options.skip
  rows,       \* how many rows the server has
  swr,        \* key -> [data, error] in SWR's cache
  fetching,   \* key -> the request under way: [stage, page, rows]
  boundary,   \* the error boundary has caught an error
  ops         \* history: what the environment did

pageVars == <<page, skip, rows, swr, fetching, boundary, ops>>

NoFetch == [stage |-> "no", page |-> 0, rows |-> 0]

PageInit ==
  /\ page = 1 /\ skip \in BOOLEAN /\ rows \in 0 .. MaxRows
  /\ swr = [k \in Page |-> [data |-> Undefined, error |-> Undefined]]
  /\ fetching = [k \in Page |->
       IF k = 1 /\ ~skip THEN [stage |-> "sent", page |-> 1, rows |-> 0] ELSE NoFetch]
  /\ boundary = FALSE /\ ops = 0

-----------------------------------------------------------------------------
\* The classes that extend NonFatalError; any other error is fatal.
NonFatalError == {"NetworkError", "FetchError", "DataError"}

\* A null cursor, before the first row, is 0 here: an offset of 0 is null.
paginationToConnectionCursor(p) == [first |-> PageSize, after |-> (p - 1) * PageSize]

\* The server's connection (external): the rows after the cursor out of n, with
\* the totalCount that it reports, or none.
Connection(cursor, n, total) ==
  [edges |-> {r \in 1 .. n : cursor.after < r /\ r <= cursor.after + cursor.first},
   hasNextPage |-> cursor.after + cursor.first < n,
   hasPreviousPage |-> cursor.after > 0 /\ n > 0,
   totalCount |-> total]

\* Math.ceil
PagesFor(n) == (n + PageSize - 1) \div PageSize

\* totalPageCount, unknown without a total count.
TotalPageCount(total) == IF total = Undefined THEN Undefined ELSE PagesFor(total)

\* The page of a connection.
extractConnectionItems(connection, p) ==
  [data |-> connection.edges, page |-> p,
   totalPageCount |-> TotalPageCount(connection.totalCount),
   hasPrevious |-> connection.hasPreviousPage, hasNext |-> connection.hasNextPage,
   totalCount |-> connection.totalCount]

\* The fetcher's result for a page, from a server with n rows.
FetchedPage(p, n, total) ==
  extractConnectionItems(Connection(paginationToConnectionCursor(p), n, total), p)

ASSUME UndefinedAssumption ==
  /\ Undefined \notin 0 .. MaxRows /\ Undefined \notin NonFatalError \cup {"SyntaxError"}
  /\ \A p \in Page, n \in 0 .. MaxRows :
       \A total \in {n, Undefined} : FetchedPage(p, n, total) # Undefined

\* Fault: the pagination is no part of the SWR key.
KeyWithoutPage(p) == 1

\* The SWR key of [fetchItem, args]: the fetcher and the caller's own args do
\* not change here, the trailing pagination does.
SwrKey(p) == p

-----------------------------------------------------------------------------
\* SWR starts a request for the key, or keeps the one under way.
Revalidates(p) ==
  fetching' \in {fetching,
                 [fetching EXCEPT ![SwrKey(p)] = [stage |-> "sent", page |-> p, rows |-> 0]]}

\* SWR starts a request.
Fetches(p) ==
  fetching' = [fetching EXCEPT ![SwrKey(p)] = [stage |-> "sent", page |-> p, rows |-> 0]]

May == ~boundary /\ ops < MaxOps /\ ops' = ops + 1

\* The user turns the page, or options.skip changes.  A key that comes back is
\* shown from the cache while it is fetched again.
Turn(p, s) ==
  /\ May /\ <<p, s>> # <<page, skip>>
  /\ page' = p /\ skip' = s
  /\ IF s THEN UNCHANGED fetching
     ELSE IF fetching[SwrKey(p)].stage = "no" THEN Fetches(p) ELSE Revalidates(p)
  /\ UNCHANGED <<rows, swr, boundary>>

\* refetch, the poll, or SWR's own retry of a failed request.
Refetch ==
  /\ May /\ ~skip
  /\ IF fetching[SwrKey(page)].stage = "no" THEN Fetches(page) ELSE Revalidates(page)
  /\ UNCHANGED <<page, skip, rows, swr, boundary>>

\* Rows come and go on the server.
RowsChange(n) ==
  /\ May /\ n # rows
  /\ rows' = n
  /\ UNCHANGED <<page, skip, swr, fetching, boundary>>

\* The request of the key settles: data, or an error of a class.  SWR keeps the
\* data on an error and drops the error on data.
Settle(k, data, error) ==
  /\ swr' = [swr EXCEPT ![k] =
       [data |-> IF error = Undefined THEN data ELSE swr[k].data, error |-> error]]
  /\ fetching' = [fetching EXCEPT ![k] = NoFetch]
  /\ UNCHANGED <<page, skip, rows, boundary, ops>>

\* fetch() rejects (NetworkError) or the status is not OK (FetchError).
FetchFails(k) ==
  /\ ~boundary /\ fetching[k].stage = "sent"
  /\ \E error \in {"NetworkError", "FetchError"} : Settle(k, Undefined, error)

\* fetch() resolves with an OK response: the server has run the query.
Responds(k) ==
  /\ ~boundary /\ fetching[k].stage = "sent"
  /\ fetching' = [fetching EXCEPT ![k].stage = "body", ![k].rows = rows]
  /\ UNCHANGED <<page, skip, rows, swr, boundary, ops>>

\* response.json() rejects, as the body is no JSON or breaks off: nothing wraps
\* it in one of the package's errors.
BodyFails(k) ==
  /\ ~boundary /\ fetching[k].stage = "body"
  /\ Settle(k, Undefined, "SyntaxError")

\* The envelope has no data (DataError).
NoData(k) ==
  ~boundary /\ fetching[k].stage = "body" /\ Settle(k, Undefined, "DataError")

\* The envelope has data, with or without a totalCount: the fetcher returns the
\* page.
Answers(k) ==
  /\ ~boundary /\ fetching[k].stage = "body"
  /\ \E total \in {fetching[k].rows, Undefined} :
       Settle(k, FetchedPage(fetching[k].page, fetching[k].rows, total), Undefined)

\* What the hook reads of SWR; a null key has nothing.
Current ==
  IF skip THEN [data |-> Undefined, error |-> Undefined, isLoading |-> FALSE]
  ELSE [data |-> swr[SwrKey(page)].data, error |-> swr[SwrKey(page)].error,
        isLoading |-> fetching[SwrKey(page)].stage # "no" /\ swr[SwrKey(page)].data = Undefined]

\* The condition of the effect.
Throws == Current.error \notin NonFatalError \cup {Undefined}

\* The effect rethrows a fatal error: the error boundary catches it.
Effect ==
  /\ ~boundary /\ Throws
  /\ boundary' = TRUE
  /\ UNCHANGED <<page, skip, rows, swr, fetching, ops>>

AtRest ==
  /\ boundary \/ (ops = MaxOps /\ ~Throws /\ \A k \in Page : fetching[k].stage = "no")
  /\ UNCHANGED pageVars

RequestStep(k) == FetchFails(k) \/ Responds(k) \/ BodyFails(k) \/ NoData(k) \/ Answers(k)

PageNext ==
  \/ \E p \in Page, s \in BOOLEAN : Turn(p, s)
  \/ \E n \in 0 .. MaxRows : RowsChange(n)
  \/ \E k \in Page : RequestStep(k)
  \/ Refetch \/ Effect \/ AtRest

\* Requests settle (the browser gives up on a dead connection) and React runs
\* its effects.
PageFairness == WF_pageVars(Effect) /\ \A k \in Page : WF_pageVars(RequestStep(k))

PageSpec == PageInit /\ [][PageNext]_pageVars /\ PageFairness

-----------------------------------------------------------------------------
\* Fault: loading is read off the missing data, which a skipped fetch has too.
StatusLoadingWithoutData ==
  IF Current.error \in NonFatalError THEN "error"
  ELSE IF Current.data = Undefined THEN "loading" ELSE "ready"

\* The status of useResource.
Status ==
  IF Current.error \in NonFatalError THEN "error"
  ELSE IF Current.isLoading THEN "loading"
  ELSE IF Current.data = Undefined THEN "notFound" ELSE "ready"

\* The status of usePaginatedResource, and the page it shows with it.
View ==
  CASE Status \in {"loading", "error"} -> [status |-> Status, shows |-> Undefined]
    [] Status = "notFound" ->
         [status |-> "empty",
          shows |-> [data |-> {}, page |-> page, totalPageCount |-> Undefined,
                     hasPrevious |-> FALSE, hasNext |-> FALSE, totalCount |-> Undefined]]
    [] OTHER ->
         [status |-> IF Current.data.data = {} THEN "empty" ELSE "ready", shows |-> Current.data]

\* The page that row r is on.
PageOf(r) == (r - 1) \div PageSize + 1

\* The page p of n rows: its rows, a next page exactly when a later page has a
\* row, and, with a total count, as many pages as the rows fill.
IsPageOf(shown, p, n) ==
  /\ shown.page = p
  /\ shown.data = {r \in 1 .. n : PageOf(r) = p}
  /\ shown.hasNext <=> \E r \in 1 .. n : PageOf(r) > p
  /\ \/ shown.totalCount = Undefined /\ shown.totalPageCount = Undefined
     \/ shown.totalCount = n /\ shown.totalPageCount = Cardinality({PageOf(r) : r \in 1 .. n})

\* What is shown is the page asked for, of the rows the server had when it
\* answered, however pages are turned while requests are under way.  And "a
\* page that loaded successfully but contains no rows is `empty`": apart from a
\* skipped fetch, and the moment before a fatal error reaches the boundary, a
\* page that is still fetched or whose fetch failed is not shown as an empty one.
ShowsPageAsked ==
  View.shows # Undefined =>
    IF Current.data = Undefined THEN View.shows.page = page /\ (skip \/ Throws)
    ELSE \E n \in 0 .. MaxRows : IsPageOf(View.shows, page, n)

\* The user is not left with a spinner: loading ends.
LoadingEnds == View.status = "loading" ~> View.status # "loading" \/ boundary

-----------------------------------------------------------------------------
Request == [stage : {"no", "sent", "body"}, page : 0 .. MaxPage, rows : 0 .. MaxRows]
Total == 0 .. MaxRows \cup {Undefined}
Entry == [data : {FetchedPage(p, n, total) : p \in Page, n \in 0 .. MaxRows, total \in Total}
                   \cup {Undefined},
          error : NonFatalError \cup {"SyntaxError", Undefined}]

PageTypeOK ==
  /\ page \in Page /\ skip \in BOOLEAN /\ rows \in 0 .. MaxRows
  /\ fetching \in [Page -> Request] /\ swr \in [Page -> Entry]

\* The strengthening of ShowsPageAsked that steps preserve: a key's request is
\* for the key's own page and so is the data it left; a page on the screen is
\* being fetched, or has data, or has the error that its fetch ended with.
PageInv ==
  /\ PageTypeOK
  /\ \A k \in Page :
       /\ fetching[k].stage # "no" => fetching[k].page = k
       /\ swr[k].data # Undefined =>
            \E n \in 0 .. MaxRows, total \in Total :
              total \in {n, Undefined} /\ swr[k].data = FetchedPage(k, n, total)
  /\ ~skip /\ fetching[page].stage = "no" =>
       swr[page].data # Undefined \/ swr[page].error # Undefined
=============================================================================
