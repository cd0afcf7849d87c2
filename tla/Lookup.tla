-------------------------------- MODULE Lookup --------------------------------
(***************************************************************************)
(* The lookup that pages use to pick one of many (AsyncCombobox): a search *)
(* box over a list that is fetched page by page.                           *)
(*                                                                         *)
(* A new search waits a moment, then fetches page 0; the fetch is given up *)
(* when the search changes or the list is closed.  A further page that was *)
(* asked for is never given up.                                            *)
(***************************************************************************)
EXTENDS Naturals

CONSTANTS Searches,   \* what may be typed
          First,      \* the empty search
          MaxPage,    \* bound: the last page that is fetched
          NoSearch

ASSUME LookupAssumption == /\ First \in Searches
                           /\ NoSearch \notin Searches
                           /\ MaxPage \in Nat

VARIABLES open,      \* whether the list is open
          search,    \* the search box
          items,     \* the pages in the list: search and number
          page,      \* the number of the last page
          loading,   \* whether the list says that it is loading
          hasMore,   \* whether the last page was full
          timer,     \* whether a new search waits for the debounce
          fetching,  \* the search whose page 0 was asked for
          more,      \* the further pages that were asked for
          stray      \* whether a page came late or never

lookupVars == <<open, search, items, page, loading, hasMore, timer, fetching, more, stray>>

PageIds == Searches \X (0 .. MaxPage)

LookupInit == /\ open = FALSE
              /\ search = First
              /\ items = {}
              /\ page = 0
              /\ loading = FALSE
              /\ hasMore = FALSE
              /\ timer = FALSE
              /\ fetching = NoSearch
              /\ more = {}
              /\ stray = FALSE

\* The lookup is put on the page again.
Renew == /\ open' = FALSE
         /\ search' = First
         /\ items' = {}
         /\ page' = 0
         /\ loading' = FALSE
         /\ hasMore' = FALSE
         /\ timer' = FALSE
         /\ fetching' = NoSearch
         /\ more' = {}
         /\ stray' = FALSE

Open == /\ ~open
        /\ open' = TRUE
        /\ timer' = TRUE
        /\ UNCHANGED <<search, items, page, loading, hasMore, fetching, more, stray>>

\* Closing keeps the search and the list, and loading as it is.
Close == /\ open
         /\ open' = FALSE
         /\ timer' = FALSE
         /\ fetching' = NoSearch
         /\ UNCHANGED <<search, items, page, loading, hasMore, more, stray>>

TypeSearch(s) == /\ open
                 /\ s # search
                 /\ search' = s
                 /\ timer' = TRUE
                 /\ fetching' = NoSearch
                 /\ UNCHANGED <<open, items, page, loading, hasMore, more, stray>>

Fetch == /\ timer
         /\ timer' = FALSE
         /\ loading' = TRUE
         /\ fetching' = search
         /\ UNCHANGED <<open, search, items, page, hasMore, more, stray>>

FetchLands == /\ fetching # NoSearch
              /\ items' = {<<fetching, 0>>}
              /\ page' = 0
              /\ hasMore' \in BOOLEAN
              /\ loading' = FALSE
              /\ fetching' = NoSearch
              /\ stray' = FALSE
              /\ UNCHANGED <<open, search, timer, more>>

FetchFails == /\ fetching # NoSearch
              /\ loading' = FALSE
              /\ fetching' = NoSearch
              /\ stray' = TRUE
              /\ UNCHANGED <<open, search, items, page, hasMore, timer, more>>

LoadMore == /\ open
            /\ items # {}
            /\ hasMore
            /\ ~loading
            /\ page < MaxPage
            /\ loading' = TRUE
            /\ more' = more \cup {<<search, page + 1>>}
            /\ UNCHANGED <<open, search, items, page, hasMore, timer, fetching, stray>>

MoreLands(q) == /\ q \in more
                /\ items' = items \cup {q}
                /\ page' = q[2]
                /\ hasMore' \in BOOLEAN
                /\ loading' = FALSE
                /\ more' = more \ {q}
                /\ stray' = (stray \/ q # <<search, page + 1>>)
                /\ UNCHANGED <<open, search, timer, fetching>>

MoreFails(q) == /\ q \in more
                /\ loading' = FALSE
                /\ more' = more \ {q}
                /\ UNCHANGED <<open, search, items, page, hasMore, timer, fetching, stray>>

ListStep == \/ Open \/ Fetch \/ FetchLands \/ FetchFails \/ LoadMore
            \/ \E s \in Searches : TypeSearch(s)
            \/ \E q \in PageIds : MoreLands(q) \/ MoreFails(q)

LookupSpec == LookupInit /\ [][ListStep \/ Close \/ Renew]_lookupVars

-----------------------------------------------------------------------------
LookupTypeOK == /\ open \in BOOLEAN
                /\ search \in Searches
                /\ items \in SUBSET PageIds
                /\ page \in 0 .. MaxPage
                /\ loading \in BOOLEAN
                /\ hasMore \in BOOLEAN
                /\ timer \in BOOLEAN
                /\ fetching \in Searches \cup {NoSearch}
                /\ more \in SUBSET PageIds
                /\ stray \in BOOLEAN

\* An open list that is not about to be fetched anew is the pages of what
\* stands in the search box, from the first to the last without a gap -
\* unless a further page of an earlier search came late, or a fetch failed
\* (async-combobox.tsx:67-112).
ListIsWhole == open /\ ~timer /\ fetching = NoSearch /\ ~stray =>
                 items = {<<search, p>> : p \in 0 .. page}
=============================================================================
