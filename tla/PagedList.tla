------------------------------- MODULE PagedList -------------------------------
(***************************************************************************)
(* The screens that page through a table: the trades, the error logs, the  *)
(* change log, the users and the portfolios (useInfiniteQuery), and the    *)
(* billing events and the marketplace, which ask for one page only.        *)
(*                                                                         *)
(* The server answers page n with ORDER BY, OFFSET and LIMIT; rows that    *)
(* tie come in any order, each time anew.  The order is by a time stamp,   *)
(* by the name, or of the users by the column that was tapped: a new row   *)
(* may have any place in it, and an update may move a row or take it in or *)
(* out of what is searched for.  A row that was moved is a new version     *)
(* with the old id.  A page is a set here: its own order is layout.        *)
(*                                                                         *)
(* A list is followed from the first fetch of its query; a new search or   *)
(* order of the users is a new query.  The return to a query whose pages   *)
(* are still cached is not followed.                                       *)
(***************************************************************************)
EXTENDS Integers, FiniteSets, FiniteSetsExt, Sequences

CONSTANTS
  Size,        \* rows of a page
  Places,      \* bound on the places in the order
  Start,       \* the places of the rows a table may have when the query begins
  Rows,        \* bound on the versions of rows there ever are
  Removals     \* bound on the versions that are removed or replaced

ASSUME SizeAssumption == Size \in Nat \ {0}
ASSUME BoundsAssumption ==
  /\ Rows \in Nat /\ Removals \in Nat /\ Places \in Nat
  /\ \A s \in Start : s \in Seq(1 .. Places) /\ Len(s) <= Rows

VARIABLES
  screen,      \* which of the screens it is
  place,       \* of the versions of rows, as they came: the higher is listed first
  id,          \* of the same, the row each is a version of
  live,        \* the versions that are there
  pages,       \* data.pages
  base,        \* history: the table's changes when the first page was read
  fetch,       \* the fetch in flight
  told,        \* history: how many changes when an own change was last told
  missed       \* history: no fetch was begun for it, or it was dropped

listVars == <<screen, place, id, live, pages, base, fetch, told, missed>>
database == <<place, id, live>>

-----------------------------------------------------------------------------
(* State                                                                   *)

(* more: asks for a next page.  loses: its rows are removed, too; moves:   *)
(* updates move them.                                                      *)
Grows == [more |-> TRUE, loses |-> FALSE, moves |-> FALSE]
TradesScreen == Grows
LogsScreen == Grows
ChangelogScreen == Grows
UsersScreen == [more |-> TRUE, loses |-> TRUE, moves |-> TRUE]
PortfoliosScreen == [more |-> TRUE, loses |-> TRUE, moves |-> FALSE]
BillingHistoryScreen == [more |-> FALSE, loses |-> FALSE, moves |-> FALSE]
ExploreScreen == [more |-> FALSE, loses |-> TRUE, moves |-> TRUE]

Screens ==
  {TradesScreen, LogsScreen, ChangelogScreen, UsersScreen, PortfoliosScreen,
   BillingHistoryScreen, ExploreScreen}

(* A version that replaces another counts as inserted, the other as removed. *)
Inserted == Len(place)
Removed == Len(place) - Cardinality(live)
Count == [inserted |-> Inserted, removed |-> Removed]

(* sent: got and, when the server has read it, the page on its way.        *)
Zero == [inserted |-> 0, removed |-> 0]
NoFetch == [kind |-> "none", got |-> <<>>, sent |-> <<>>, since |-> Zero]
FromStart == [kind |-> "reload", got |-> <<>>, sent |-> <<>>, since |-> Zero]

(* What the app may hold of the table so far.                              *)
Pages == Seq(SUBSET (1 .. Inserted))
Counted == [inserted : 0 .. Inserted, removed : 0 .. Removed]
Fetches == [kind : {"none", "reload", "next"}, got : Pages, sent : Pages, since : Counted]

ListTypeOK ==
  /\ screen \in Screens
  /\ place \in Seq(1 .. Places) /\ Inserted <= Rows
  /\ id \in Seq(Nat) /\ Len(id) = Inserted
  /\ \A i \in 1 .. Inserted : id[i] \in 1 .. i
  /\ live \subseteq 1 .. Inserted /\ Removed <= Removals
  /\ \A r, x \in live : id[r] = id[x] => r = x
  /\ pages \in Pages /\ base \in Counted
  /\ fetch \in Fetches
  /\ told \in 0 .. Inserted + Removed
  /\ missed \in BOOLEAN

ListInit ==
  /\ screen \in Screens
  /\ place \in Start
  /\ id = [i \in DOMAIN place |-> i]
  /\ live = DOMAIN place
  /\ pages = <<>>
  /\ base = Zero
  /\ fetch = FromStart
  /\ told = 0
  /\ missed = FALSE

-----------------------------------------------------------------------------
(* Server                                                                  *)

Before(t) == {r \in live : place[r] > t}
Of(t) == {r \in live : place[r] = t}

(* The place of the k-th row.                                              *)
PlaceOf(k) ==
  CHOOSE t \in 0 .. Places :
    Cardinality(Before(t)) <= k /\ (t = 0 \/ Cardinality(Before(t - 1)) > k)

(* The first k rows, or all: all the rows before the k-th, and others that *)
(* tie with it.                                                            *)
First(k) ==
  IF k >= Cardinality(live) THEN {live}
  ELSE LET t == PlaceOf(k)
       IN {Before(t) \cup x : x \in kSubset(k - Cardinality(Before(t)), Of(t))}

(* What OFFSET (n - 1) * Size LIMIT Size may answer.                       *)
Find(n) ==
  {ab[2] \ ab[1] :
     ab \in {xy \in First((n - 1) * Size) \X First(n * Size) : xy[1] \subseteq xy[2]}}

App == <<screen, pages, base, fetch, told, missed>>

(* A new row, or one that the search did not find before.                  *)
Insert ==
  /\ Inserted < Rows
  /\ \E k \in 1 .. Places : place' = Append(place, k)
  /\ id' = Append(id, Inserted + 1)
  /\ live' = live \cup {Inserted + 1}
  /\ UNCHANGED App

Remove ==
  /\ screen.loses /\ Removed < Removals
  /\ \E r \in live : live' = live \ {r}
  /\ UNCHANGED <<place, id, App>>

(* An update of what the order is by.  One that leaves the row in its      *)
(* place changes nothing here.                                             *)
Move ==
  /\ screen.moves /\ Inserted < Rows /\ Removed < Removals
  /\ \E r \in live :
       /\ \E k \in (1 .. Places) \ {place[r]} : place' = Append(place, k)
       /\ id' = Append(id, id[r])
       /\ live' = (live \ {r}) \cup {Inserted + 1}
  /\ UNCHANGED App

-----------------------------------------------------------------------------
(* Client                                                                  *)

(* Mutants: a page is full with one row more; the next page is passed over.*)
FullByOne(p) == Cardinality(p) = Size + 1
NextBeyond(got) == IF got = <<>> THEN 1 ELSE Len(got) + 2

(* getNextPageParam: a full page has a successor.                          *)
Full(p) == Cardinality(p) = Size
NextParam(got) == Len(got) + 1
HasNext(got) == screen.more /\ got # <<>> /\ Full(got[Len(got)])

(* Mutant: a reload in flight is left to end.                              *)
ReloadUnlessReloading ==
  fetch' = IF fetch.kind = "reload" THEN fetch
           ELSE FromStart

(* A reload drops what is in flight and asks for the pages from the first; *)
(* but a fetch that is the query's first goes on.                          *)
Reload == fetch' = IF pages = <<>> THEN fetch ELSE FromStart

(* onRefresh.                                                              *)
PullToRefresh ==
  /\ Reload
  /\ missed' = (missed /\ pages = <<>>)
  /\ UNCHANGED <<screen, database, pages, base, told>>

(* An own update or deletion, perhaps begun in a list before this one,     *)
(* succeeds: invalidateQueries.                                            *)
Invalidate ==
  /\ screen \in {UsersScreen, PortfoliosScreen}
  /\ Reload
  /\ told' = Inserted + Removed
  /\ missed' = (pages = <<>> /\ fetch.sent # <<>>)
  /\ UNCHANGED <<screen, database, pages, base>>

(* onEndReached; fetchNextPage drops a reload in flight.                   *)
EndReached ==
  /\ HasNext(pages) /\ fetch.kind # "next"
  /\ fetch' = [kind |-> "next", got |-> pages, sent |-> pages, since |-> base]
  /\ missed' = (missed \/ fetch.kind = "reload")
  /\ UNCHANGED <<screen, database, pages, base, told>>

(* The pages are asked for one by one, as many as there were and as long   *)
(* as the last is full, and replace the list together.                     *)
Last(got) ==
  \/ fetch.kind = "next"
  \/ Len(got) >= Len(pages)
  \/ ~ HasNext(got)

OnItsWay == fetch.sent # fetch.got

(* The server reads the page that was asked for.                           *)
Read ==
  /\ fetch.kind # "none" /\ ~ OnItsWay
  /\ \E p \in Find(NextParam(fetch.got)) :
       fetch' = [fetch EXCEPT !.sent = Append(fetch.got, p),
                              !.since = IF fetch.got = <<>> THEN Count ELSE @]
  /\ UNCHANGED <<screen, database, pages, base, told, missed>>

Receive ==
  /\ OnItsWay
  /\ IF Last(fetch.sent)
     THEN /\ pages' = fetch.sent
          /\ base' = fetch.since
          /\ fetch' = NoFetch
     ELSE /\ fetch' = [fetch EXCEPT !.got = fetch.sent]
          /\ UNCHANGED <<pages, base>>
  /\ UNCHANGED <<screen, database, told, missed>>

(* The answer is lost and the page is asked for again.                     *)
Lose ==
  /\ OnItsWay
  /\ fetch' = [fetch EXCEPT !.sent = fetch.got]
  /\ missed' = (missed /\ fetch.got # <<>>)
  /\ UNCHANGED <<screen, database, pages, base, told>>

ListNext ==
  \/ Insert \/ Remove \/ Move
  \/ PullToRefresh \/ Invalidate \/ EndReached
  \/ Read \/ Receive \/ Lose

ListSpec == ListInit /\ [][ListNext]_listVars

-----------------------------------------------------------------------------
(* Properties                                                              *)

All(got) == UNION {got[n] : n \in DOMAIN got}
Shown == All(pages)
Ids(got) == {id[r] : r \in All(got)}
Alone(r) == \A x \in 1 .. Inserted : id[x] # id[r] => place[x] # place[r]

(* Of the rows that were there at the first page.                          *)
Skipped(got, since) ==
  {a \in 1 .. since.inserted \ Ids(got) :
     \E r \in live :
       id[r] = a /\ Alone(r) /\ \E x \in All(got) : place[x] < place[r]}

Repeated(got) ==
  {a \in Ids(got) :
     \E i, j \in DOMAIN got : i < j /\ \E r \in got[i], x \in got[j] :
       id[r] = a /\ id[x] = a /\ Alone(r) /\ Alone(x)}

(* Offsets shift as rows come, go and move between the answers to two      *)
(* pages.  Of the rows that tie with no other, one that is not shown but   *)
(* belongs before one that is, is skipped only for a row removed or moved  *)
(* since the first page; and one is listed twice, under one key of the     *)
(* FlatList, only for a row inserted or moved since.  A list that only     *)
(* grows skips none.  Rows that tie may be skipped or repeated as they are. *)
DriftBounded ==
  /\ Cardinality(Skipped(pages, base)) <= Removed - base.removed
  /\ Cardinality(Repeated(pages)) <= Inserted - base.inserted

(* A list at its end, of a table with no change since and no two rows that *)
(* tie, is the whole table; where only one page is asked for, it is the    *)
(* first rows in the order.                                                *)
EndIsTheEnd ==
  /\ fetch.kind = "none" /\ base = Count /\ ~ HasNext(pages)
  /\ \A r \in 1 .. Inserted : Alone(r)
  => \/ Shown = live
     \/ ~ screen.more /\ Shown \in First(Size)

(* A list at rest shows the table as it was after the last own change, but *)
(* for two cases: the end of the list was reached while it was reloaded;   *)
(* or the success was told when the first fetch of a new search or order   *)
(* had been read already and was on its way.                               *)
OwnChangesShown ==
  fetch.kind = "none" /\ ~ missed =>
    base.inserted + base.removed >= told

=============================================================================
