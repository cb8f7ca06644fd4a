# Twin Trades: a TLA+ verification project

Twin Trades is a mobile app (Expo / React Native, `src/frontend`) over a
FastAPI server (`src/backend`) with one MySQL database. Administrators compose
*portfolios* of tickers with target percentages; a subscribed user *joins* a
portfolio and, with a linked brokerage account, has buys queued for it. The
program's difficulty is not in any one handler, each of which is a few
statements, but in what happens when handlers overlap: on the server almost
every one of them reads, decides and then writes, and the database constrains
little; in the app every screen waits for answers that arrive after the user,
a timer or another screen has moved on. The modules here model those overlaps;
TLC checks them on small instances, and TLAPS proves for every instance what it
checks, one liveness property excepted.

## 1. Inventory

| Component (code) | State | Operations | Interacts with |
|---|---|---|---|
| Portfolio membership (`services/PortfolioService.py`, `controllers/PortfolioDbContext.py`) | `user_portfolios`, `trades` | join, leave, listings | subscriptions and connections (read by join), administration |
| Portfolio administration (`services/AdminService.py`, `ChangeLogService.py`; `app/(app)/admin/portfolios.tsx`, `portfolios/[id].tsx`) | `portfolios`, `portfolio_holdings`, `portfolio_holding_history`, `change_log`; editors, pending mutations and cached queries of two screens | create, update, toggle, delete, update_holdings, remove_user, and the presses that lead to them | membership, rebalance events |
| Subscriptions (`services/SubscriptionService.py`, `controllers/SubscriptionDbContext.py`) | `subscriptions`, `subscription_billing_events` | verify-apple, cancel, admin cancel, status | App Store, the gate of join |
| Sessions and codes (`services/AuthService.py`, `controllers/AuthDbContext.py`, `helper/Security.py`) | `users`, `refresh_tokens`, `otp_tokens` | register, login, refresh, logout, change / forgot / reset password, request / verify code | mail, the app's client |
| Users and their administration (`services/UserService.py`, `AdminService.py`; `app/(app)/admin/users.tsx`) | `users`; the sheet, its drafts and requests | update, role, password, soft delete, own deletion | sessions, subscriptions |
| API client (`frontend/services/api/client.ts`, `keychain.ts`, `auth.ts`) | keychain, `isRefreshing`, `refreshSubscribers` | request and response interceptors, sign-in, sign-out | sessions |
| Launch and sign-in (`app/_layout.tsx`, `app/(auth)/*`, `change-password.tsx`, settings screens) | `authStore`, the cached lists, the screen on top | resolveInitialRoot, sign in, register, reset, change password, sign out, delete the account | API client, sessions |
| Join flow (`app/(app)/join/[id].tsx`, `services/iap.ts`, `joinContext.ts`, `app/oauth/callback.tsx`) | screen state, pending join | purchase, restore, connect, confirm | subscriptions, brokerage, membership |
| Rebalance events (`services/RebalanceService.py`; `RebalanceConfirmSheet.tsx`, `(tabs)/index.tsx`) | `rebalance_events`; the list, the sheet | confirm, reject; creation and expiry are stubs | membership, deletion of portfolios |
| Portfolio of a member (`app/(app)/portfolio/[id].tsx`) | the screen, a timer | open, leave, go to the join flow | membership |
| Lists in pages (`trades.tsx`, `admin/logs.tsx`, `changelog.tsx`, `users.tsx`, `portfolios.tsx`, `billing-history.tsx`, `marketplace.tsx` and their queries) | a table ordered by a time, a name or a column; the pages fetched | next page, reload, search, invalidate | every table that is listed |
| Brokerage (`services/BrokerageService.py`, `brokerages/`) | `brokerage_connections` | OAuth initiate / callback, disconnect, batch token refresh | brokers, join |
| Jobs, webhook, push, reports | | empty bodies | |

What is hard in it, with the place where each hazard bites, is the list
`hazards` of `PROJECT.json`. In short: check-then-act over unconstrained rows
(join, refresh, codes, events, the last site administrator), stale reads in
long requests (verify-apple awaits the App Store), deletion against late inserts, one-use tokens against lost replies and concurrent 401s, rounding of
percentages, pages cut by offset from a table whose rows come, go, move and tie,
and in the app late answers, timers and caches that outlive the screen or the user they belong to.

What makes each component correct: a user is in a portfolio at most once per
request in flight, only while its conditions held, and nothing outlives a
deleted portfolio; the logs tell the truth; a payment belongs to one account
and a cancellation is not undone by accident; a refresh token is exchanged
once, signing out ends sessions; the client refreshes once at a time and every
request is answered or waits for a refresh; what a screen shows at rest is current and the user's own,
and what it sends is what was typed for that row.

## 2. How the system is read

* **One request, one session, one transaction.** `get_session` gives every
  request its own session; handlers commit once, at the end. The first
  statement of an authenticated request is `get_current_user`'s SELECT. Under
  InnoDB's default REPEATABLE READ it fixes the snapshot all plain SELECTs of
  the request answer from, while UPDATE, DELETE, unique and foreign-key checks
  read the current rows and hold their locks to the commit. So a request is two
  steps in the server modules: `Begin…` (what the snapshot shows) and its
  commit (writes to the current tables). `RollBack` is every other end:
  an early return, a constraint violation, a deadlock victim, a crash, and a
  change-log insert that failed (it is swallowed, but the session then refuses
  to commit). Where a module is about the app and the overlap of two requests
  on the server changes nothing for its properties, a handler is one step.
* **The ORM writes what differs.** An attribute set to the value it was loaded
  with is not in the UPDATE. `Subscription` (`Reactivate`) and `AdminUsers`
  depend on it.
* **Conversions.** `NUMERIC(18,2)` rounds (`Stored`), `created_at` has a
  resolution of a second and ties (`Newest`), as do the columns the users are
  ordered by (`PagedList`), `LIMIT 1` picks one, and a dictionary keeps the last
  of the lines that share a key (`NewMap`, `OldMaps`).
* **JavaScript** runs one callback at a time: an action of the app is what
  happens between two awaits. A mutation's callbacks run also after its screen
  is gone; a query's answer is dropped when a newer fetch of it has started, and
  `invalidateQueries` starts one, except for a query that has no data yet, whose
  first fetch goes on.
* **A request is bound when it is sent** to the token the keychain has then. The
  server reads, and the answer arrives, in steps of their own wherever something
  can come between that matters (`Read` and `Receive` in `PagedList`, the steps of
  the refresh in `ApiClient` and `SignIn`).
* **Loading overlays** cover the screen while a mutation is pending, but not a
  `Modal` or an `Alert`; that decides what can be pressed in `AdminPortfolio`,
  `AdminUsers` and `Dashboard`.

## 3. Modules

| Module | Models |
|---|---|
| `Membership` | join, leave, remove_user, create, toggle, delete, update_holdings as concurrent requests. `open[u, p]` counts the open rows of a pair, because nothing keeps it at one; `holdings[p]` is a version; `ChangeEntitlement` and `ChangeConnection` stand for the commits of other services that join reads |
| `MembershipPromise` | the abstract API: membership is a bit, every call is atomic |
| `JoinHistory` | `Membership` with a history variable: the instants of a join at which the database allowed it |
| `Subscription` | verify-apple (insert or update of the row of a transaction), both cancels, billing events, the exemption, the clock that `created_at` ties on |
| `AuthTokens` | refresh tokens and one-time codes: Begin/commit of login, refresh, change, logout, deletion, sending, verifying, resetting. Tokens carry the *era* of the sign-in they descend from, a history value |
| `ApiClient` | the interceptors stage by stage (`reading`, `sent`, `refused`, `queued`, `lookup`, `posted`, `granted`, …), two keychain entries written one by one, the launch, sign-in, sign-out, restarts, and the server as far as it answers; of a refresh the server's check (`Accept`) and its commit (`Rotate`) are two steps, which a sign-out can come between |
| `SignIn` | one device and the people who use it: the launch and every screen that changes who is signed in, each a *flow* of a few steps in one of two slots, over the keychain, the store, the cached lists and the server's accounts. A flow's request, or the list's, is sent with the token of that moment (`Sent`), read, refused or lost, and waits where a refresh runs; the refresh's read, commit and `saveTokens` are steps of their own. Restarts act in between; other devices only make requests fail, which any may |
| `JoinFlow` | the join screen with its steps, effects and timer, purchases and restores through the App Store, the broker's redirect, join requests with time-outs, restarts of the app; its server is an instance of `Membership` |
| `HoldingsHistory` | the holdings of one portfolio and their history: lines of which two may name one ticker, rounding, the change threshold and the history rows, as operators |
| `AdminPortfolio` | the two screens of a portfolio's administration: editors, drafts, alerts, mutations, those of the list included, and the detail's cached query, over the server's handlers; its holdings are an instance of `HoldingsHistory` |
| `AdminUsers` | the screen of the users with its sheet, over update_user and delete_user that other administrators call as well |
| `Dashboard` | the list of pending rebalances, the sheet that decides them, the screen of a portfolio where the member leaves it, and RebalanceService |
| `PagedList` | the seven lists that ask for pages by offset, from the query to what the screen has put together. The order is any: a row has a *place*, several may share one and then come in any order each time; an update moves a row, as a new version of it |
| `MembershipProofs`, `SubscriptionProofs`, `SignInProofs`, `JoinFlowProofs`, `DashboardProofs`, `AdminPortfolioProofs` | theorems about the module of that name (`MembershipProofs` also about `JoinHistory`) |
| `SessionProofs` | theorems about `AuthTokens` and `ApiClient`, the two ends of a session |
| `AdminListProofs` | theorems about `AdminUsers` and `PagedList`, the sheet of the users and the list under it |
| `MC…` | the modules with the sets of values and the symmetries for TLC |

Who composes whom: `JoinFlow` runs `Membership`'s actions as its server,
`JoinHistory` extends `Membership`, `AdminPortfolio` instantiates
`HoldingsHistory`. `SignIn` is one level above `ApiClient` and `AuthTokens`: the
keychain is one token there, not two entries, a session one flag, and who waits
for a refresh is known but not who runs it, so that a refresh that fails
answers any one of them, or none.

`PROJECT.json` maps each definition to its lines. Operators whose comment
begins with "Mutant" are plausible bugs of the definition after them; the
specifications do not use them, and each property of a run is violated
when one of them takes the definition's place.

Names inside the modules are the code's where they can be: `Revoked` is
`revoke_all_refresh_tokens`, `Invalidated` is `invalidate_otps`, `Lead` and
`Queue` are the two sides of `if (isRefreshing)`. Variables marked *history*
record what happened for the properties' sake; no action reads them, except to
update them.

## 4. What the runs check

* `membership` (1 user, 1 portfolio, 2 sessions, 2 holdings versions, 1 batch),
  under `HSpec` of `JoinHistory`, which only adds a history variable.
  `MembershipsBounded`: a pair has at most as many open rows as requests can
  overlap, however long the history. `NoOrphanRows`: nothing of a deleted
  portfolio remains although joins and updates commit after it. `ToggleLogTells`:
  the newest toggle entry is the portfolio's state although it comes from a
  stale read. `JoinsWereAllowed`, `BuysMatchAllowedJoin`: a join that commits was
  allowed at one instant of its life by all conditions together, and its buys are
  those of such an instant; this is what the snapshot guarantees, stated in real
  time. Pairs do not interact in these properties, so one pair is enough, and two
  sessions suffice for a race of two; the proofs cover the rest. `TypeOK` is
  checked here and proved for the others.
* `membership_serial` (2 users, 1 portfolio, 1 session). The refinement
  `KeepsPromise`: with requests one at a time the handlers implement
  `MembershipPromise`. With two sessions they do not (see 6).
* `subscription` (2 users, 2 transactions, 2 sessions, 1 tick, 3 events).
  Payments belong to the row's owner; a committed cancellation is undone only by
  a verification begun after it, or by one begun before when another verification
  of the same transaction activated the row while it ran (`met` records what the
  row became); and cancellations are recorded at most
  once per overlapping request and activation. Three payments of a transaction are
  its insertion and two verifications, enough for a cancellation, an activation
  and a second cancellation under one long verification.
* `auth_tokens` (1 user, 4 tokens, 2 codes, 2 sessions). `RotationBounded`,
  `OldSessionsBounded`, `AtMostOneLiveCode`, `CodeUseBounded`. Users share no
  rows, so one is enough; four tokens are a sign-in, a survivor of a sign-out
  and two refreshes of it, and two codes a code and the one that replaces it.
  `CHECK_DEADLOCK FALSE`: with the only account deleted, nothing more can happen.
* `api_client` (2 screens' requests, the launch's two, 3 pairs, `FairSpec`):
  `SingleFlight`, `PresentsLiveToken`, and the liveness property `CallSettles`:
  every request is answered unless it waits for a refresh, its own or another's,
  and one sent again after a refresh is answered for good (see 6). Three pairs are two rotations in a row, which a stale token needs.
* `api_client_sign` (the launch, one sign-in, one sign-out): `SignOutHolds`: no
  live refresh token is in the keychain after a sign-out, unless the server had
  accepted a refresh when it committed the sign-out (`raced`).
* `join_flow` (1 transaction, 2 attempts). `FinishedIsRecorded`: no purchase is
  acknowledged to the store before the server has it, through lost answers,
  restores and restarts. `SuccessIsTrue`: the success screen is shown to a member
  with buys queued. `RetryIsSafe`: trying again after a failure, a time-out or a
  restart adds no membership; only a Confirm during an unfinished request can.
  Two attempts are a request and its retry.
* `admin_portfolio` (2 tickers, payloads of 3 lines, 100 % = 2 hundredths, 2 typed
  sets of holdings: one exact, one that names a ticker twice and is rounded; 1
  text, 2 mutations of this app in flight, 2 changes). `HistoryTells` and
  `AllocationBounded`: what is typed, accepted and rounded leaves a history that
  tells the allocation of each ticker not named twice since it last moved, and a
  total within the tolerance and the rounding. `EditorIsTheSavedOne`: the answer
  of a save never closes an editor opened after it. `OwnChangesShown`: a detail at
  rest, left and opened again or not, shows every own change its query was told
  of, whatever fetches were in flight; one it was not told of (`missed`: made in
  the list, a deletion, or told after the screen was left with an older answer on
  its way) may be missing until the server is asked anew. `FieldsKept`: a save of
  the texts, of a portfolio unchanged since it was shown, changes none that was
  not edited. The scale of a percentage does not matter: only the tolerance, the
  rounding and the number of rows do.
* `admin_users` (2 users, 2 texts, 2 changes). `LastSiteAdminStays`: no
  administrator is left only after a demotion, the deletion of an own account, or
  deletions that overlapped. `PasswordReachesItsUser`: though drafts outlive the
  sheet, a password is sent to the user it was typed for. `EditsKept`: a save
  overwrites no field its administrator did not edit, however old its row.
* `dashboard` (2 events, 2 timers). `ToldOnce`: a member is told one decision of an
  event at most. `OwnChangesShown`: the list at rest shows nothing the member has
  decided. `DecisionStands`: a decision is contradicted only by a request begun
  before it. `TimerPopsItsScreen`: the `router.back` 1.2 s after a leave closes
  the portfolio's screen unless the user has moved on.
* `paged_list` (pages of 2, a table of 4 or 5 rows, with or without two that tie, 5
  versions of rows, 2 removed or replaced, 11 places so that a row can come
  before, between, behind or beside the others). `DriftBounded`: of the rows that
  tie with no other, a list skips at most as many as were removed or moved, and
  repeats at most as many as were inserted or moved, since its first page.
  `EndIsTheEnd`: a list at its end is the whole table, or one page the first rows
  in its order, when nothing has changed and no rows tie. `OwnChangesShown`: a list
  at rest was read after the last own change, with two exceptions (`missed`, see 6).
  A table of five in pages of two is three pages, the last not full.
* `sign_in` (2 people, 2 slots, 2 flows begun on a screen; people and slots are
  interchangeable). `UserHoldsKey`: the user shown is the account the calls are
  made for, unless flows overlapped or tokens were saved while a refresh of
  another account ran (`crossed`). `DataIsOwners`: the lists at rest are then the
  user's own, unless they were fresh at the sign-in, a fetch sent with the former
  user's token was on its way, or the refetch failed (`excused`).
  `ForcedUserChanges`: who must change the password is not let in before, unless
  the restricted token was refreshed (`aged`). `SignedOutStaysOut`: who signed out
  or deleted the account is not signed in by a restart, a refresh that ends late
  or anything but a sign-in, unless another flow ran or the server had let in, or
  would still let in, a refresh. The app starts with or without the tokens of an
  earlier sign-in, and launches are not counted, so two flows begun on a screen
  are a sign-out and the next person's sign-in, a forced sign-in and the change of
  the password, or any two that overlap.

`JoinFlow` starts with an active portfolio that has holdings and is not
administrated meanwhile; every refusal is among its outcomes anyway. Purchases
are new transactions, and one restore runs at a time. The listener of a purchase
is called with that purchase.

### Fairness

Only `api_client` needs it. `ApiClient!FairSpec`: `WF` of `Progress(r)`:
promises that are due run, and a request of `apiClient` is answered or runs into
its 15-second timeout (`client.ts:23`). The refresh is not one of them: it is
posted with bare axios, which has no timeout (`client.ts:64`), so nothing obliges
its answer (`Answer`), and `CallSettles` lets a request wait there. Nothing is
assumed of users, of expiry or of restarts either.

### Bounds

`MaxVersion`, `MaxTrades`, `MaxEvents`, `MaxTime`, `MaxEra`, `MaxPair`,
`MaxCommits`, `MaxTimers`, `MaxFlows`, `Rows`, `Removals` and `Places` cap the counters in
the guards of the actions that count; sets of tokens, codes and attempts are
finite identities used once. They end behaviours early and never change what an
action does.

## 5. What is proved

Everything the runs check is proved for every value of the constants, except
the liveness of `CallSettles`. The assumptions are those in the modules:
sessions, attempts, users and tickers are finite non-empty sets (they are
counted or summed over), tokens and transactions are identities, the names the
modules use beside a set are not in it (`AccountAssumption`, `KindAssumption`,
`FlowAssumption`, `TextAssumption`), a page has at least one row
(`SizeAssumption`), 100 % is some positive number of hundredths
(`WholeAssumption`), and bounds are numbers. Each proof is an induction; the
invariant that carries it is the interesting part.

* **`MembershipProofs`.** `NoOrphans` is inductive with the types: an INSERT needs
  the portfolio's row at the commit. `ToggleLogCorrect` adds "what was never
  created was never toggled". `DuplicatesBounded`: the bound alone is not
  inductive, as a state with as many rows as sessions and a join that saw none
  would exceed it. `BlindInv` adds the *blind* joins, those in progress whose
  snapshot showed no row: `open[up] + |Blind(up)| <= |Session|`. A join that
  begins while a row is open is not blind; one that commits turns from blind to
  row; leaving and deletion only take rows away. `SerialMembership` and
  `SerialRefinement`: with one session a pair has one row at most and every step
  is a step of `MembershipPromise` or a stutter, because the one snapshot is
  current (`StepCurrent`). `JoinsAllowed` and `BuysAllowed` follow from
  `SnapshotSeen`: the instant of the snapshot is one of the instants recorded.
* **`SubscriptionProofs`.** `PaymentsReachTheOwner` from `SawInv`: a row that a
  request saw is still there and of the same user. `CancellationStands` from
  `MetInv`: the row of a verification that found it cancelled, and that nobody has
  activated since, has been cancelled all the time, so that no later
  cancellation is there to be undone; one that found the row active writes no
  status at all. `CancellationsFollowActivations` from `CancelInv`: an active row has a
  round of `|Session|` cancellations still to come, a cancelled one only those of
  the requests that found it when they began.
* **`SessionProofs`**, of `AuthTokens`. `OneCodeWorks`: sending a code retires those the
  snapshot missed, too, as the UPDATE reads the current rows; requests that send
  hold different codes, not yet stored (`SendersFresh`). `TokensRotate` and
  `CodesAreUsedUp` count uses with the requests that can still make one, as
  `BlindInv` does. `OldSessionsEnd` from `OldInv`: the tokens older than the last
  sign-out, with the logins that can still insert one, are fewer than the
  sessions, and a refresh leaves its user with one.
* **`SessionProofs`**, of `ApiClient`. `OneRefresh` from `LockInv`: who runs the refresh holds
  `isRefreshing`, alone. `LiveTokenPresented` from `FreshInv`: the newest pair is
  in the keychain's refresh entry, or on its way there with the leader.
  `SignOutIsFinal` from `OutInv`: a sign-out leaves no live token on the server,
  and if no refresh had been accepted at its commit none will be, as that needs a
  live one; so whatever is saved afterwards is dead.
* **`SignInProofs`.** One lemma for each variable says what a step may do to it
  (`KeyStep`, `RefreshStep`, `CallStep`, `FlowStep`, …); the theorems use these
  instead of the actions. `RestrictionHolds`, from `IInv`: no token that opens
  every call, in the keychain or with the refresh, no answer a handler still waits
  with and no user of the store is of an account that is restricted; overlapping
  flows included. `ShownIsCalled` from `PlayInv`: `InPlay` are the accounts of the
  keychain's token, of the refresh, of the store's user and of the flows'
  requests. Every step but a sign-in and a restart only shrinks it
  (`PlayShrinks`); a sign-in starts where nobody is shown and no other account's
  refresh runs, or the overlap is in `crossed`; so it never has two members.
  `TabsAreOwn` from `DataInv`: where the tabs show data, the list at rest, and
  whom a fetch is sent or was answered for, is all that is in play.
  `SignedOutForGood` from `OutInv`: once out, the token in the keychain and the
  refresh's are none or of a deleted account (`Barren`), or the refresh has still
  to present a dead one (`Spent`), and no request sent can be let in (`Refusable`).
* **`JoinFlowProofs`.** `NoPurchaseLost` from `PurchaseInv`: what a flow holds for
  acknowledgement is recorded. `RetryJoinsOnce` from `RetryInv`, which counts the
  rows and the requests that can still insert one, `CanJoin`: a Confirm with
  nothing unsettled finds it empty; one that overlaps is paid for by
  `overlapped`. `SuccessIsEarned` from `SuccessInv`: a join in progress is funded
  and saw the holdings, and nobody leaves.
* **`AdminListProofs`**, of `AdminUsers`. `PasswordIsForItsUser`: the draft's password is blank or of
  the user whose sheet is open. `SavesKeepTheRest`: an update names only edited
  fields. `AnAdministratorStays` from `AdminInv`: what a deletion saw, that another
  administrator is left, stands as long as nothing has been committed since.
* **`DashboardProofs`.** `ToldOneDecision`: the sheet's loading lets one request run,
  and one that passed the server's check is about an event the member was told
  nothing of. `DecidedIsGone`: every success starts a new fetch, so what a fetch
  still in flight has read was pending. `DecisionIsFinal` from `SettledInv`,
  `TimerIsForItsScreen` from `TimerInv`: until the user strays, one call is to
  come and finds the portfolio's screen.

* **`AdminListProofs`**, of `PagedList`. `DriftIsBounded`: the pages alone say
  nothing of it. `Rank(r)` is the number of live rows up to a row that has its
  place for itself; such a row is in page `n` exactly when its rank falls into
  that page (`FirstRank`), however the rows that tie are ordered. An insertion
  raises ranks by one at most and a removal lowers them by one at most
  (`RanksAfter`); a move is one of each. So `Drift` bounds, for the pages
  received and those on their way, the rows skipped together with those a removal
  or a move has taken up past them (`Passed`), and the rows repeated with those an
  insertion or a move has taken down into the pages to come (`Late`).
  `EndIsReached` from `Exact`: while nothing changes and nothing ties, the pages
  together are the first rows of the order. `OwnChangesAreShown` from `OwnInv`: a
  fetch that will end as the list was read after the last own change, or the
  reload was cut off, or its first page had been read when the change was told.
* **`AdminPortfolioProofs`.** `HistoryIsTrue` and `AllocationIsWhole` from
  `RowsInv`: the rows are none or the rounding of an accepted payload, and of a
  ticker not named twice since it last moved (`blurred`) there is one row at most,
  which its newest history row tells (`Telling`); `SentInv` adds that what is in flight has
  passed the editor's checks. `LateAnswersCloseTheirOwn` from `EditorInv`: an
  editor that was closed is not opened again while its save is watched, as the
  overlay covers the screen until then. `DetailShowsOwnChanges` from `ShownInv`: a success told to a mounted detail
  replaces the fetch in flight, one told to an unmounted one leaves a mark or
  falls to a fetch the server has yet to read; so what is answered or at rest
  without a mark was read after it, unless `missed`.
  `UneditedTextsStay` from `AnswersInv` and `DraftsInv`: an answer, a cached row
  or a draft that carries the present number of commits has the present texts,
  but for those edited.

`Total` and `PlaceOf` are a fold and a choice, so what they compute is itself
proved by an induction over data. The library's induction theorems take an
operator as a parameter and cannot be instantiated here; instead the proofs take
a smallest counterexample, from the well-foundedness of the numbers and of the
strict subsets of a finite set (`LeastNumber`, `SmallestSubset`). `StoredTotal`,
that rounding moves a sum by half a hundredth for each row at most, and `FirstForm`,
what `ORDER BY`, `OFFSET` and `LIMIT` can answer, rest on them.

Only model-checked is the liveness property `CallSettles`, which is out of the
prover's reach.

## 6. Where the code does less than one might expect

The properties are what holds. What does not hold, and is in the models as the
code does it:

* Two overlapping joins of one user both insert a row; afterwards join and leave
  raise, as they expect one row at most (`PortfolioService.py:85`).
* Cancelling touches the newest active subscription only, and leaves an older one
  active (`SubscriptionDbContext.py:102`).
* After a failed refresh the requests queued behind it are not answered:
  `refreshSubscribers` is left alone (`client.ts:75`), until a later refresh
  succeeds. And a refresh that is never answered, which no timeout ends
  (`client.ts:64`), leaves its leader, `isRefreshing` and the queue as they are.
  `CallSettles` therefore lets a request wait for a refresh.
* Any failure of the refresh, a 429 or a lost connection included, clears the
  keychain and so signs the user out (`client.ts:75`).
* A refresh that the server had accepted when it committed a sign-out inserts a
  live token after it (`AuthService.py:84`), and `saveTokens` stores it after
  `clearTokens`: `raced` in `ApiClient`, and in `SignIn` the next launch is signed
  in. More generally a refresh saves its tokens whenever it is answered, also over
  those of the next user (`client.ts:68`): `crossed`.
* A list asked for with one user's token and answered after the next sign-in shows
  the first user's rows (`client.ts:28`); `excused` records it.
* A verification that found an earlier cancellation undoes a later one as well, if
  another verification of the transaction activated the row in between
  (`SubscriptionDbContext.py:36`).
* The step to the brokerage that follows a subscription's answer, and the
  restore's timer, take a screen that waits for a join back to where a second join
  can be confirmed (`join/[id].tsx:92`, `:151`). `RetryIsSafe` counts those.
* Two overlapping updates of the holdings compare with the same old rows, and the
  history misses one (`AdminService.py:188`). `HistoryTells` has them one at a time.
* Nothing keeps a payload from naming a ticker twice (`[id].tsx:172`,
  `AdminService.py:180`). Two rows are stored, `new_map` keeps the last line
  (`PortfolioDbContext.py:58`) and `old_map` either: the history tells 50 of
  `AAPL 50, AAPL 50`, and may stay wrong until the ticker moves (`blurred`).
* A change made in the list of the portfolios, or a deletion, invalidates the list
  only (`portfolios.tsx:69`): the detail opened within thirty seconds rests on what
  it was. And an answer to the detail's query that was on its way when its screen
  was left takes the mark of a later success away. `missed` records both.
* `refresh` signs a token without the scope: a user who must change the password
  is let in once the first token has expired (`AuthService.py:84`).
* The cached lists outlive a sign-out and count as fresh for thirty seconds, so the
  next person on the device may see them (`app/_layout.tsx:12`); `excused` in
  `SignIn` records it.
* A sign-out whose request fails leaves the tokens in the keychain, and the next
  launch is signed in (`settings.tsx:65`).
* Reaching the end of a list while it is reloaded drops the reload
  (`portfolios.tsx:238`); and a success told while the first fetch of a new search
  or order was in flight does not replace it (`users.tsx:159`), though the server
  may have read before the change. `missed` in `PagedList` records both.
* Rows that tie in the column a list is ordered by may be skipped or repeated at
  any page, with no change at all (`AdminDbContext.py:65`): `DriftBounded` and
  `EndIsTheEnd` speak of rows with a place for themselves.
* Leaving and joining invalidate `['marketplace']`, but the marketplace's query is
  `['marketplace-all']` (`portfolio/[id].tsx:46`, `join/[id].tsx:116`,
  `marketplace.tsx:99`), so it keeps the old membership until it is stale.

## 7. Plan

The core, the app's screens over it and the proofs of both are done. What could
follow, in this order:

1. The brokerage connections: OAuth callback, disconnect, and the batch refresh of
   tokens with its single commit over a broker that rotates them.
2. The fetch of a query with its cancelled predecessors, common to
   `AdminPortfolio`, `PagedList` and `Dashboard`, as one abstract specification
   the three implement.
3. The billing screens of the app (`settings/subscription.tsx`), when the
   webhook they wait for has a body.

## 8. Not modelled

Rendering and form state; password hashes, token encryption and JWT contents
beyond scope and expiry; statistics (read-only) and what a search is for, as
`PagedList` has only that an update or a new row may come into what is found; the
brokers' HTTP calls and the tokens they issue; rate-limit counters (their 429 is
an outcome in `ApiClient`); `verify-otp`, which no screen leads to; migrations and
configuration; every stub (jobs, webhook, push, reports), which does nothing. Of
the app's cache, the return to a list whose pages are still cached (`PagedList`),
the discarding of data that no screen uses for long, and the marketplace's data.
In `SignIn`, which of the waiting requests runs the refresh, and what other
devices do beyond making requests fail. `PROJECT.json` lists each component with
its status.
