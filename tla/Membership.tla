------------------------------ MODULE Membership ------------------------------
(***************************************************************************)
(* Portfolio membership: the HTTP handlers of PortfolioService and of the  *)
(* portfolio half of AdminService, running concurrently against one MySQL  *)
(* database.                                                               *)
(*                                                                         *)
(* Each request owns one database session.  Its first statement is the     *)
(* SELECT of get_current_user, so the REPEATABLE READ snapshot every later *)
(* plain SELECT of the request answers from is taken there: Begin* records *)
(* the rows the handler is going to read.  The handler's writes and their  *)
(* COMMIT are one later action: UPDATE, DELETE, and the foreign-key checks *)
(* of an INSERT read the current rows and keep them locked to the commit,  *)
(* so they take effect at the commit, on the current tables and not on the *)
(* snapshot.  RollBack is every other end of a request.                    *)
(***************************************************************************)
EXTENDS Integers, FiniteSets

CONSTANTS
  User,         \* accounts
  Portfolio,    \* identities of portfolio rows; an id is never used again
  Session,      \* requests that can be in progress at the same time
  MaxVersion,   \* bound on the replacements of one portfolio's holdings
  MaxTrades     \* bound on the batches of buys queued for one user,
                \* portfolio and holdings version

ASSUME SessionAssumption == IsFiniteSet(Session) /\ Session # {}
ASSUME BoundAssumption == MaxVersion \in Nat /\ MaxTrades \in Nat

VARIABLES
  status,     \* portfolios.is_active of each portfolio, or that it has no row
  open,       \* how many user_portfolios rows with left_at NULL a pair has
  holdings,   \* version of the portfolio_holdings rows; 0 is no rows
  toggled,    \* detail of the newest "toggle" entry of change_log, or "none"
  entitled,   \* users that are exempt or have an active or grace subscription
  linked,     \* users whose brokerage connection is active
  trades,     \* batches of pending buys queued by joins
  txn         \* what each session is doing and what its snapshot showed

database == <<status, open, holdings, toggled, entitled, linked, trades>>
vars == <<database, txn>>

Status == {"unborn", "active", "inactive", "deleted"}
Exists(st) == st \in {"active", "inactive"}

Pair == User \X Portfolio
Version == 0 .. MaxVersion
Batch == User \X Portfolio \X Version

Idle == [op |-> "idle"]

JoinTxn == [op : {"join"}, user : User, portfolio : Portfolio,
            funded : BOOLEAN, status : Status, open : Nat, holdings : Version,
            entitled : BOOLEAN, linked : BOOLEAN]
LeaveTxn == [op : {"leave", "remove"}, user : User, portfolio : Portfolio,
             open : Nat]
AdminTxn == [op : {"toggle", "delete", "holdings"}, portfolio : Portfolio,
             status : Status]

TypeOK ==
  /\ status \in [Portfolio -> Status]
  /\ open \in [Pair -> Nat]
  /\ holdings \in [Portfolio -> Version]
  /\ toggled \in [Portfolio -> {"none", "active", "inactive"}]
  /\ entitled \subseteq User
  /\ linked \subseteq User
  /\ trades \in [Batch -> Nat]
  /\ txn \in [Session -> {Idle} \cup JoinTxn \cup LeaveTxn \cup AdminTxn]

Init ==
  /\ status = [p \in Portfolio |-> "unborn"]
  /\ open = [up \in Pair |-> 0]
  /\ holdings = [p \in Portfolio |-> 0]
  /\ toggled = [p \in Portfolio |-> "none"]
  /\ entitled = {}
  /\ linked = {}
  /\ trades = [b \in Batch |-> 0]
  /\ txn = [s \in Session |-> Idle]

-----------------------------------------------------------------------------
(* The start of a request: get_current_user takes the snapshot.            *)

Start(s, t) ==
  /\ txn[s] = Idle
  /\ txn' = [txn EXCEPT ![s] = t]
  /\ UNCHANGED database

BeginJoin(s, u, p, funded) ==
  /\ status[p] # "unborn"
  /\ Start(s, [op |-> "join", user |-> u, portfolio |-> p, funded |-> funded,
               status |-> status[p], open |-> open[u, p],
               holdings |-> holdings[p], entitled |-> u \in entitled,
               linked |-> u \in linked])

BeginLeave(s, op, u, p) ==
  /\ status[p] # "unborn"
  /\ Start(s, [op |-> op, user |-> u, portfolio |-> p, open |-> open[u, p]])

BeginAdmin(s, op, p) ==
  /\ status[p] # "unborn"
  /\ Start(s, [op |-> op, portfolio |-> p, status |-> status[p]])

Finish(s) == txn' = [txn EXCEPT ![s] = Idle]

(* Every end of a request that commits nothing: an early return of the     *)
(* handler, a constraint violation at flush, a deadlock victim, a failed   *)
(* change-log insert (the session then refuses to commit), a crash.        *)
RollBack(s) ==
  /\ txn[s] # Idle
  /\ Finish(s)
  /\ UNCHANGED database

-----------------------------------------------------------------------------
(* PortfolioService                                                        *)

(* Mutants: join without the membership check, without the check that the  *)
(* portfolio is active, and with that check on the row of the commit.      *)
JoinAcceptedTwice(t) == t.status = "active" /\ t.entitled /\ (t.funded => t.linked)
JoinAcceptedInactive(t) == t.open = 0 /\ t.entitled /\ (t.funded => t.linked)
JoinAcceptedLate(t) ==
  status[t.portfolio] = "active" /\ t.open = 0 /\ t.entitled /\ (t.funded => t.linked)

(* The checks join makes before it writes, on its snapshot: the portfolio  *)
(* is active, the user has no open membership (two open rows make          *)
(* scalar_one_or_none raise), is entitled, and owns the connection named.  *)
JoinAccepted(t) ==
  /\ t.status = "active"
  /\ t.open = 0
  /\ t.entitled
  /\ t.funded => t.linked

(* Mutant: the buys follow the holdings of the commit.                     *)
QueueBuysLate(t) ==
  IF t.funded /\ holdings[t.portfolio] > 0
  THEN trades' = [trades EXCEPT ![<<t.user, t.portfolio, holdings[t.portfolio]>>] = @ + 1]
  ELSE UNCHANGED trades

(* A funded join queues one buy per holding its snapshot showed.           *)
QueueBuys(t) ==
  IF t.funded /\ t.holdings > 0
  THEN trades' = [trades EXCEPT ![<<t.user, t.portfolio, t.holdings>>] = @ + 1]
  ELSE UNCHANGED trades

(* The foreign key of the new row needs the portfolio row to exist still.  *)
Join(s) ==
  LET t == txn[s] IN
  /\ t.op = "join"
  /\ JoinAccepted(t)
  /\ Exists(status[t.portfolio])
  /\ t.funded => trades[t.user, t.portfolio, t.holdings] < MaxTrades
  /\ open' = [open EXCEPT ![<<t.user, t.portfolio>>] = @ + 1]
  /\ QueueBuys(t)
  /\ Finish(s)
  /\ UNCHANGED <<status, holdings, toggled, entitled, linked>>

(* Mutant: one row fewer instead of every open row closed.                 *)
CloseOneMembership(u, p) == open' = [open EXCEPT ![<<u, p>>] = @ - 1]

(* UPDATE ... SET left_at WHERE left_at IS NULL closes every open row.     *)
CloseMembership(u, p) == open' = [open EXCEPT ![<<u, p>>] = 0]

(* leave and remove_user_from_portfolio: exactly one open row was seen.    *)
Leave(s) ==
  LET t == txn[s] IN
  /\ t.op \in {"leave", "remove"}
  /\ t.open = 1
  /\ CloseMembership(t.user, t.portfolio)
  /\ Finish(s)
  /\ UNCHANGED <<status, holdings, toggled, entitled, linked, trades>>

-----------------------------------------------------------------------------
(* AdminService                                                            *)

CreatePortfolio(p) ==
  /\ status[p] = "unborn"
  /\ status' = [status EXCEPT ![p] = "active"]
  /\ UNCHANGED <<open, holdings, toggled, entitled, linked, trades, txn>>

Flipped(st) == IF st = "active" THEN "inactive" ELSE "active"

(* Mutant: SET is_active = NOT is_active, logged from the loaded value.    *)
ToggleActiveInPlace(s) ==
  LET t == txn[s] IN
  /\ t.op = "toggle"
  /\ Exists(t.status)
  /\ Exists(status[t.portfolio])
  /\ status' = [status EXCEPT ![t.portfolio] = Flipped(@)]
  /\ toggled' = [toggled EXCEPT ![t.portfolio] = Flipped(t.status)]
  /\ Finish(s)
  /\ UNCHANGED <<open, holdings, entitled, linked, trades>>

(* is_active is flipped from the loaded value; the UPDATE of a row deleted *)
(* meanwhile matches nothing and the flush fails.                          *)
ToggleActive(s) ==
  LET t == txn[s] IN
  /\ t.op = "toggle"
  /\ Exists(t.status)
  /\ Exists(status[t.portfolio])
  /\ status' = [status EXCEPT ![t.portfolio] = Flipped(t.status)]
  /\ toggled' = [toggled EXCEPT ![t.portfolio] = Flipped(t.status)]
  /\ Finish(s)
  /\ UNCHANGED <<open, holdings, entitled, linked, trades>>

(* Mutant: neither the DELETE nor the cascade takes the memberships.       *)
KeptMembers(p) == open

Emptied(p) == [up \in Pair |-> IF up[2] = p THEN 0 ELSE open[up]]

(* Holdings, then memberships, then the portfolio row, whose foreign keys  *)
(* cascade to what was inserted in between; none of the three DELETEs      *)
(* minds that a concurrent delete was first.                               *)
DeletePortfolio(s) ==
  LET t == txn[s] IN
  /\ t.op = "delete"
  /\ Exists(t.status)
  /\ holdings' = [holdings EXCEPT ![t.portfolio] = 0]
  /\ open' = Emptied(t.portfolio)
  /\ status' = [status EXCEPT ![t.portfolio] = "deleted"]
  /\ Finish(s)
  /\ UNCHANGED <<toggled, entitled, linked, trades>>

(* replace_holdings; the foreign keys of the new holding and history rows  *)
(* need the portfolio row.  HoldingsHistory models the rows themselves.    *)
UpdateHoldings(s) ==
  LET t == txn[s] IN
  /\ t.op = "holdings"
  /\ Exists(t.status)
  /\ Exists(status[t.portfolio])
  /\ holdings[t.portfolio] < MaxVersion
  /\ holdings' = [holdings EXCEPT ![t.portfolio] = @ + 1]
  /\ Finish(s)
  /\ UNCHANGED <<status, open, toggled, entitled, linked, trades>>

-----------------------------------------------------------------------------
(* Commits of the other services that change what join reads.              *)

(* verify-apple, cancel, the exempt flag: modelled in Subscription.        *)
ChangeEntitlement(u) ==
  /\ entitled' = IF u \in entitled THEN entitled \ {u} ELSE entitled \cup {u}
  /\ UNCHANGED <<status, open, holdings, toggled, linked, trades, txn>>

(* The OAuth callback links a connection, disconnect deactivates it.       *)
ChangeConnection(u) ==
  /\ linked' = IF u \in linked THEN linked \ {u} ELSE linked \cup {u}
  /\ UNCHANGED <<status, open, holdings, toggled, entitled, trades, txn>>

Request(s) ==
  \/ \E p \in Portfolio :
       \/ \E u \in User :
            \/ \E funded \in BOOLEAN : BeginJoin(s, u, p, funded)
            \/ \E op \in {"leave", "remove"} : BeginLeave(s, op, u, p)
       \/ \E op \in {"toggle", "delete", "holdings"} : BeginAdmin(s, op, p)
  \/ Join(s)
  \/ Leave(s)
  \/ ToggleActive(s)
  \/ DeletePortfolio(s)
  \/ UpdateHoldings(s)
  \/ RollBack(s)

Next ==
  \/ \E s \in Session : Request(s)
  \/ \E p \in Portfolio : CreatePortfolio(p)
  \/ \E u \in User : ChangeEntitlement(u) \/ ChangeConnection(u)

Spec == Init /\ [][Next]_vars

-----------------------------------------------------------------------------
(* Properties                                                              *)

(* "Already a member of this portfolio": join checks for an open row and   *)
(* then inserts one, with no unique constraint behind the check.           *)
AtMostOneMembership == \A up \in Pair : open[up] <= 1

(* What the check does guarantee: a pair never has more open rows than     *)
(* there are requests in progress at a time, however often and in whatever *)
(* order joins, leaves, removals and deletions of it follow each other.    *)
MembershipsBounded == \A up \in Pair : open[up] <= Cardinality(Session)

(* delete_portfolio leaves no membership and no holding of the portfolio   *)
(* behind, also when a join or a holdings update that read the portfolio   *)
(* before the deletion commits after it.                                   *)
NoOrphanRows ==
  \A p \in Portfolio :
    ~ Exists(status[p]) =>
      /\ holdings[p] = 0
      /\ \A u \in User : open[u, p] = 0

(* The newest toggle entry of the change log tells the state the portfolio *)
(* is in, although toggle computes it from a stale read.                   *)
ToggleLogTells ==
  \A p \in Portfolio :
    Exists(status[p]) /\ toggled[p] # "none" => toggled[p] = status[p]

Promise == INSTANCE MembershipPromise WITH member <- open

(* With one request at a time the handlers are the atomic API: every       *)
(* commit is a step of the promise or leaves membership and status alone.  *)
KeepsPromise == Promise!Spec

=============================================================================
