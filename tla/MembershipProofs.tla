--------------------------- MODULE MembershipProofs ---------------------------
(***************************************************************************)
(* Theorems about Membership, for every set of users, portfolios and       *)
(* (finitely many) concurrent requests and every value of the bounds: its  *)
(* invariants, what JoinHistory observes of it, and, one request at a      *)
(* time, its refinement of MembershipPromise.                              *)
(***************************************************************************)
EXTENDS JoinHistory, FiniteSetTheorems, TLAPS

Txn == {Idle} \cup JoinTxn \cup LeaveTxn \cup AdminTxn

USE DEF Status, Exists

(* A transaction in progress has the record type its op names.             *)
LEMMA TxnShape ==
  ASSUME NEW t \in Txn
  PROVE  /\ t.op = "join" => t \in JoinTxn
         /\ t.op \in {"leave", "remove"} => t \in LeaveTxn
         /\ t.op \in {"toggle", "delete", "holdings"} => t \in AdminTxn
  BY DEF Txn, Idle, JoinTxn, LeaveTxn, AdminTxn

(* What a join carries are rows of the tables' types.                      *)
LEMMA JoinFields ==
  ASSUME NEW t \in JoinTxn
  PROVE  /\ t.user \in User /\ t.portfolio \in Portfolio
         /\ t.holdings \in Version /\ t.open \in Nat /\ t.status \in Status
         /\ <<t.user, t.portfolio>> \in Pair
         /\ <<t.user, t.portfolio, t.holdings>> \in Batch
  BY DEF JoinTxn, Pair, Batch

(* Adding one to an entry of a table of counters.                          *)
LEMMA Increment ==
  ASSUME NEW S, NEW f \in [S -> Nat], NEW k \in S
  PROVE  [f EXCEPT ![k] = @ + 1] \in [S -> Nat]
  OBVIOUS

LEMMA InitTypeOK == Init => TypeOK
  BY BoundAssumption DEF Init, TypeOK, Idle, Version, Pair, Batch

(* Every step leaves every variable in its type.                           *)
LEMMA StepTypeOK == TypeOK /\ [Next]_vars => TypeOK'
<1> SUFFICES ASSUME TypeOK, [Next]_vars PROVE TypeOK'
  OBVIOUS
<1> USE BoundAssumption DEF Version
<1>1. ASSUME NEW s \in Session, NEW t \in Txn, Start(s, t) PROVE TypeOK'
  BY <1>1 DEF Start, TypeOK, database, Txn
<1>2. ASSUME NEW s \in Session, Finish(s) PROVE txn' \in [Session -> Txn]
  BY <1>2 DEF Finish, TypeOK, Txn
<1>3. ASSUME NEW s \in Session, Request(s) PROVE TypeOK'
  <2>1. ASSUME NEW p \in Portfolio, NEW u \in User, NEW f \in BOOLEAN,
               BeginJoin(s, u, p, f)
        PROVE  TypeOK'
    <3> DEFINE t == [op |-> "join", user |-> u, portfolio |-> p, funded |-> f,
                     status |-> status[p], open |-> open[u, p],
                     holdings |-> holdings[p], entitled |-> u \in entitled,
                     linked |-> u \in linked]
    <3>1. /\ status[p] \in Status
          /\ open[u, p] \in Nat
          /\ holdings[p] \in Version
      BY DEF TypeOK, Pair
    <3>2. t \in Txn
      <4>1. \A x, y \in BOOLEAN :
              [op |-> "join", user |-> u, portfolio |-> p, funded |-> f,
               status |-> status[p], open |-> open[u, p],
               holdings |-> holdings[p], entitled |-> x, linked |-> y] \in JoinTxn
        BY <3>1 DEF JoinTxn
      <4>2. (u \in entitled) \in BOOLEAN /\ (u \in linked) \in BOOLEAN
        OBVIOUS
      <4> QED BY <4>1, <4>2, Zenon DEF Txn
    <3>3. Start(s, t)
      BY <2>1 DEF BeginJoin
    <3> QED BY <3>2, <3>3, <1>1
  <2>2. ASSUME NEW p \in Portfolio, NEW u \in User,
               NEW op \in {"leave", "remove"}, BeginLeave(s, op, u, p)
        PROVE  TypeOK'
    <3> DEFINE t == [op |-> op, user |-> u, portfolio |-> p, open |-> open[u, p]]
    <3>1. t \in Txn
      BY DEF TypeOK, LeaveTxn, Txn, Pair
    <3> QED BY <2>2, <3>1, <1>1 DEF BeginLeave
  <2>3. ASSUME NEW p \in Portfolio, NEW op \in {"toggle", "delete", "holdings"},
               BeginAdmin(s, op, p)
        PROVE  TypeOK'
    <3> DEFINE t == [op |-> op, portfolio |-> p, status |-> status[p]]
    <3>1. t \in Txn
      BY DEF TypeOK, AdminTxn, Txn
    <3> QED BY <2>3, <3>1, <1>1 DEF BeginAdmin
  <2>4. CASE Join(s)
    <3> DEFINE t == txn[s]
    <3>1. t \in JoinTxn
      BY <2>4, TxnShape DEF Join, TypeOK, Txn
    <3>2. trades' \in [Batch -> Nat]
      <4>1. trades \in [Batch -> Nat] /\ QueueBuys(t)
        BY <2>4 DEF Join, TypeOK
      <4> DEFINE k == <<t.user, t.portfolio, t.holdings>>
      <4>2. k \in Batch
        BY <3>1, JoinFields
      <4>3. [trades EXCEPT ![k] = @ + 1] \in [Batch -> Nat]
        <5> HIDE DEF k
        <5> QED BY <4>1, <4>2, Increment
      <4>4. trades' = [trades EXCEPT ![k] = @ + 1] \/ trades' = trades
        BY <4>1 DEF QueueBuys
      <4> QED BY <4>1, <4>3, <4>4
    <3>3. open' \in [Pair -> Nat]
      <4>1. open \in [Pair -> Nat] /\ open' = [open EXCEPT ![<<t.user, t.portfolio>>] = @ + 1]
        BY <2>4 DEF Join, TypeOK
      <4> HIDE DEF t
      <4> QED BY <3>1, <4>1, JoinFields, Increment
    <3> QED BY <2>4, <3>2, <3>3, <1>2 DEF Join, TypeOK, Txn
  <2>5. CASE Leave(s)
    <3>1. txn[s] \in LeaveTxn
      BY <2>5, TxnShape DEF Leave, TypeOK, Txn
    <3> QED BY <2>5, <3>1, <1>2 DEF Leave, CloseMembership, TypeOK, Txn, LeaveTxn
  <2>6. CASE ToggleActive(s)
    <3>1. txn[s] \in AdminTxn
      BY <2>6, TxnShape DEF ToggleActive, Flipped, TypeOK, Txn
    <3> QED BY <2>6, <3>1, <1>2 DEF ToggleActive, Flipped, TypeOK, Txn, AdminTxn
  <2>7. CASE DeletePortfolio(s)
    <3>1. txn[s] \in AdminTxn
      BY <2>7, TxnShape DEF DeletePortfolio, Emptied, TypeOK, Txn
    <3> QED BY <2>7, <3>1, <1>2 DEF DeletePortfolio, Emptied, TypeOK, Txn, AdminTxn
  <2>8. CASE UpdateHoldings(s)
    <3>1. txn[s] \in AdminTxn
      BY <2>8, TxnShape DEF UpdateHoldings, TypeOK, Txn
    <3> QED BY <2>8, <3>1, <1>2 DEF UpdateHoldings, TypeOK, Txn, AdminTxn
  <2>9. CASE RollBack(s)
    BY <2>9, <1>2 DEF RollBack, TypeOK, database, Txn
  <2> QED BY <1>3, <2>1, <2>2, <2>3, <2>4, <2>5, <2>6, <2>7, <2>8, <2>9 DEF Request
<1>4. ASSUME NEW p \in Portfolio, CreatePortfolio(p) PROVE TypeOK'
  BY <1>4 DEF CreatePortfolio, TypeOK
<1>5. ASSUME NEW u \in User, ChangeEntitlement(u) \/ ChangeConnection(u)
      PROVE  TypeOK'
  BY <1>5 DEF ChangeEntitlement, ChangeConnection, TypeOK
<1>6. CASE UNCHANGED vars
  BY <1>6 DEF vars, database, TypeOK
<1> QED BY <1>3, <1>4, <1>5, <1>6 DEF Next

(* The tables and the sessions keep their types: the rows a handler holds  *)
(* from its snapshot are always rows of the shape its operation selects.   *)
THEOREM TypeCorrect == Spec => []TypeOK
  BY InitTypeOK, StepTypeOK, PTL DEF Spec

-----------------------------------------------------------------------------
(* No orphan rows.                                                         *)

LEMMA StepNoOrphanRows ==
  TypeOK /\ NoOrphanRows /\ [Next]_vars => NoOrphanRows'
<1> SUFFICES ASSUME TypeOK, NoOrphanRows, [Next]_vars,
                    NEW p \in Portfolio, ~ Exists(status'[p])
             PROVE  holdings'[p] = 0 /\ \A u \in User : open'[u, p] = 0
  BY DEF NoOrphanRows
<1> DEFINE GoneAfter == holdings'[p] = 0 /\ \A u \in User : open'[u, p] = 0
<1>0. \A u \in User : <<u, p>> \in Pair
  BY DEF Pair
<1>1. ~ Exists(status[p]) => holdings[p] = 0 /\ \A u \in User : open[u, p] = 0
  BY DEF NoOrphanRows
<1>2. ASSUME NEW s \in Session, Request(s)
      PROVE  GoneAfter
  <2>1. ASSUME NEW t, Start(s, t) PROVE GoneAfter
    BY <1>1, <2>1 DEF Start, database
  <2>2. CASE Join(s)
    <3>1. /\ status' = status /\ holdings' = holdings
          /\ Exists(status[txn[s].portfolio])
          /\ open' = [open EXCEPT ![<<txn[s].user, txn[s].portfolio>>] = @ + 1]
      BY <2>2 DEF Join
    <3>2. p # txn[s].portfolio => \A u \in User : open'[u, p] = open[u, p]
      BY <3>1, <1>0 DEF TypeOK
    <3> QED BY <3>1, <3>2, <1>1
  <2>3. CASE Leave(s)
    BY <2>3, <1>0, <1>1 DEF Leave, CloseMembership, TypeOK
  <2>4. CASE ToggleActive(s)
    <3>1. /\ open' = open /\ holdings' = holdings
          /\ \E f \in {"active", "inactive"} :
               status' = [status EXCEPT ![txn[s].portfolio] = f]
      BY <2>4 DEF ToggleActive, Flipped
    <3> QED BY <3>1, <1>1 DEF TypeOK
  <2>5. CASE DeletePortfolio(s)
    <3>1. CASE p = txn[s].portfolio
      BY <2>5, <3>1, <1>0 DEF DeletePortfolio, Emptied, TypeOK
    <3>2. CASE p # txn[s].portfolio
      BY <2>5, <3>2, <1>0, <1>1 DEF DeletePortfolio, Emptied, TypeOK
    <3> QED BY <3>1, <3>2
  <2>6. CASE UpdateHoldings(s)
    BY <2>6, <1>1 DEF UpdateHoldings, TypeOK
  <2>7. CASE RollBack(s)
    BY <2>7, <1>1 DEF RollBack, database
  <2> QED BY <1>2, <2>1, <2>2, <2>3, <2>4, <2>5, <2>6, <2>7
          DEF Request, BeginJoin, BeginLeave, BeginAdmin
<1>3. ASSUME NEW q \in Portfolio, CreatePortfolio(q)
      PROVE  GoneAfter
  BY <1>3, <1>1 DEF CreatePortfolio, TypeOK
<1>4. ASSUME NEW v \in User, ChangeEntitlement(v) \/ ChangeConnection(v)
      PROVE  GoneAfter
  BY <1>4, <1>1 DEF ChangeEntitlement, ChangeConnection
<1>5. CASE UNCHANGED vars
  BY <1>5, <1>1 DEF vars, database
<1> QED BY <1>2, <1>3, <1>4, <1>5 DEF Next

(* Deleting a portfolio takes its memberships and holdings with it, and no *)
(* join or update_holdings that read the portfolio before can bring one    *)
(* back: its INSERT fails on the foreign key.                              *)
THEOREM NoOrphans == Spec => []NoOrphanRows
<1>1. Init => NoOrphanRows
  BY DEF Init, NoOrphanRows, Pair
<1> QED BY <1>1, TypeCorrect, StepNoOrphanRows, PTL DEF Spec

-----------------------------------------------------------------------------
(* The toggle log.                                                         *)

(* A portfolio that was never created was never toggled.                   *)
ToggleInv ==
  /\ ToggleLogTells
  /\ \A p \in Portfolio : status[p] = "unborn" => toggled[p] = "none"

LEMMA StepToggleInv == TypeOK /\ ToggleInv /\ [Next]_vars => ToggleInv'
<1> SUFFICES ASSUME TypeOK, ToggleInv, [Next]_vars PROVE ToggleInv'
  OBVIOUS
<1> USE DEF ToggleInv, ToggleLogTells
<1>1. CASE status' = status /\ toggled' = toggled
  BY <1>1
<1>2. ASSUME NEW s \in Session, ToggleActive(s) PROVE ToggleInv'
  <2>1. PICK f \in {"active", "inactive"} :
          /\ status' = [status EXCEPT ![txn[s].portfolio] = f]
          /\ toggled' = [toggled EXCEPT ![txn[s].portfolio] = f]
    BY <1>2 DEF ToggleActive, Flipped
  <2> QED BY <2>1 DEF TypeOK
<1>3. ASSUME NEW s \in Session, DeletePortfolio(s) PROVE ToggleInv'
  BY <1>3 DEF DeletePortfolio, Emptied, TypeOK
<1>4. ASSUME NEW p \in Portfolio, CreatePortfolio(p) PROVE ToggleInv'
  BY <1>4 DEF CreatePortfolio, TypeOK
<1> QED
  BY <1>1, <1>2, <1>3, <1>4
     DEF Next, Request, BeginJoin, BeginLeave, BeginAdmin, Start, Join, Leave,
         UpdateHoldings, RollBack, ChangeEntitlement, ChangeConnection, vars,
         database

(* However toggles race, the newest log entry tells the portfolio's state. *)
THEOREM ToggleLogCorrect == Spec => []ToggleLogTells
<1>1. Init => ToggleInv
  BY DEF Init, ToggleInv, ToggleLogTells
<1>2. ToggleInv => ToggleLogTells
  BY DEF ToggleInv
<1> QED BY <1>1, <1>2, TypeCorrect, StepToggleInv, PTL DEF Spec

-----------------------------------------------------------------------------
(* Open rows are bounded by the number of concurrent requests.             *)

(* The joins in progress that can still add an open row to the pair: those *)
(* whose snapshot showed none.                                             *)
Blind(up) ==
  {s \in Session : /\ txn[s].op = "join"
                   /\ <<txn[s].user, txn[s].portfolio>> = up
                   /\ txn[s].open = 0}

(* Inductive: the rows there are, and the rows that can still come from a  *)
(* stale read, together never exceed the number of sessions.  A request    *)
(* that begins while a row is open is not blind; one that begins while     *)
(* there is none finds all the sessions free to be blind.                  *)
BlindInv == \A up \in Pair : open[up] + Cardinality(Blind(up)) <= Cardinality(Session)

LEMMA BlindFinite ==
  \A up : /\ IsFiniteSet(Blind(up)) /\ IsFiniteSet(Blind(up)')
          /\ Cardinality(Blind(up)) \in Nat /\ Cardinality(Blind(up)') \in Nat
          /\ Cardinality(Blind(up)) <= Cardinality(Session)
          /\ Cardinality(Blind(up)') <= Cardinality(Session)
<1> SUFFICES ASSUME NEW up
             PROVE  /\ IsFiniteSet(Blind(up)) /\ IsFiniteSet(Blind(up)')
                    /\ Cardinality(Blind(up)) \in Nat /\ Cardinality(Blind(up)') \in Nat
                    /\ Cardinality(Blind(up)) <= Cardinality(Session)
                    /\ Cardinality(Blind(up)') <= Cardinality(Session)
  OBVIOUS
<1>1. Blind(up) \subseteq Session /\ Blind(up)' \subseteq Session
  BY DEF Blind
<1>2. IsFiniteSet(Blind(up)) /\ IsFiniteSet(Blind(up)')
  BY <1>1, SessionAssumption, FS_Subset
<1>3. Cardinality(Blind(up)) <= Cardinality(Session)
  BY <1>1, SessionAssumption, FS_Subset
<1>4. Cardinality(Blind(up)') <= Cardinality(Session)
  BY <1>1, SessionAssumption, FS_Subset
<1> QED BY <1>2, <1>3, <1>4, FS_CardinalityType

(* A step that makes no session blind and opens no row keeps the bound.    *)
LEMMA FewerBlind ==
  ASSUME TypeOK, BlindInv, NEW up \in Pair,
         open'[up] \in Nat, open'[up] <= open[up], Blind(up)' \subseteq Blind(up)
  PROVE  open'[up] + Cardinality(Blind(up)') <= Cardinality(Session)
<1>1. Cardinality(Blind(up)') <= Cardinality(Blind(up))
  BY BlindFinite, FS_Subset
<1>2. open[up] \in Nat /\ Cardinality(Session) \in Nat
  BY SessionAssumption, FS_CardinalityType DEF TypeOK
<1>3. open[up] + Cardinality(Blind(up)) <= Cardinality(Session)
  BY DEF BlindInv
<1> QED BY <1>1, <1>2, <1>3, BlindFinite

LEMMA StepBlindInv == TypeOK /\ BlindInv /\ [Next]_vars => BlindInv'
<1> SUFFICES ASSUME TypeOK, BlindInv, [Next]_vars, NEW up \in Pair
             PROVE  open'[up] + Cardinality(Blind(up)') <= Cardinality(Session)
  BY DEF BlindInv
<1> DEFINE Bounded == open'[up] + Cardinality(Blind(up)') <= Cardinality(Session)
<1>0. open[up] \in Nat
  BY DEF TypeOK
<1>1. ASSUME NEW s \in Session, txn' = [txn EXCEPT ![s] = Idle]
      PROVE  Blind(up)' = Blind(up) \ {s}
  BY <1>1 DEF Blind, TypeOK, Idle
<1>2. ASSUME NEW s \in Session, NEW t, Start(s, t),
             t.op = "join" => t.open = open[t.user, t.portfolio]
      PROVE  Bounded
  <2>1. open' = open /\ txn' = [txn EXCEPT ![s] = t]
    BY <1>2 DEF Start, database
  <2>2. CASE open[up] = 0
    BY <2>1, <2>2, BlindFinite
  <2>3. CASE open[up] # 0
    <3>1. Blind(up)' \subseteq Blind(up)
      BY <1>2, <2>1, <2>3 DEF Blind, TypeOK
    <3> QED BY <2>1, <3>1, <1>0, FewerBlind
  <2> QED BY <2>2, <2>3
<1>3. ASSUME NEW s \in Session, Join(s) PROVE Bounded
  <2> DEFINE t == txn[s]
  <2>1. /\ t.op = "join" /\ t.open = 0
        /\ open' = [open EXCEPT ![<<t.user, t.portfolio>>] = @ + 1]
        /\ txn' = [txn EXCEPT ![s] = Idle]
    BY <1>3 DEF Join, JoinAccepted, Finish
  <2>2. Blind(up)' = Blind(up) \ {s}
    BY <2>1, <1>1
  <2>3. CASE up = <<t.user, t.portfolio>>
    <3>1. s \in Blind(up)
      BY <2>1, <2>3 DEF Blind
    <3>2. Cardinality(Blind(up)') = Cardinality(Blind(up)) - 1
      BY <2>2, <3>1, BlindFinite, FS_RemoveElement
    <3>3. open'[up] = open[up] + 1
      BY <2>1, <2>3 DEF TypeOK
    <3>4. open[up] + Cardinality(Blind(up)) <= Cardinality(Session)
      BY DEF BlindInv
    <3> QED BY <3>2, <3>3, <3>4, <1>0, BlindFinite, SessionAssumption, FS_CardinalityType
  <2>4. CASE up # <<t.user, t.portfolio>>
    <3>1. open'[up] = open[up]
      BY <2>1, <2>4 DEF TypeOK
    <3> QED BY <3>1, <2>2, <1>0, FewerBlind
  <2> QED BY <2>3, <2>4
<1>4. ASSUME NEW s \in Session, Finish(s), open'[up] \in {0, open[up]}
      PROVE  Bounded
  <2>1. Blind(up)' \subseteq Blind(up)
    BY <1>4, <1>1 DEF Finish
  <2> QED BY <1>4, <2>1, <1>0, FewerBlind
<1>5. ASSUME NEW s \in Session, Leave(s) \/ DeletePortfolio(s)
      PROVE  Finish(s) /\ open'[up] \in {0, open[up]}
  BY <1>5 DEF Leave, CloseMembership, DeletePortfolio, Emptied, TypeOK
<1>6. ASSUME NEW s \in Session, ToggleActive(s) \/ UpdateHoldings(s) \/ RollBack(s)
      PROVE  Finish(s) /\ open'[up] \in {0, open[up]}
  BY <1>6 DEF ToggleActive, Flipped, UpdateHoldings, RollBack, database
<1>7. ASSUME open' = open, txn' = txn PROVE Bounded
  <2>1. Blind(up)' = Blind(up)
    BY <1>7 DEF Blind
  <2> QED BY <1>7, <2>1, <1>0, FewerBlind
<1>8. ASSUME NEW s \in Session, Request(s) PROVE Bounded
  <2>1. ASSUME NEW p \in Portfolio, NEW u \in User, NEW f \in BOOLEAN,
               BeginJoin(s, u, p, f)
        PROVE  Bounded
    BY <2>1, <1>2 DEF BeginJoin
  <2>2. ASSUME NEW p \in Portfolio, NEW u \in User,
               NEW op \in {"leave", "remove"}, BeginLeave(s, op, u, p)
        PROVE  Bounded
    BY <2>2, <1>2 DEF BeginLeave
  <2>3. ASSUME NEW p \in Portfolio, NEW op \in {"toggle", "delete", "holdings"},
               BeginAdmin(s, op, p)
        PROVE  Bounded
    BY <2>3, <1>2 DEF BeginAdmin
  <2> QED BY <1>8, <2>1, <2>2, <2>3, <1>3, <1>4, <1>5, <1>6 DEF Request
<1>9. ASSUME NEW p \in Portfolio, CreatePortfolio(p) PROVE Bounded
  BY <1>9, <1>7 DEF CreatePortfolio
<1>10. ASSUME NEW u \in User, ChangeEntitlement(u) \/ ChangeConnection(u)
       PROVE  Bounded
  BY <1>10, <1>7 DEF ChangeEntitlement, ChangeConnection
<1>11. CASE UNCHANGED vars
  BY <1>11, <1>7 DEF vars, database
<1> QED BY <1>8, <1>9, <1>10, <1>11 DEF Next

LEMMA InitBlindInv == Init => BlindInv
<1> SUFFICES ASSUME Init, NEW up \in Pair
             PROVE  open[up] + Cardinality(Blind(up)) <= Cardinality(Session)
  BY DEF BlindInv
<1>1. Blind(up) = {} /\ open[up] = 0
  BY DEF Init, Blind, Idle
<1> QED BY <1>1, FS_EmptySet, SessionAssumption, FS_CardinalityType

LEMMA BlindInvImplies == TypeOK /\ BlindInv => MembershipsBounded
<1> SUFFICES ASSUME TypeOK, BlindInv, NEW up \in Pair
             PROVE  open[up] <= Cardinality(Session)
  BY DEF MembershipsBounded
<1>1. open[up] + Cardinality(Blind(up)) <= Cardinality(Session)
  BY DEF BlindInv
<1>2. open[up] \in Nat /\ Cardinality(Session) \in Nat
  BY SessionAssumption, FS_CardinalityType DEF TypeOK
<1> QED BY <1>1, <1>2, BlindFinite

(* The unconstrained check-then-insert of join produces at most one open   *)
(* row per request that can run at the same time as it.                    *)
THEOREM DuplicatesBounded == Spec => []MembershipsBounded
  BY InitBlindInv, TypeCorrect, StepBlindInv, BlindInvImplies, PTL DEF Spec

(* Where requests are served one at a time the check is enough: no user is *)
(* ever in a portfolio twice.                                              *)
THEOREM SerialMembership ==
  ASSUME Cardinality(Session) = 1
  PROVE  Spec => []AtMostOneMembership
<1>1. MembershipsBounded => AtMostOneMembership
  BY DEF MembershipsBounded, AtMostOneMembership
<1> QED BY <1>1, DuplicatesBounded, PTL

-----------------------------------------------------------------------------
(* The promise of the API                                                  *)

(* What a request read is what the tables hold.                            *)
Current ==
  \A s \in Session :
    /\ txn[s].op # "idle" => status[txn[s].portfolio] # "unborn"
    /\ txn[s].op \in {"join", "toggle", "delete", "holdings"} =>
         txn[s].status = status[txn[s].portfolio]
    /\ txn[s].op \in {"join", "leave", "remove"} =>
         txn[s].open = open[txn[s].user, txn[s].portfolio]

LEMMA OneSession ==
  ASSUME Cardinality(Session) = 1, NEW s \in Session
  PROVE  Session = {s}
<1>1. PICK x : Session = {x}
  BY SessionAssumption, FS_Singleton
<1> QED BY <1>1

(* A session's transaction has one of these names or is none.              *)
LEMMA TxnOps ==
  ASSUME TypeOK, NEW s \in Session
  PROVE  /\ txn[s].op = "idle" => txn[s] = Idle
         /\ txn[s].op # "idle" => txn[s].portfolio \in Portfolio
         /\ txn[s].op \in {"join", "leave", "remove"} =>
              /\ txn[s].user \in User /\ txn[s].portfolio \in Portfolio
              /\ <<txn[s].user, txn[s].portfolio>> \in Pair
  BY DEF TypeOK, Idle, JoinTxn, LeaveTxn, AdminTxn, Pair

(* With one session nothing comes between a request's reads and its writes *)
(* but what it does not depend on.                                         *)
LEMMA StepCurrent ==
  ASSUME Cardinality(Session) = 1, TypeOK, Current, [Next]_vars
  PROVE  Current'
<1>0. txn \in [Session -> Txn] /\ status \in [Portfolio -> Status]
  BY DEF TypeOK, Txn
<1>1. ASSUME NEW s \in Session, Finish(s) PROVE Current'
  <2>1. txn'[s].op = "idle"
    BY <1>0, <1>1 DEF Finish, Idle
  <2>2. Session = {s}
    BY OneSession
  <2> QED BY <2>1, <2>2 DEF Current
<1>2. ASSUME NEW s \in Session, NEW t, Start(s, t),
             status[t.portfolio] # "unborn",
             t.op \in {"join", "toggle", "delete", "holdings"} => t.status = status[t.portfolio],
             t.op \in {"join", "leave", "remove"} => t.open = open[t.user, t.portfolio]
      PROVE  Current'
  <2>1. txn'[s] = t /\ UNCHANGED <<status, open>>
    BY <1>0, <1>2 DEF Start, database
  <2>2. Session = {s}
    BY OneSession
  <2> QED BY <1>2, <2>1, <2>2 DEF Current
<1>3. ASSUME NEW s \in Session, Request(s) PROVE Current'
  <2>1. ASSUME NEW p \in Portfolio, NEW u \in User, NEW f \in BOOLEAN, BeginJoin(s, u, p, f)
        PROVE  Current'
    BY <2>1, <1>2 DEF BeginJoin
  <2>2. ASSUME NEW p \in Portfolio, NEW u \in User, NEW op \in {"leave", "remove"},
               BeginLeave(s, op, u, p)
        PROVE  Current'
    BY <2>2, <1>2 DEF BeginLeave
  <2>3. ASSUME NEW p \in Portfolio, NEW op \in {"toggle", "delete", "holdings"},
               BeginAdmin(s, op, p)
        PROVE  Current'
    BY <2>3, <1>2 DEF BeginAdmin
  <2>4. ASSUME Join(s) \/ Leave(s) \/ ToggleActive(s) \/ DeletePortfolio(s)
               \/ UpdateHoldings(s) \/ RollBack(s)
        PROVE  Finish(s)
    BY <2>4 DEF Join, Leave, ToggleActive, DeletePortfolio, UpdateHoldings, RollBack
  <2> QED BY <1>1, <1>3, <2>1, <2>2, <2>3, <2>4 DEF Request
<1>4. ASSUME NEW p \in Portfolio, CreatePortfolio(p) PROVE Current'
  <2>1. UNCHANGED <<open, txn>> /\ status' = [status EXCEPT ![p] = "active"] /\ status[p] = "unborn"
    BY <1>4 DEF CreatePortfolio
  <2>2. \A s \in Session : txn[s].op # "idle" =>
          status'[txn[s].portfolio] = status[txn[s].portfolio]
    BY <1>0, <2>1, TxnOps DEF Current
  <2> QED BY <2>1, <2>2 DEF Current
<1>5. ASSUME UNCHANGED <<status, open, txn>> PROVE Current'
  BY <1>5 DEF Current
<1>6. ASSUME NEW u \in User, ChangeEntitlement(u) \/ ChangeConnection(u)
      PROVE  UNCHANGED <<status, open, txn>>
  BY <1>6 DEF ChangeEntitlement, ChangeConnection
<1> QED BY <1>3, <1>4, <1>5, <1>6 DEF Next, vars, database

(* A commit that rests on what is current is a step of the promise.        *)
LEMMA StepOfPromise ==
  ASSUME TypeOK, Current, AtMostOneMembership, [Next]_vars
  PROVE  [Promise!Next]_(Promise!vars)
<1>0. status \in [Portfolio -> Status] /\ open \in [Pair -> Nat]
  BY DEF TypeOK
<1>1. ASSUME NEW s \in Session, Join(s) PROVE Promise!Next
  <2> DEFINE t == txn[s]
  <2>1. /\ t.user \in User /\ t.portfolio \in Portfolio
        /\ status[t.portfolio] = "active" /\ open[t.user, t.portfolio] = 0
        /\ status' = status
    BY <1>1, TxnOps DEF Join, JoinAccepted, Current
  <2>2. open' = [open EXCEPT ![<<t.user, t.portfolio>>] = 1]
    <3>1. open' = [open EXCEPT ![<<t.user, t.portfolio>>] = open[t.user, t.portfolio] + 1]
      BY <1>0, <1>1, <2>1 DEF Join, Pair
    <3>2. open[t.user, t.portfolio] + 1 = 1
      <4>1. \A x : x = 0 => x + 1 = 1
        OBVIOUS
      <4> QED BY <2>1, <4>1, Zenon
    <3> QED BY <3>1, <3>2, Zenon
  <2>3. Promise!Join(t.user, t.portfolio)
    BY <2>1, <2>2 DEF Promise!Join
  <2> QED BY <2>1, <2>3 DEF Promise!Next
<1>2. ASSUME NEW s \in Session, Leave(s) PROVE Promise!Next
  <2> DEFINE t == txn[s]
  <2>1. /\ t.user \in User /\ t.portfolio \in Portfolio /\ open[t.user, t.portfolio] = 1
        /\ status' = status /\ open' = [open EXCEPT ![<<t.user, t.portfolio>>] = 0]
    BY <1>2, TxnOps DEF Leave, CloseMembership, Current
  <2>2. Promise!Leave(t.user, t.portfolio)
    BY <2>1 DEF Promise!Leave
  <2> QED BY <2>1, <2>2 DEF Promise!Next
<1>3. ASSUME NEW s \in Session, ToggleActive(s) PROVE Promise!Next
  <2> DEFINE t == txn[s]
  <2>1. /\ t.portfolio \in Portfolio /\ status[t.portfolio] \in {"active", "inactive"}
        /\ status' = [status EXCEPT ![t.portfolio] = Flipped(status[t.portfolio])]
        /\ open' = open
    BY <1>3, TxnOps DEF ToggleActive, Current
  <2>2. Promise!Toggle(t.portfolio)
    BY <2>1 DEF Promise!Toggle, Flipped
  <2> QED BY <2>1, <2>2 DEF Promise!Next
<1>4. ASSUME NEW s \in Session, DeletePortfolio(s) PROVE Promise!Next
  <2> DEFINE t == txn[s]
  <2>1. /\ t.portfolio \in Portfolio /\ status[t.portfolio] \in {"active", "inactive"}
        /\ status' = [status EXCEPT ![t.portfolio] = "deleted"]
        /\ open' = Emptied(t.portfolio)
    BY <1>4, TxnOps DEF DeletePortfolio, Current
  <2>2. Promise!Delete(t.portfolio)
    BY <2>1 DEF Promise!Delete, Emptied, Pair
  <2> QED BY <2>1, <2>2 DEF Promise!Next
<1>5. ASSUME NEW p \in Portfolio, CreatePortfolio(p) PROVE Promise!Next
  <2>1. Promise!Create(p)
    BY <1>5 DEF CreatePortfolio, Promise!Create
  <2> QED BY <2>1 DEF Promise!Next
<1>6. ASSUME UNCHANGED <<status, open>> PROVE UNCHANGED Promise!vars
  BY <1>6 DEF Promise!vars
<1>7. ASSUME NEW s \in Session, Request(s),
             ~ (Join(s) \/ Leave(s) \/ ToggleActive(s) \/ DeletePortfolio(s))
      PROVE  UNCHANGED <<status, open>>
  BY <1>7 DEF Request, BeginJoin, BeginLeave, BeginAdmin, Start, UpdateHoldings, RollBack, database
<1>8. ASSUME NEW u \in User, ChangeEntitlement(u) \/ ChangeConnection(u)
      PROVE  UNCHANGED <<status, open>>
  BY <1>8 DEF ChangeEntitlement, ChangeConnection
<1> QED BY <1>1, <1>2, <1>3, <1>4, <1>5, <1>6, <1>7, <1>8 DEF Next, vars, database

(* Where requests are served one at a time the handlers implement the      *)
(* atomic membership API: every commit is one of its steps or a stutter.   *)
THEOREM SerialRefinement ==
  ASSUME Cardinality(Session) = 1
  PROVE  Spec => KeepsPromise
<1>1. Init => Promise!Init
  BY DEF Init, Promise!Init, Pair
<1>2. ASSUME Init PROVE Current
  <2>1. \A s \in Session : txn[s].op = "idle"
    BY <1>2 DEF Init, Idle
  <2> QED BY <2>1 DEF Current
<1>3. TypeOK /\ Current /\ [Next]_vars => Current'
  BY StepCurrent
<1>4. TypeOK /\ Current /\ AtMostOneMembership /\ [Next]_vars => [Promise!Next]_(Promise!vars)
  BY StepOfPromise
<1> QED BY <1>1, <1>2, <1>3, <1>4, TypeCorrect, SerialMembership, PTL
        DEF Spec, KeepsPromise, Promise!Spec

-----------------------------------------------------------------------------
(* What a join may rely on, in real time                                   *)

(* The snapshot a join passes its checks on was the state of the database  *)
(* at one instant since it began, and stays among those seen.              *)
SnapshotSeen ==
  \A s \in Session :
    txn[s].op = "join" /\ JoinAccepted(txn[s]) => txn[s].holdings \in seen[s]

LEMMA StepSnapshotSeen == TypeOK /\ SnapshotSeen /\ [HNext]_hvars => SnapshotSeen'
<1> SUFFICES ASSUME TypeOK, SnapshotSeen, [HNext]_hvars PROVE SnapshotSeen'
  OBVIOUS
<1>0. txn \in [Session -> Txn]
  BY DEF TypeOK, Txn
<1>1. CASE UNCHANGED hvars
  BY <1>1 DEF hvars, vars, SnapshotSeen, JoinAccepted
<1>2. CASE HNext
  <2> SUFFICES ASSUME NEW q \in Session, txn'[q].op = "join", JoinAccepted(txn[q])'
               PROVE  txn'[q].holdings \in seen'[q]
    BY DEF SnapshotSeen
  <2>1. seen'[q] = VersionsNow(txn[q])' \cup (IF txn[q].op = "join" THEN seen[q] ELSE {})
    BY <1>2 DEF HNext, Record
  <2>2. CASE txn'[q] = txn[q]
    <3>1. txn[q].op = "join" /\ JoinAccepted(txn[q])
      BY <2>2 DEF JoinAccepted
    <3> QED BY <2>1, <2>2, <3>1 DEF SnapshotSeen
  <2>3. CASE txn'[q] # txn[q]
    <3>1. PICK s \in Session : Request(s)
      BY <1>2, <2>3 DEF HNext, Next, CreatePortfolio, ChangeEntitlement, ChangeConnection
    <3>2. ASSUME Finish(s) PROVE FALSE
      BY <1>0, <2>3, <3>2 DEF Finish, Idle
    <3>3. PICK p \in Portfolio :
            \/ \E u \in User, f \in BOOLEAN : BeginJoin(s, u, p, f)
            \/ \E u \in User, op \in {"leave", "remove"} : BeginLeave(s, op, u, p)
            \/ \E op \in {"toggle", "delete", "holdings"} : BeginAdmin(s, op, p)
      BY <3>1, <3>2 DEF Request, Join, Leave, ToggleActive, DeletePortfolio, UpdateHoldings, RollBack
    <3>4. PICK u \in User, f \in BOOLEAN : BeginJoin(s, u, p, f)
      <4>1. ASSUME NEW u \in User, NEW op \in {"leave", "remove"}, BeginLeave(s, op, u, p)
            PROVE  FALSE
        <5>1. txn' = [txn EXCEPT ![s] = [op |-> op, user |-> u, portfolio |-> p, open |-> open[u, p]]]
          BY <4>1 DEF BeginLeave, Start
        <5>2. txn'[q].op = op
          BY <1>0, <2>3, <5>1
        <5> QED BY <5>2
      <4>2. ASSUME NEW op \in {"toggle", "delete", "holdings"}, BeginAdmin(s, op, p)
            PROVE  FALSE
        <5>1. txn' = [txn EXCEPT ![s] = [op |-> op, portfolio |-> p, status |-> status[p]]]
          BY <4>2 DEF BeginAdmin, Start
        <5>2. txn'[q].op = op
          BY <1>0, <2>3, <5>1
        <5> QED BY <5>2
      <4> QED BY <3>3, <4>1, <4>2
    <3> DEFINE t == [op |-> "join", user |-> u, portfolio |-> p, funded |-> f,
                     status |-> status[p], open |-> open[u, p],
                     holdings |-> holdings[p], entitled |-> u \in entitled,
                     linked |-> u \in linked]
    <3>5. txn'[q] = t /\ UNCHANGED database
      BY <1>0, <2>3, <3>4 DEF BeginJoin, Start
    <3>6. /\ t.user = u /\ t.portfolio = p /\ t.funded = f /\ t.status = status[p]
          /\ t.open = open[u, p] /\ t.holdings = holdings[p]
          /\ t.entitled = (u \in entitled) /\ t.linked = (u \in linked)
      BY Zenon
    <3> HIDE DEF t
    <3>7. /\ t.status = "active" /\ t.open = 0 /\ t.entitled /\ (t.funded => t.linked)
      BY <3>5 DEF JoinAccepted
    <3>8. UNCHANGED <<status, open, entitled, linked, holdings>>
      BY <3>5 DEF database
    <3>9. /\ status[p] = "active" /\ open[u, p] = 0 /\ u \in entitled /\ (f => u \in linked)
      BY <3>6, <3>7, Zenon
    <3>10. AllowedNow(txn[q])'
      BY <3>5, <3>6, <3>8, <3>9 DEF AllowedNow
    <3>11. txn'[q].holdings = holdings'[txn'[q].portfolio]
      BY <3>5, <3>6, <3>8
    <3>12. txn'[q].holdings \in VersionsNow(txn[q])'
      BY <3>10, <3>11 DEF VersionsNow
    <3> QED BY <2>1, <3>12
  <2> QED BY <2>2, <2>3
<1> QED BY <1>1, <1>2

LEMMA InitSnapshotSeen == HInit => SnapshotSeen
<1> SUFFICES ASSUME HInit PROVE SnapshotSeen
  OBVIOUS
<1>1. \A s \in Session : txn[s].op = "idle"
  BY DEF HInit, Init, Idle
<1> QED BY <1>1 DEF SnapshotSeen

LEMMA HistoryRefines ==
  /\ HInit => Init
  /\ [HNext]_hvars => [Next]_vars
  BY DEF HInit, HNext, hvars

(* Which step opens a row or queues a batch.                               *)
LEMMA Joins ==
  ASSUME TypeOK, SnapshotSeen, [Next]_vars
  PROVE  /\ \A up \in Pair : open'[up] > open[up] =>
              \E s \in Session : Commits(s, up) /\ seen[s] # {}
         /\ \A b \in Batch : trades'[b] > trades[b] =>
              \E s \in Session : Commits(s, <<b[1], b[2]>>) /\ b[3] \in seen[s]
<1>0. txn \in [Session -> Txn] /\ open \in [Pair -> Nat] /\ trades \in [Batch -> Nat]
  BY DEF TypeOK, Txn
<1>1. ASSUME NEW s \in Session, Join(s)
      PROVE  /\ txn[s] \in JoinTxn
             /\ Commits(s, <<txn[s].user, txn[s].portfolio>>)
             /\ txn[s].holdings \in seen[s]
             /\ \A up \in Pair : up # <<txn[s].user, txn[s].portfolio>> => open'[up] = open[up]
             /\ \A b \in Batch : b # <<txn[s].user, txn[s].portfolio, txn[s].holdings>> =>
                  trades'[b] = trades[b]
  <2>1. /\ txn[s].op = "join" /\ JoinAccepted(txn[s]) /\ txn'[s] = Idle
        /\ open' = [open EXCEPT ![<<txn[s].user, txn[s].portfolio>>] = @ + 1]
        /\ \/ trades' = trades
           \/ trades' = [trades EXCEPT ![<<txn[s].user, txn[s].portfolio, txn[s].holdings>>] = @ + 1]
    BY <1>0, <1>1 DEF Join, Finish, QueueBuys
  <2>2. txn[s] \in JoinTxn
    BY <1>0, <2>1, TxnShape
  <2> QED BY <1>0, <2>1, <2>2 DEF Commits, SnapshotSeen
<1>2. ASSUME NEW s \in Session, Join(s), NEW up \in Pair, open'[up] > open[up]
      PROVE  Commits(s, up) /\ seen[s] # {}
  <2>1. open'[up] # open[up]
    BY <1>0, <1>2
  <2> QED BY <1>1, <1>2, <2>1
<1>3. ASSUME NEW s \in Session, Join(s), NEW b \in Batch, trades'[b] > trades[b]
      PROVE  Commits(s, <<b[1], b[2]>>) /\ b[3] \in seen[s]
  <2>1. trades'[b] # trades[b]
    BY <1>0, <1>3
  <2>2. b = <<txn[s].user, txn[s].portfolio, txn[s].holdings>>
    BY <1>1, <1>3, <2>1
  <2> QED BY <1>1, <1>3, <2>2
<1>4. ASSUME NEW s \in Session, Leave(s) \/ DeletePortfolio(s), NEW up \in Pair
      PROVE  ~ open'[up] > open[up] /\ trades' = trades
  <2>1. open'[up] = 0 \/ open'[up] = open[up]
    BY <1>0, <1>4 DEF Leave, CloseMembership, DeletePortfolio, Emptied
  <2>2. open[up] \in Nat
    BY <1>0
  <2> QED BY <1>4, <2>1, <2>2 DEF Leave, DeletePortfolio
<1>5. \/ \E s \in Session : Join(s) \/ Leave(s) \/ DeletePortfolio(s)
      \/ UNCHANGED <<open, trades>>
  <2>1. ASSUME NEW s \in Session, Request(s)
        PROVE  Join(s) \/ Leave(s) \/ DeletePortfolio(s) \/ UNCHANGED <<open, trades>>
    <3>1. ASSUME ToggleActive(s) \/ UpdateHoldings(s) \/ RollBack(s)
          PROVE  UNCHANGED <<open, trades>>
      BY <3>1 DEF ToggleActive, UpdateHoldings, RollBack, database
    <3>2. ASSUME NEW p \in Portfolio, NEW u \in User, NEW f, NEW op,
                 BeginJoin(s, u, p, f) \/ BeginLeave(s, op, u, p) \/ BeginAdmin(s, op, p)
          PROVE  UNCHANGED <<open, trades>>
      BY <3>2 DEF BeginJoin, BeginLeave, BeginAdmin, Start, database
    <3>3. ASSUME NEW p \in Portfolio, NEW op, BeginAdmin(s, op, p)
          PROVE  UNCHANGED <<open, trades>>
      BY <3>3 DEF BeginAdmin, Start, database
    <3> QED BY <2>1, <3>1, <3>2, <3>3 DEF Request
  <2>2. ASSUME NEW p \in Portfolio, CreatePortfolio(p) PROVE UNCHANGED <<open, trades>>
    BY <2>2 DEF CreatePortfolio
  <2>3. ASSUME NEW u \in User, ChangeEntitlement(u) \/ ChangeConnection(u)
        PROVE  UNCHANGED <<open, trades>>
    BY <2>3 DEF ChangeEntitlement, ChangeConnection
  <2> QED BY <2>1, <2>2, <2>3 DEF Next, vars, database
<1>6. \A s \in Session : Leave(s) \/ DeletePortfolio(s) => trades' = trades
  BY DEF Leave, DeletePortfolio
<1>7. (\A up \in Pair : ~ open[up] > open[up]) /\ (\A b \in Batch : ~ trades[b] > trades[b])
  BY <1>0
<1>8. ASSUME NEW up \in Pair, open'[up] > open[up]
      PROVE  \E s \in Session : Commits(s, up) /\ seen[s] # {}
  BY <1>2, <1>4, <1>5, <1>7, <1>8
<1>9. ASSUME NEW b \in Batch, trades'[b] > trades[b]
      PROVE  \E s \in Session : Commits(s, <<b[1], b[2]>>) /\ b[3] \in seen[s]
  BY <1>3, <1>5, <1>6, <1>7, <1>9
<1> QED BY <1>8, <1>9

LEMMA HistoryInvariant == HSpec => [](TypeOK /\ SnapshotSeen)
<1>1. HInit => TypeOK /\ SnapshotSeen
  BY HistoryRefines, InitTypeOK, InitSnapshotSeen
<1>2. TypeOK /\ SnapshotSeen /\ [HNext]_hvars => (TypeOK /\ SnapshotSeen)'
  BY HistoryRefines, StepTypeOK, StepSnapshotSeen
<1> QED BY <1>1, <1>2, PTL DEF HSpec

(* A membership only comes from a join that all the tables together        *)
(* allowed at one instant while it ran.                                    *)
THEOREM JoinsAllowed == HSpec => JoinsWereAllowed
<1>1. TypeOK /\ SnapshotSeen /\ [HNext]_hvars =>
        [\A up \in Pair : open'[up] > open[up] =>
           \E s \in Session : Commits(s, up) /\ seen[s] # {}]_hvars
  BY HistoryRefines, Joins
<1> QED BY <1>1, HistoryInvariant, PTL DEF HSpec, JoinsWereAllowed

(* The buys of a join are those of such an instant.                        *)
THEOREM BuysAllowed == HSpec => BuysMatchAllowedJoin
<1>1. TypeOK /\ SnapshotSeen /\ [HNext]_hvars =>
        [\A b \in Batch : trades'[b] > trades[b] =>
           \E s \in Session : Commits(s, <<b[1], b[2]>>) /\ b[3] \in seen[s]]_hvars
  BY HistoryRefines, Joins
<1> QED BY <1>1, HistoryInvariant, PTL DEF HSpec, BuysMatchAllowedJoin
=============================================================================
