----------------------------- MODULE Subscription -----------------------------
(***************************************************************************)
(* Paid access: verification of Apple transactions, and cancellation by    *)
(* the user and by an administrator.                                       *)
(*                                                                         *)
(* As in Membership a request reads the snapshot taken when it was         *)
(* authenticated (verify-apple then awaits the App Store) and writes the   *)
(* current rows at its commit.  The ORM writes an attribute only when it   *)
(* differs from the value loaded, so setting "active" on a row that was    *)
(* loaded active writes no status at all.                                  *)
(***************************************************************************)
EXTENDS Integers, FiniteSets

CONSTANTS
  User,       \* accounts
  Tx,         \* App Store transaction ids; a renewal is a new one
  Session,    \* requests that can be in progress at the same time
  MaxTime,    \* bound on the clock
  MaxEvents   \* bound on the billing events of one kind about one transaction

ASSUME SessionAssumption == IsFiniteSet(Session) /\ Session # {}
ASSUME BoundAssumption == MaxTime \in Nat /\ MaxEvents \in Nat

VARIABLES
  now,            \* the clock, in units coarse enough that created_at can tie
  sub,            \* sub[t]: the subscriptions row of t, or NoRow
  payments,       \* how many payment_success events name <<user, t>>
  cancellations,  \* how many cancellation events name t
  exempt,         \* users with subscription_exempt set
  txn,            \* what each session is doing and what its snapshot showed
  met             \* history: what the row of a verification became since it began

database == <<sub, payments, cancellations, exempt>>
vars == <<now, database, txn, met>>

Time == 0 .. MaxTime

(* No code path writes "expired" or "grace_period".                        *)
NoRow == [status |-> "none"]
Row == [status : {"active", "cancelled"}, user : User, created : Time]

Idle == [op |-> "idle"]
VerifyTxn == [op : {"verify"}, user : User, tx : Tx, saw : {NoRow} \cup Row]
CancelTxn == [op : {"cancel", "admin_cancel"}, user : User, saw : SUBSET Tx]

TypeOK ==
  /\ now \in Time
  /\ sub \in [Tx -> {NoRow} \cup Row]
  /\ payments \in [User \X Tx -> Nat]
  /\ cancellations \in [Tx -> Nat]
  /\ exempt \subseteq User
  /\ txn \in [Session -> {Idle} \cup VerifyTxn \cup CancelTxn]
  /\ met \in [Session -> SUBSET {"active", "cancelled"}]

Init ==
  /\ now = 0
  /\ sub = [t \in Tx |-> NoRow]
  /\ payments = [ut \in User \X Tx |-> 0]
  /\ cancellations = [t \in Tx |-> 0]
  /\ exempt = {}
  /\ txn = [s \in Session |-> Idle]
  /\ met = [s \in Session |-> {}]

-----------------------------------------------------------------------------
(* Queries                                                                 *)

(* Mutant: the status filter is missing.                                   *)
AnyOf(u) == {t \in Tx : sub[t].status # "none" /\ sub[t].user = u}

(* The rows find_active_for_user and cancel_subscription select from.      *)
ActiveOf(u) == {t \in Tx : sub[t].status = "active" /\ sub[t].user = u}

(* ORDER BY created_at DESC LIMIT 1: any of the rows that share the latest *)
(* created_at, whose resolution is a second.                               *)
Newest(T) == {t \in T : \A other \in T : sub[other].created <= sub[t].created}

-----------------------------------------------------------------------------
(* Requests                                                                *)

Start(s, t) ==
  /\ txn[s] = Idle
  /\ txn' = [txn EXCEPT ![s] = t]
  /\ UNCHANGED <<now, database, met>>

BeginVerify(s, u, t) ==
  Start(s, [op |-> "verify", user |-> u, tx |-> t, saw |-> sub[t]])

(* An exempt user has nothing to cancel; an admin may cancel for him.      *)
BeginCancel(s, u) ==
  /\ u \notin exempt
  /\ Start(s, [op |-> "cancel", user |-> u, saw |-> ActiveOf(u)])

BeginAdminCancel(s, u) ==
  Start(s, [op |-> "admin_cancel", user |-> u, saw |-> ActiveOf(u)])

(* What a commit makes of the row that session q verifies.                 *)
Change(q) ==
  IF txn[q].op = "verify" /\ sub'[txn[q].tx] # sub[txn[q].tx]
  THEN {sub'[txn[q].tx].status}
  ELSE {}

Finish(s) ==
  /\ txn' = [txn EXCEPT ![s] = Idle]
  /\ met' = [q \in Session |-> IF q = s THEN {} ELSE met[q] \cup Change(q)]

(* Apple refuses, an early return, a unique violation, a lost server.      *)
RollBack(s) ==
  /\ txn[s] # Idle
  /\ UNCHANGED <<now, database>>
  /\ Finish(s)

(* Every verification that commits inserts a payment_success event.        *)
RecordPayment(u, t) ==
  /\ payments[u, t] < MaxEvents
  /\ payments' = [payments EXCEPT ![<<u, t>>] = @ + 1]

(* upsert_by_transaction_id without a row: apple_transaction_id is unique, *)
(* so the INSERT needs that there is none at the commit either.            *)
VerifyInsert(s) ==
  LET v == txn[s] IN
  /\ v.op = "verify"
  /\ v.saw = NoRow
  /\ sub[v.tx] = NoRow
  /\ sub' = [sub EXCEPT ![v.tx] =
               [status |-> "active", user |-> v.user, created |-> now]]
  /\ RecordPayment(v.user, v.tx)
  /\ Finish(s)
  /\ UNCHANGED <<now, cancellations, exempt>>

(* Mutants: the owner of the row is not compared; the status is written    *)
(* unconditionally.                                                        *)
OwnsAny(v) == TRUE
ReactivateAlways(v) == [sub EXCEPT ![v.tx] = [@ EXCEPT !.status = "active"]]

OwnsRow(v) == v.saw.user = v.user
Reactivate(v) ==
  IF v.saw.status = "active" THEN sub
  ELSE [sub EXCEPT ![v.tx] = [@ EXCEPT !.status = "active"]]

(* ... and with one: it must be the caller's; a status loaded as "active"  *)
(* is not written again, whatever has become of the row.                   *)
VerifyUpdate(s) ==
  LET v == txn[s] IN
  /\ v.op = "verify"
  /\ v.saw # NoRow
  /\ OwnsRow(v)
  /\ sub' = Reactivate(v)
  /\ RecordPayment(v.user, v.tx)
  /\ Finish(s)
  /\ UNCHANGED <<now, cancellations, exempt>>

CancelRow(t) == sub' = [sub EXCEPT ![t] = [@ EXCEPT !.status = "cancelled"]]

(* POST /subscriptions/cancel.                                             *)
Cancel(s) ==
  /\ txn[s].op = "cancel"
  /\ \E t \in Newest(txn[s].saw) : CancelRow(t)
  /\ Finish(s)
  /\ UNCHANGED <<now, payments, cancellations, exempt>>

(* AdminService.cancel_user_subscription also records a billing event.     *)
AdminCancel(s) ==
  /\ txn[s].op = "admin_cancel"
  /\ \E t \in Newest(txn[s].saw) :
       /\ CancelRow(t)
       /\ cancellations' = [cancellations EXCEPT ![t] = @ + 1]
  /\ Finish(s)
  /\ UNCHANGED <<now, payments, exempt>>

(* AdminService.update_user grants or withdraws the exemption.             *)
SetExempt(u) ==
  /\ exempt' = IF u \in exempt THEN exempt \ {u} ELSE exempt \cup {u}
  /\ UNCHANGED <<now, sub, payments, cancellations, txn, met>>

Tick ==
  /\ now < MaxTime
  /\ now' = now + 1
  /\ UNCHANGED <<database, txn, met>>

Request(s) ==
  \/ \E u \in User :
       \/ \E t \in Tx : BeginVerify(s, u, t)
       \/ BeginCancel(s, u)
       \/ BeginAdminCancel(s, u)
  \/ VerifyInsert(s)
  \/ VerifyUpdate(s)
  \/ Cancel(s)
  \/ AdminCancel(s)
  \/ RollBack(s)

Next ==
  \/ \E s \in Session : Request(s)
  \/ \E u \in User : SetExempt(u)
  \/ Tick

Spec == Init /\ [][Next]_vars

-----------------------------------------------------------------------------
(* Properties                                                              *)

(* A transaction is billed to the account that holds its row and to no     *)
(* other, also when two accounts on one Apple ID verify it concurrently.   *)
PaymentsBelongToOwner ==
  \A t \in Tx :
    /\ sub[t] = NoRow => \A u \in User : payments[u, t] = 0
    /\ sub[t] # NoRow =>
         \A u \in User : payments[u, t] > 0 <=> u = sub[t].user

(* A cancellation is undone only by a verification that began after it: a  *)
(* purchase being verified while the cancel commits does not revive it.    *)
(* The one exception needs a second verification of the transaction: one   *)
(* that found an earlier cancellation undoes this one too, if the other    *)
(* activated the row in between.                                           *)
CancelNotLost ==
  [][\A t \in Tx :
       sub[t].status = "cancelled" /\ sub'[t].status = "active" =>
         \E s \in Session :
           /\ txn[s].op = "verify" /\ txn'[s] = Idle /\ txn[s].tx = t
           /\ "cancelled" \in met[s] => "active" \in met[s]]_vars

(* Administrators racing each other can record one cancellation more than  *)
(* once, but no more often than requests overlap, per activation.          *)
CancellationsBounded ==
  \A t \in Tx :
    LET activations == IF sub[t] = NoRow THEN 0 ELSE payments[sub[t].user, t] IN
    cancellations[t] <= Cardinality(Session) * activations

=============================================================================
