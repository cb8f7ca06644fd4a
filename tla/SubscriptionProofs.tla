--------------------------- MODULE SubscriptionProofs ---------------------------
(* Theorems about Subscription, for any sets of users, transactions and    *)
(* sessions and any bounds.                                                *)
EXTENDS Subscription, FiniteSetTheorems, TLAPS

-----------------------------------------------------------------------------
(* Inductive: a row that a request has seen is still there, and still of   *)
(* the user it was seen to be of: nothing deletes a row or moves it.       *)
SawInv ==
  \A s \in Session :
    /\ txn[s].op = "verify" /\ txn[s].saw # NoRow =>
         /\ sub[txn[s].tx] # NoRow
         /\ sub[txn[s].tx].user = txn[s].saw.user
    /\ txn[s].op \in {"cancel", "admin_cancel"} =>
         \A t \in txn[s].saw : sub[t] # NoRow

IInv == TypeOK /\ SawInv /\ PaymentsBelongToOwner

LEMMA InitIInv == Init => IInv
<1> SUFFICES ASSUME Init PROVE IInv
  OBVIOUS
<1>1. TypeOK
  <2>1. met \in [Session -> SUBSET {"active", "cancelled"}]
    BY DEF Init
  <2> QED BY <2>1, BoundAssumption DEF Init, TypeOK, Time
<1>2. SawInv
  BY DEF Init, SawInv, Idle
<1>3. \A u \in User, t \in Tx : payments[u, t] = 0
  BY DEF Init
<1>4. PaymentsBelongToOwner
  BY <1>3 DEF Init, PaymentsBelongToOwner
<1> QED BY <1>1, <1>2, <1>4 DEF IInv

(* What a session does belongs to one of three kinds.                      *)
LEMMA TxnKinds ==
  ASSUME IInv, NEW s \in Session
  PROVE  /\ txn[s].op = "verify" => txn[s] \in VerifyTxn
         /\ txn[s].op \in {"cancel", "admin_cancel"} => txn[s] \in CancelTxn
  BY DEF IInv, TypeOK, VerifyTxn, CancelTxn, Idle

(* A step that adds rows, or changes their status, and ends a session.     *)
LEMMA RowsStay ==
  ASSUME IInv, NEW s \in Session, Finish(s), sub' \in [Tx -> {NoRow} \cup Row],
         \A t \in Tx : sub[t] # NoRow => sub'[t] # NoRow /\ sub'[t].user = sub[t].user
  PROVE  /\ SawInv'
         /\ txn' \in [Session -> {Idle} \cup VerifyTxn \cup CancelTxn]
         /\ met' \in [Session -> SUBSET {"active", "cancelled"}]
<1>1. txn' \in [Session -> {Idle} \cup VerifyTxn \cup CancelTxn]
  BY DEF IInv, TypeOK, Finish
<1>2. txn'[s] = Idle /\ \A q \in Session \ {s} : txn'[q] = txn[q]
  BY DEF IInv, TypeOK, Finish
<1>3. ASSUME NEW q \in Session, txn'[q].op = "verify", txn'[q].saw # NoRow
      PROVE  sub'[txn'[q].tx] # NoRow /\ sub'[txn'[q].tx].user = txn'[q].saw.user
  <2>1. q # s /\ txn'[q] = txn[q] /\ txn[q].tx \in Tx
    BY <1>2, <1>3, TxnKinds DEF Idle, VerifyTxn
  <2> QED BY <1>3, <2>1 DEF IInv, SawInv
<1>4. ASSUME NEW q \in Session, txn'[q].op \in {"cancel", "admin_cancel"}, NEW t \in txn'[q].saw
      PROVE  sub'[t] # NoRow
  <2>1. q # s /\ txn'[q] = txn[q] /\ txn[q].saw \subseteq Tx
    BY <1>2, <1>4, TxnKinds DEF Idle, CancelTxn
  <2> QED BY <1>4, <2>1 DEF IInv, SawInv
<1>5. ASSUME NEW q \in Session PROVE Change(q) \subseteq {"active", "cancelled"}
  <2> SUFFICES ASSUME txn[q].op = "verify", sub'[txn[q].tx] # sub[txn[q].tx]
               PROVE  sub'[txn[q].tx].status \in {"active", "cancelled"}
    BY DEF Change
  <2>1. txn[q].tx \in Tx
    BY TxnKinds DEF VerifyTxn
  <2>2. sub'[txn[q].tx] \in Row
    BY <2>1 DEF IInv, TypeOK
  <2> QED BY <2>2 DEF Row
<1>6. met' \in [Session -> SUBSET {"active", "cancelled"}]
  BY <1>5 DEF Finish, IInv, TypeOK
<1> QED BY <1>1, <1>3, <1>4, <1>6 DEF SawInv

LEMMA BeginSteps ==
  ASSUME IInv, NEW s \in Session, NEW u \in User,
         (\E t \in Tx : BeginVerify(s, u, t)) \/ BeginCancel(s, u) \/ BeginAdminCancel(s, u)
  PROVE  IInv'
<1>1. PICK x : Start(s, x) /\
         \/ \E t \in Tx : x = [op |-> "verify", user |-> u, tx |-> t, saw |-> sub[t]]
         \/ \E o \in {"cancel", "admin_cancel"} : x = [op |-> o, user |-> u, saw |-> ActiveOf(u)]
  BY DEF BeginVerify, BeginCancel, BeginAdminCancel
<1>2. /\ txn' = [txn EXCEPT ![s] = x]
      /\ UNCHANGED <<now, database, met>>
  BY <1>1 DEF Start
<1>3. /\ x \in VerifyTxn \cup CancelTxn
      /\ x.op = "verify" => x.saw = sub[x.tx]
      /\ x.op \in {"cancel", "admin_cancel"} => \A t \in x.saw : sub[t] # NoRow
  BY <1>1 DEF VerifyTxn, CancelTxn, ActiveOf, NoRow, IInv, TypeOK
<1>4. TypeOK'
  BY <1>2, <1>3 DEF IInv, TypeOK, database
<1>5. SawInv'
  BY <1>2, <1>3 DEF IInv, TypeOK, SawInv, database
<1>6. PaymentsBelongToOwner'
  BY <1>2 DEF IInv, PaymentsBelongToOwner, database
<1> QED BY <1>4, <1>5, <1>6 DEF IInv

(* One payment more, of the user the row is of.                            *)
LEMMA PaymentKeeps ==
  ASSUME IInv, NEW u \in User, NEW t \in Tx, RecordPayment(u, t),
         sub' \in [Tx -> {NoRow} \cup Row],
         sub'[t] # NoRow, sub'[t].user = u,
         sub[t] # NoRow => sub[t].user = u,
         \A x \in Tx \ {t} : sub'[x] = sub[x]
  PROVE  payments' \in [User \X Tx -> Nat] /\ PaymentsBelongToOwner'
<1>1. payments' = [payments EXCEPT ![<<u, t>>] = payments[<<u, t>>] + 1]
      /\ payments \in [User \X Tx -> Nat]
  BY DEF RecordPayment, IInv, TypeOK
<1>2. payments' \in [User \X Tx -> Nat]
  BY <1>1
<1>3. \A v \in User, x \in Tx : payments[<<v, x>>] \in Nat
  BY <1>1
<1>4. /\ payments'[<<u, t>>] > 0
      /\ \A v \in User, x \in Tx : ~ (v = u /\ x = t) => payments'[<<v, x>>] = payments[<<v, x>>]
  BY <1>1, <1>3
<1>5. \A v \in User : v # u => ~ (payments[<<v, t>>] > 0)
  <2>1. CASE sub[t] = NoRow
    <3>1. \A v \in User : payments[<<v, t>>] = 0
      BY <2>1 DEF IInv, PaymentsBelongToOwner
    <3> QED BY <3>1
  <2>2. CASE sub[t] # NoRow
    <3>1. \A v \in User : payments[<<v, t>>] > 0 <=> v = sub[t].user
      BY <2>2, Zenon DEF IInv, PaymentsBelongToOwner
    <3> QED BY <2>2, <3>1
  <2> QED BY <2>1, <2>2
<1>6. ASSUME NEW x \in Tx
      PROVE  /\ sub'[x] = NoRow => \A v \in User : payments'[<<v, x>>] = 0
             /\ sub'[x] # NoRow => \A v \in User : payments'[<<v, x>>] > 0 <=> v = sub'[x].user
  <2>1. CASE x = t
    <3>1. \A v \in User : v # u => ~ (payments'[<<v, t>>] > 0)
      BY <1>4, <1>5
    <3> QED BY <1>4, <2>1, <3>1
  <2>2. CASE x # t
    <3>1. /\ sub[x] = NoRow => \A v \in User : payments[<<v, x>>] = 0
          /\ sub[x] # NoRow => \A v \in User : payments[<<v, x>>] > 0 <=> v = sub[x].user
      BY Zenon DEF IInv, PaymentsBelongToOwner
    <3>2. sub'[x] = sub[x] /\ \A v \in User : payments'[<<v, x>>] = payments[<<v, x>>]
      BY <1>4, <2>2
    <3> QED BY <3>1, <3>2
  <2> QED BY <2>1, <2>2
<1> QED BY <1>2, <1>6 DEF PaymentsBelongToOwner

LEMMA VerifySteps ==
  ASSUME IInv, NEW s \in Session, VerifyInsert(s) \/ VerifyUpdate(s)
  PROVE  IInv'
<1> DEFINE v == txn[s]
<1>1. v \in VerifyTxn /\ v.tx \in Tx /\ v.user \in User
  BY TxnKinds DEF VerifyInsert, VerifyUpdate, VerifyTxn
<1>2. /\ RecordPayment(v.user, v.tx) /\ Finish(s)
      /\ UNCHANGED <<now, cancellations, exempt>>
  BY DEF VerifyInsert, VerifyUpdate
<1>3. /\ sub' \in [Tx -> {NoRow} \cup Row]
      /\ sub'[v.tx] # NoRow /\ sub'[v.tx].user = v.user
      /\ sub[v.tx] # NoRow => sub[v.tx].user = v.user
      /\ \A x \in Tx \ {v.tx} : sub'[x] = sub[x]
  <2>1. CASE VerifyInsert(s)
    <3> DEFINE r == [status |-> "active", user |-> v.user, created |-> now]
    <3>1. r \in Row /\ r # NoRow /\ r.user = v.user
      BY <1>1 DEF Row, NoRow, IInv, TypeOK
    <3>2. sub' = [sub EXCEPT ![v.tx] = r] /\ sub[v.tx] = NoRow
      BY <2>1 DEF VerifyInsert
    <3> QED BY <1>1, <3>1, <3>2 DEF IInv, TypeOK
  <2>2. CASE VerifyUpdate(s)
    <3> DEFINE r == [sub[v.tx] EXCEPT !.status = "active"]
    <3>1. sub[v.tx] # NoRow /\ sub[v.tx].user = v.user
      BY <1>1, <2>2 DEF VerifyUpdate, OwnsRow, IInv, SawInv
    <3>2. sub[v.tx] \in Row
      BY <1>1, <3>1 DEF IInv, TypeOK
    <3>3. r \in Row /\ r.user = v.user /\ r.status = "active"
      BY <3>1, <3>2 DEF Row
    <3>4. sub' = sub \/ sub' = [sub EXCEPT ![v.tx] = r]
      BY <2>2 DEF VerifyUpdate, Reactivate
    <3>5. r # NoRow
      BY <3>3 DEF NoRow
    <3> QED BY <1>1, <3>1, <3>3, <3>4, <3>5 DEF IInv, TypeOK
  <2> QED BY <2>1, <2>2
<1>4. payments' \in [User \X Tx -> Nat] /\ PaymentsBelongToOwner'
  BY <1>1, <1>2, <1>3, PaymentKeeps
<1>5. \A t \in Tx : sub[t] # NoRow => sub'[t] # NoRow /\ sub'[t].user = sub[t].user
  BY <1>1, <1>3
<1>6. SawInv' /\ txn' \in [Session -> {Idle} \cup VerifyTxn \cup CancelTxn]
      /\ met' \in [Session -> SUBSET {"active", "cancelled"}]
  BY <1>2, <1>3, <1>5, RowsStay
<1> QED BY <1>2, <1>3, <1>4, <1>6 DEF IInv, TypeOK

LEMMA CancelSteps ==
  ASSUME IInv, NEW s \in Session, Cancel(s) \/ AdminCancel(s)
  PROVE  IInv'
<1>1. txn[s] \in CancelTxn /\ txn[s].saw \subseteq Tx
  BY TxnKinds DEF Cancel, AdminCancel, CancelTxn
<1>2. PICK t \in txn[s].saw :
         /\ sub' = [sub EXCEPT ![t] = [sub[t] EXCEPT !.status = "cancelled"]]
         /\ cancellations' \in {cancellations, [cancellations EXCEPT ![t] = @ + 1]}
  BY DEF Cancel, AdminCancel, CancelRow, Newest
<1>3. UNCHANGED <<now, payments, exempt>> /\ Finish(s)
  BY DEF Cancel, AdminCancel
<1> DEFINE r == [sub[t] EXCEPT !.status = "cancelled"]
<1>4. t \in Tx /\ sub[t] # NoRow /\ sub[t] \in Row
  BY <1>1, <1>2 DEF IInv, TypeOK, SawInv, Cancel, AdminCancel
<1>5. r \in Row /\ r.user = sub[t].user /\ r.status = "cancelled"
  BY <1>4 DEF Row
<1>6. r # NoRow
  BY <1>5 DEF NoRow
<1>7. /\ sub' \in [Tx -> {NoRow} \cup Row] /\ cancellations' \in [Tx -> Nat]
      /\ \A x \in Tx : /\ sub'[x] = NoRow <=> sub[x] = NoRow
                       /\ sub[x] # NoRow => sub'[x].user = sub[x].user
  <2>1. sub' = [sub EXCEPT ![t] = r] /\ sub \in [Tx -> {NoRow} \cup Row]
    BY <1>2 DEF IInv, TypeOK
  <2>2. cancellations' \in [Tx -> Nat]
    BY <1>2, <1>4 DEF IInv, TypeOK
  <2> HIDE DEF r
  <2> QED BY <1>4, <1>5, <1>6, <2>1, <2>2
<1>8. SawInv' /\ txn' \in [Session -> {Idle} \cup VerifyTxn \cup CancelTxn]
      /\ met' \in [Session -> SUBSET {"active", "cancelled"}]
  BY <1>3, <1>7, RowsStay
<1>9. PaymentsBelongToOwner'
  BY <1>3, <1>7 DEF IInv, PaymentsBelongToOwner
<1> QED BY <1>3, <1>7, <1>8, <1>9 DEF IInv, TypeOK

LEMMA StepIInv == IInv /\ [Next]_vars => IInv'
<1> SUFFICES ASSUME IInv, [Next]_vars PROVE IInv'
  OBVIOUS
<1>1. ASSUME NEW s \in Session, RollBack(s) PROVE IInv'
  <2>1. UNCHANGED <<now, database>> /\ Finish(s)
    BY <1>1 DEF RollBack
  <2>2. SawInv' /\ txn' \in [Session -> {Idle} \cup VerifyTxn \cup CancelTxn]
      /\ met' \in [Session -> SUBSET {"active", "cancelled"}]
    BY <2>1, RowsStay DEF database, IInv, TypeOK
  <2> QED BY <2>1, <2>2 DEF IInv, TypeOK, database, PaymentsBelongToOwner
<1>2. ASSUME NEW u \in User, SetExempt(u) PROVE IInv'
  BY <1>2 DEF SetExempt, IInv, TypeOK, SawInv, PaymentsBelongToOwner
<1>3. CASE Tick
  <2>1. now' \in Time /\ UNCHANGED <<database, txn, met>>
    BY <1>3, BoundAssumption DEF Tick, Time, IInv, TypeOK
  <2> QED BY <2>1 DEF database, IInv, TypeOK, SawInv, PaymentsBelongToOwner
<1>4. CASE UNCHANGED vars
  BY <1>4 DEF vars, database, IInv, TypeOK, SawInv, PaymentsBelongToOwner
<1> QED BY <1>1, <1>2, <1>3, <1>4, BeginSteps, VerifySteps, CancelSteps DEF Next, Request

(* Every row and every request in progress keeps its type.                 *)
THEOREM TypeCorrect == Spec => []TypeOK
<1>1. IInv => TypeOK
  BY DEF IInv
<1> QED BY <1>1, InitIInv, StepIInv, PTL DEF Spec

(* A billing event is only ever recorded for the account that owns the row *)
(* of its transaction, however verifications of several accounts overlap.  *)
THEOREM PaymentsReachTheOwner == Spec => []PaymentsBelongToOwner
<1>1. IInv => PaymentsBelongToOwner
  BY DEF IInv
<1> QED BY <1>1, InitIInv, StepIInv, PTL DEF Spec

-----------------------------------------------------------------------------
(* Cancellations that stand                                                *)

(* Inductive: the row of a verification that found it cancelled, and that  *)
(* nobody has activated since, has been cancelled all the time.            *)
MetInv ==
  \A s \in Session :
    /\ txn[s] = Idle => met[s] = {}
    /\ txn[s].op = "verify" /\ txn[s].saw.status = "cancelled" /\ "active" \notin met[s] =>
         "cancelled" \notin met[s] /\ sub[txn[s].tx].status = "cancelled"

(* A commit changes nothing of a row that stays cancelled.                 *)
LEMMA CancelledStays ==
  ASSUME IInv, NEW s \in Session, Request(s), NEW t \in Tx,
         sub[t].status = "cancelled", sub'[t].status # "active"
  PROVE  sub'[t] = sub[t]
<1>1. sub[t] \in Row /\ [sub[t] EXCEPT !.status = "cancelled"] = sub[t]
  BY DEF IInv, TypeOK, Row, NoRow
<1>2. CASE Cancel(s) \/ AdminCancel(s)
  <2>1. PICK x \in txn[s].saw :
           sub' = [sub EXCEPT ![x] = [sub[x] EXCEPT !.status = "cancelled"]]
    BY <1>2 DEF Cancel, AdminCancel, CancelRow, Newest
  <2> QED BY <1>1, <2>1 DEF IInv, TypeOK
<1>3. CASE VerifyInsert(s)
  BY <1>1, <1>3 DEF VerifyInsert, IInv, TypeOK
<1>4. CASE VerifyUpdate(s)
  <2>1. \/ sub' = sub
        \/ sub' = [sub EXCEPT ![txn[s].tx] = [sub[txn[s].tx] EXCEPT !.status = "active"]]
    BY <1>4 DEF VerifyUpdate, Reactivate
  <2>2. [sub[t] EXCEPT !.status = "active"].status = "active"
    BY <1>1 DEF Row
  <2> QED BY <2>1, <2>2 DEF IInv, TypeOK
<1> QED
  BY <1>2, <1>3, <1>4
  DEF Request, BeginVerify, BeginCancel, BeginAdminCancel, Start, RollBack, database

LEMMA FinishMet ==
  ASSUME IInv, MetInv, NEW s \in Session, Request(s), Finish(s)
  PROVE  MetInv'
<1> SUFFICES ASSUME NEW q \in Session
             PROVE  /\ txn'[q] = Idle => met'[q] = {}
                    /\ /\ txn'[q].op = "verify" /\ txn'[q].saw.status = "cancelled"
                       /\ "active" \notin met'[q]
                       => "cancelled" \notin met'[q] /\ sub'[txn'[q].tx].status = "cancelled"
  BY DEF MetInv
<1>1. CASE q = s
  BY <1>1 DEF Finish, Idle, IInv, TypeOK
<1>2. CASE q # s
  <2>1. txn'[q] = txn[q] /\ met'[q] = met[q] \cup Change(q)
    BY <1>2 DEF Finish, IInv, TypeOK
  <2>2. txn'[q] = Idle => met'[q] = {}
    <3>1. txn[q] = Idle => met[q] = {} /\ Change(q) = {}
      BY DEF Change, Idle, MetInv
    <3> QED BY <2>1, <3>1
  <2>3. ASSUME txn'[q].op = "verify", txn'[q].saw.status = "cancelled", "active" \notin met'[q]
        PROVE  "cancelled" \notin met'[q] /\ sub'[txn'[q].tx].status = "cancelled"
    <3>1. "cancelled" \notin met[q] /\ sub[txn[q].tx].status = "cancelled" /\ txn[q].tx \in Tx
      BY <2>1, <2>3, TxnKinds DEF MetInv, VerifyTxn
    <3>2. sub'[txn[q].tx].status # "active"
      BY <2>1, <2>3, <3>1 DEF Change
    <3>3. sub'[txn[q].tx] = sub[txn[q].tx]
      BY <3>1, <3>2, CancelledStays
    <3> QED BY <2>1, <3>1, <3>3 DEF Change
  <2> QED BY <2>2, <2>3
<1> QED BY <1>1, <1>2

LEMMA StepMetInv == IInv /\ MetInv /\ [Next]_vars => MetInv'
<1> SUFFICES ASSUME IInv, MetInv, [Next]_vars PROVE MetInv'
  OBVIOUS
<1>1. CASE UNCHANGED <<sub, txn, met>>
  BY <1>1 DEF MetInv
<1>2. ASSUME NEW s \in Session, NEW x \in VerifyTxn \cup CancelTxn, Start(s, x),
             x.op = "verify" => x.saw = sub[x.tx]
      PROVE  MetInv'
  <2>1. txn' = [txn EXCEPT ![s] = x] /\ UNCHANGED <<sub, met>> /\ met[s] = {}
    BY <1>2 DEF Start, database, MetInv
  <2>2. x # Idle
    BY <1>2 DEF VerifyTxn, CancelTxn, Idle
  <2> QED BY <1>2, <2>1, <2>2 DEF MetInv, IInv, TypeOK
<1>3. ASSUME NEW s \in Session, NEW u \in User,
             (\E t \in Tx : BeginVerify(s, u, t)) \/ BeginCancel(s, u) \/ BeginAdminCancel(s, u)
      PROVE  MetInv'
  <2>1. CASE \E t \in Tx : BeginVerify(s, u, t)
    <3>1. PICK t \in Tx : BeginVerify(s, u, t)
      BY <2>1
    <3> DEFINE x == [op |-> "verify", user |-> u, tx |-> t, saw |-> sub[t]]
    <3>2. x \in VerifyTxn /\ x.saw = sub[x.tx]
      BY DEF VerifyTxn, IInv, TypeOK
    <3> HIDE DEF x
    <3> QED BY <1>2, <3>1, <3>2 DEF BeginVerify, x
  <2>2. ASSUME NEW o \in {"cancel", "admin_cancel"},
               Start(s, [op |-> o, user |-> u, saw |-> ActiveOf(u)])
        PROVE  MetInv'
    <3>1. [op |-> o, user |-> u, saw |-> ActiveOf(u)] \in CancelTxn /\ o # "verify"
      BY DEF CancelTxn, ActiveOf
    <3> QED BY <1>2, <2>2, <3>1
  <2> QED BY <1>3, <2>1, <2>2 DEF BeginCancel, BeginAdminCancel
<1>4. ASSUME NEW s \in Session,
             VerifyInsert(s) \/ VerifyUpdate(s) \/ Cancel(s) \/ AdminCancel(s) \/ RollBack(s)
      PROVE  MetInv'
  <2>1. Finish(s) /\ Request(s)
    BY <1>4 DEF VerifyInsert, VerifyUpdate, Cancel, AdminCancel, RollBack, Request
  <2> QED BY <2>1, FinishMet
<1> QED
  BY <1>1, <1>3, <1>4 DEF Next, Request, SetExempt, Tick, vars, database

(* A verification that undoes a cancellation began after it, or another    *)
(* has activated the row since it began, however many requests overlap.    *)
THEOREM CancellationStands == Spec => CancelNotLost
<1> DEFINE Late(s) == "cancelled" \in met[s] => "active" \in met[s]
           Stands ==
             \A t \in Tx :
               sub[t].status = "cancelled" /\ sub'[t].status = "active" =>
                 \E s \in Session :
                   /\ txn[s].op = "verify" /\ txn'[s] = Idle /\ txn[s].tx = t
                   /\ Late(s)
<1>1. Init => MetInv
  BY DEF Init, MetInv, Idle
<1>2. IInv /\ MetInv /\ [Next]_vars => [Stands]_vars
  <2> SUFFICES ASSUME IInv, MetInv, Next, NEW t \in Tx, sub[t].status = "cancelled",
                      sub'[t].status = "active"
               PROVE  \E s \in Session :
                        /\ txn[s].op = "verify" /\ txn'[s] = Idle /\ txn[s].tx = t
                        /\ Late(s)
    OBVIOUS
  <2>1. sub[t] # NoRow /\ sub' # sub
    BY DEF NoRow
  <2>2. PICK s \in Session : Request(s)
    BY <2>1 DEF Next, SetExempt, Tick, database
  <2>3. ~ (Cancel(s) \/ AdminCancel(s))
    <3> SUFFICES ASSUME Cancel(s) \/ AdminCancel(s) PROVE FALSE
      OBVIOUS
    <3>1. txn[s].saw \subseteq Tx
      BY TxnKinds DEF Cancel, AdminCancel, CancelTxn
    <3>2. PICK x \in txn[s].saw : sub' = [sub EXCEPT ![x] = [sub[x] EXCEPT !.status = "cancelled"]]
      BY DEF Cancel, AdminCancel, CancelRow, Newest
    <3>3. sub[x] \in Row
      BY <3>1 DEF Cancel, AdminCancel, IInv, TypeOK, SawInv
    <3>4. [sub[x] EXCEPT !.status = "cancelled"].status = "cancelled"
      BY <3>3 DEF Row
    <3> QED BY <3>1, <3>2, <3>4 DEF IInv, TypeOK
  <2>4. VerifyInsert(s) \/ VerifyUpdate(s)
    BY <2>1, <2>2, <2>3
    DEF Request, BeginVerify, BeginCancel, BeginAdminCancel, Start, RollBack, database
  <2>5. txn[s] \in VerifyTxn /\ txn'[s] = Idle /\ txn[s].op = "verify"
    BY <2>4, TxnKinds DEF VerifyInsert, VerifyUpdate, Finish, IInv, TypeOK
  <2>6. txn[s].tx = t
    BY <2>4 DEF VerifyInsert, VerifyUpdate, Reactivate, IInv, TypeOK
  <2>7. VerifyUpdate(s)
    BY <2>1, <2>4, <2>6 DEF VerifyInsert
  <2>8. txn[s].saw \in Row /\ txn[s].saw.status # "active"
    BY <2>1, <2>5, <2>7 DEF VerifyUpdate, Reactivate, VerifyTxn
  <2>9. txn[s].saw.status = "cancelled"
    BY <2>8 DEF Row
  <2>10. Late(s)
    BY <2>5, <2>9 DEF MetInv
  <2> QED BY <2>5, <2>6, <2>10
<1> QED BY <1>1, <1>2, InitIInv, StepIInv, StepMetInv, PTL DEF Spec, CancelNotLost

-----------------------------------------------------------------------------
(* Cancellations                                                           *)

N == Cardinality(Session)
Activations(t) == IF sub[t] = NoRow THEN 0 ELSE payments[<<sub[t].user, t>>]

(* The administrators' requests that will cancel t, perhaps once more.     *)
Cancelling(t) == {s \in Session : txn[s].op = "admin_cancel" /\ t \in txn[s].saw}

(* Inductive: an active row has a round of cancellations to come, and once *)
(* it is cancelled no request begins that finds it.                        *)
CancelInv ==
  \A t \in Tx :
    /\ sub[t] = NoRow => cancellations[t] = 0
    /\ sub[t].status = "active" => cancellations[t] + N <= N * Activations(t)
    /\ sub[t].status = "cancelled" =>
         cancellations[t] + Cardinality(Cancelling(t)) <= N * Activations(t)

LEMMA Sizes ==
  ASSUME NEW t \in Tx
  PROVE  /\ N \in Nat
         /\ IsFiniteSet(Cancelling(t)) /\ IsFiniteSet(Cancelling(t)')
         /\ Cardinality(Cancelling(t)) \in Nat /\ Cardinality(Cancelling(t)') \in Nat
         /\ Cardinality(Cancelling(t)) <= N /\ Cardinality(Cancelling(t)') <= N
<1>1. Cancelling(t) \in SUBSET Session /\ Cancelling(t)' \in SUBSET Session
  BY DEF Cancelling
<1>2. IsFiniteSet(Cancelling(t)) /\ IsFiniteSet(Cancelling(t)')
  BY <1>1, SessionAssumption, FS_Subset
<1>3. Cardinality(Cancelling(t)) <= N /\ Cardinality(Cancelling(t)') <= N
  BY <1>1, SessionAssumption, FS_Subset DEF N
<1> QED BY <1>2, <1>3, SessionAssumption, FS_CardinalityType DEF N

LEMMA RoundMore == \A n, k \in Nat : n * k \in Nat /\ n * (k + 1) = n * k + n
  OBVIOUS

LEMMA ActivationsNat ==
  ASSUME IInv, NEW t \in Tx
  PROVE  Activations(t) \in Nat /\ N * Activations(t) \in Nat /\ cancellations[t] \in Nat
<1>1. sub[t] # NoRow => sub[t].user \in User
  BY DEF IInv, TypeOK, Row
<1>2. Activations(t) \in Nat /\ cancellations[t] \in Nat
  BY <1>1 DEF Activations, IInv, TypeOK
<1> QED BY <1>2, Sizes, RoundMore

(* A step that changes no row and begins no cancellation of a row that is  *)
(* cancelled already.                                                      *)
LEMMA RowsUnchanged ==
  ASSUME IInv, CancelInv, UNCHANGED <<sub, payments, cancellations>>,
         \A t \in Tx : sub[t].status # "active" => Cancelling(t)' \subseteq Cancelling(t)
  PROVE  CancelInv'
<1> SUFFICES ASSUME NEW t \in Tx
             PROVE  /\ sub'[t] = NoRow => cancellations'[t] = 0
                    /\ sub'[t].status = "active" => cancellations'[t] + N <= N * Activations(t)'
                    /\ sub'[t].status = "cancelled" =>
                         cancellations'[t] + Cardinality(Cancelling(t)') <= N * Activations(t)'
  BY DEF CancelInv
<1>1. Activations(t)' = Activations(t)
  BY DEF Activations
<1>2. sub[t].status = "cancelled" => Cardinality(Cancelling(t)') <= Cardinality(Cancelling(t))
  BY Sizes, FS_Subset
<1> QED BY <1>1, <1>2, Sizes, ActivationsNat DEF CancelInv

LEMMA FinishShrinks ==
  ASSUME IInv, NEW s \in Session, Finish(s), NEW t
  PROVE  Cancelling(t)' = Cancelling(t) \ {s}
<1>1. txn'[s] = Idle /\ \A q \in Session \ {s} : txn'[q] = txn[q]
  BY DEF IInv, TypeOK, Finish
<1> QED BY <1>1 DEF Cancelling, Idle

LEMMA VerifyCancelInv ==
  ASSUME IInv, CancelInv, NEW s \in Session, VerifyInsert(s) \/ VerifyUpdate(s)
  PROVE  CancelInv'
<1>1. PICK v \in VerifyTxn, x \in Tx : v = txn[s] /\ x = txn[s].tx /\ v.user \in User
  BY TxnKinds DEF VerifyInsert, VerifyUpdate, VerifyTxn
<1>2. /\ payments' = [payments EXCEPT ![<<v.user, x>>] = payments[<<v.user, x>>] + 1]
      /\ cancellations' = cancellations /\ Finish(s)
  BY <1>1 DEF VerifyInsert, VerifyUpdate, RecordPayment
<1>3. payments \in [User \X Tx -> Nat] /\ sub \in [Tx -> {NoRow} \cup Row]
  BY DEF IInv, TypeOK
<1>4. /\ payments'[<<v.user, x>>] = payments[<<v.user, x>>] + 1
      /\ \A u \in User, t \in Tx : t # x => payments'[<<u, t>>] = payments[<<u, t>>]
  BY <1>1, <1>2, <1>3
<1>5. \A t \in Tx : Cancelling(t)' = Cancelling(t)
  <2>1. \A t \in Tx : s \notin Cancelling(t)
    BY <1>1 DEF Cancelling, VerifyTxn
  <2>2. \A t \in Tx : Cancelling(t)' = Cancelling(t) \ {s}
    BY <1>2, FinishShrinks
  <2>3. ASSUME NEW t \in Tx PROVE Cancelling(t) \ {s} = Cancelling(t)
    BY <2>1, <2>3
  <2> QED BY <2>2, <2>3
<1>6. ASSUME NEW t \in Tx, t # x
      PROVE  sub'[t] = sub[t] /\ Activations(t)' = Activations(t)
  <2>1. sub'[t] = sub[t]
    BY <1>1, <1>3, <1>6 DEF VerifyInsert, VerifyUpdate, Reactivate
  <2>2. sub[t] # NoRow => sub[t].user \in User
    BY <1>3 DEF Row
  <2> QED BY <1>4, <1>6, <2>1, <2>2 DEF Activations
<1>7. /\ sub'[x] # NoRow /\ sub'[x].user = v.user
      /\ sub[x] # NoRow => sub[x].user = v.user
      /\ sub'[x] = sub[x] \/ sub'[x].status = "active"
  <2>1. CASE VerifyInsert(s)
    <3>1. sub'[x] = [status |-> "active", user |-> v.user, created |-> now] /\ sub[x] = NoRow
      BY <1>1, <1>3, <2>1 DEF VerifyInsert
    <3> QED BY <3>1 DEF NoRow
  <2>2. CASE VerifyUpdate(s)
    <3>1. sub[x] # NoRow /\ sub[x].user = v.user
      BY <1>1, <2>2 DEF VerifyUpdate, OwnsRow, IInv, SawInv
    <3>2. sub[x] \in Row
      BY <1>1, <1>3, <3>1
    <3>3. sub'[x] = sub[x] \/ sub'[x] = [sub[x] EXCEPT !.status = "active"]
      BY <1>1, <1>3, <2>2 DEF VerifyUpdate, Reactivate
    <3>4. /\ [sub[x] EXCEPT !.status = "active"].user = sub[x].user
          /\ [sub[x] EXCEPT !.status = "active"].status = "active"
      BY <3>2 DEF Row
    <3>5. \A r : r.status = "active" => r # NoRow
      BY DEF NoRow
    <3> QED BY <3>1, <3>3, <3>4, <3>5
  <2> QED BY <2>1, <2>2
<1>8. Activations(x)' = Activations(x) + 1
  <2>1. CASE sub[x] = NoRow
    <3>1. payments[<<v.user, x>>] = 0
      BY <1>1, <2>1 DEF IInv, PaymentsBelongToOwner
    <3> QED BY <1>4, <1>7, <2>1, <3>1 DEF Activations
  <2>2. CASE sub[x] # NoRow
    BY <1>4, <1>7, <2>2 DEF Activations
  <2> QED BY <2>1, <2>2
<1>9. cancellations[x] + N <= N * Activations(x)'
  <2>1. cancellations[x] <= N * Activations(x)
    <3>1. sub[x] = NoRow \/ sub[x].status \in {"active", "cancelled"}
      BY <1>1, <1>3 DEF Row
    <3>2. /\ sub[x] = NoRow => cancellations[x] = 0
          /\ sub[x].status = "active" => cancellations[x] + N <= N * Activations(x)
          /\ sub[x].status = "cancelled" =>
               cancellations[x] + Cardinality(Cancelling(x)) <= N * Activations(x)
      BY <1>1 DEF CancelInv
    <3> QED BY <1>1, <3>1, <3>2, Sizes, ActivationsNat
  <2>2. N * (Activations(x) + 1) = N * Activations(x) + N
    BY <1>1, RoundMore, Sizes, ActivationsNat
  <2> QED BY <1>1, <1>8, <2>1, <2>2, Sizes, ActivationsNat
<1>10. ASSUME NEW t \in Tx
       PROVE  /\ sub'[t] = NoRow => cancellations'[t] = 0
              /\ sub'[t].status = "active" => cancellations'[t] + N <= N * Activations(t)'
              /\ sub'[t].status = "cancelled" =>
                   cancellations'[t] + Cardinality(Cancelling(t)') <= N * Activations(t)'
  <2>1. CASE t = x
    <3>1. N * Activations(x)' \in Nat
      BY <1>1, <1>8, Sizes, ActivationsNat, RoundMore
    <3>2. /\ cancellations'[x] + N <= N * Activations(x)'
          /\ cancellations'[x] + Cardinality(Cancelling(x)') <= N * Activations(x)'
      BY <1>1, <1>2, <1>9, <3>1, Sizes, ActivationsNat
    <3> QED BY <1>7, <2>1, <3>2
  <2>2. CASE t # x
    BY <1>2, <1>5, <1>6, <2>2 DEF CancelInv
  <2> QED BY <2>1, <2>2
<1> QED BY <1>10 DEF CancelInv

LEMMA CancelCancelInv ==
  ASSUME IInv, CancelInv, NEW s \in Session, Cancel(s) \/ AdminCancel(s)
  PROVE  CancelInv'
<1>1. txn[s] \in CancelTxn /\ txn[s].saw \subseteq Tx
  BY TxnKinds DEF Cancel, AdminCancel, CancelTxn
<1>2. PICK x \in txn[s].saw :
         /\ sub' = [sub EXCEPT ![x] = [sub[x] EXCEPT !.status = "cancelled"]]
         /\ \/ cancellations' = cancellations
            \/ txn[s].op = "admin_cancel" /\ cancellations' = [cancellations EXCEPT ![x] = @ + 1]
  BY DEF Cancel, AdminCancel, CancelRow, Newest
<1>3. payments' = payments /\ Finish(s)
  BY DEF Cancel, AdminCancel
<1>4. x \in Tx /\ sub[x] # NoRow /\ sub[x] \in Row
  BY <1>1, <1>2 DEF IInv, TypeOK, SawInv, Cancel, AdminCancel
<1>5. /\ sub'[x].status = "cancelled" /\ sub'[x].user = sub[x].user
      /\ \A t \in Tx : t # x => sub'[t] = sub[t] /\ cancellations'[t] = cancellations[t]
      /\ \/ cancellations'[x] = cancellations[x]
         \/ s \in Cancelling(x) /\ cancellations'[x] = cancellations[x] + 1
  <2>1. /\ [sub[x] EXCEPT !.status = "cancelled"].status = "cancelled"
        /\ [sub[x] EXCEPT !.status = "cancelled"].user = sub[x].user
    BY <1>4 DEF Row
  <2> QED BY <1>2, <1>4, <2>1 DEF IInv, TypeOK, Cancelling
<1>6. \A t \in Tx : Activations(t)' = Activations(t)
  <2>1. sub'[x] # NoRow
    BY <1>5 DEF NoRow
  <2> QED BY <1>3, <1>4, <1>5, <2>1 DEF Activations
<1>7. \A t \in Tx : Cancelling(t)' = Cancelling(t) \ {s}
  BY <1>3, FinishShrinks
<1>8. \A t \in Tx : Cardinality(Cancelling(t)') <= Cardinality(Cancelling(t))
  BY <1>7, Sizes, FS_Subset
<1>9. cancellations'[x] + Cardinality(Cancelling(x)') <= N * Activations(x)
  <2>1. /\ sub[x].status = "active" => cancellations[x] + N <= N * Activations(x)
        /\ sub[x].status = "cancelled" =>
             cancellations[x] + Cardinality(Cancelling(x)) <= N * Activations(x)
    BY <1>4 DEF CancelInv
  <2>2. cancellations[x] + Cardinality(Cancelling(x)) <= N * Activations(x)
    BY <1>4, <2>1, Sizes, ActivationsNat DEF Row
  <2>3. CASE cancellations'[x] = cancellations[x]
    BY <1>4, <1>8, <2>2, <2>3, Sizes, ActivationsNat
  <2>4. CASE s \in Cancelling(x) /\ cancellations'[x] = cancellations[x] + 1
    <3>1. Cardinality(Cancelling(x)') = Cardinality(Cancelling(x)) - 1
      BY <1>4, <1>7, <2>4, Sizes, FS_RemoveElement
    <3> QED BY <1>4, <2>2, <2>4, <3>1, Sizes, ActivationsNat
  <2> QED BY <1>5, <2>3, <2>4
<1>10. ASSUME NEW t \in Tx
       PROVE  /\ sub'[t] = NoRow => cancellations'[t] = 0
              /\ sub'[t].status = "active" => cancellations'[t] + N <= N * Activations(t)'
              /\ sub'[t].status = "cancelled" =>
                   cancellations'[t] + Cardinality(Cancelling(t)') <= N * Activations(t)'
  <2>1. CASE t = x
    <3>1. sub'[x] # NoRow
      BY <1>5 DEF NoRow
    <3> QED BY <1>5, <1>6, <1>9, <2>1, <3>1
  <2>2. CASE t # x
    BY <1>5, <1>6, <1>8, <2>2, Sizes, ActivationsNat DEF CancelInv
  <2> QED BY <2>1, <2>2
<1> QED BY <1>10 DEF CancelInv

LEMMA StepCancelInv == IInv /\ CancelInv /\ [Next]_vars => CancelInv'
<1> SUFFICES ASSUME IInv, CancelInv, [Next]_vars PROVE CancelInv'
  OBVIOUS
<1>1. ASSUME UNCHANGED <<sub, payments, cancellations, txn>> PROVE CancelInv'
  BY <1>1, RowsUnchanged DEF Cancelling
<1>2. ASSUME NEW s \in Session, RollBack(s) PROVE CancelInv'
  <2>1. UNCHANGED <<sub, payments, cancellations>> /\ Finish(s)
    BY <1>2 DEF RollBack, database
  <2> QED BY <2>1, FinishShrinks, RowsUnchanged
<1>3. ASSUME NEW s \in Session, NEW u \in User,
             (\E t \in Tx : BeginVerify(s, u, t)) \/ BeginCancel(s, u) \/ BeginAdminCancel(s, u)
      PROVE  CancelInv'
  <2>0. PICK z : Start(s, z) /\
          \/ \E t \in Tx : z = [op |-> "verify", user |-> u, tx |-> t, saw |-> sub[t]]
          \/ \E o \in {"cancel", "admin_cancel"} : z = [op |-> o, user |-> u, saw |-> ActiveOf(u)]
    BY <1>3 DEF BeginVerify, BeginCancel, BeginAdminCancel
  <2>1. PICK y : /\ Start(s, y)
                 /\ y.op = "admin_cancel" => y.saw = ActiveOf(u)
    BY <2>0
  <2>2. UNCHANGED <<sub, payments, cancellations>> /\ txn' = [txn EXCEPT ![s] = y]
    BY <2>1 DEF Start, database
  <2>3. \A t \in Tx : sub[t].status # "active" => Cancelling(t)' \subseteq Cancelling(t)
    BY <2>1, <2>2 DEF Cancelling, ActiveOf, IInv, TypeOK
  <2> QED BY <2>2, <2>3, RowsUnchanged
<1>4. ASSUME (\E u \in User : SetExempt(u)) \/ Tick \/ UNCHANGED vars
      PROVE  UNCHANGED <<sub, payments, cancellations, txn>>
  BY <1>4 DEF SetExempt, Tick, vars, database
<1> QED BY <1>1, <1>2, <1>3, <1>4, VerifyCancelInv, CancelCancelInv DEF Next, Request

(* However many administrators and users cancel at once, a transaction has *)
(* no more cancellations on record than activations times the requests     *)
(* that can overlap.                                                       *)
THEOREM CancellationsFollowActivations == Spec => []CancellationsBounded
<1>1. Init => CancelInv
  BY DEF Init, CancelInv, NoRow
<1>2. IInv /\ CancelInv /\ [Next]_vars => (IInv /\ CancelInv)'
  BY StepIInv, StepCancelInv
<1>3. IInv /\ CancelInv => CancellationsBounded
  <2> SUFFICES ASSUME IInv, CancelInv, NEW t \in Tx
               PROVE  cancellations[t] <= N * Activations(t)
    BY DEF CancellationsBounded, N, Activations
  <2>1. sub[t] = NoRow \/ sub[t].status \in {"active", "cancelled"}
    BY DEF IInv, TypeOK, Row
  <2> QED BY <2>1, Sizes, ActivationsNat DEF CancelInv
<1> QED BY <1>1, <1>2, <1>3, InitIInv, PTL DEF Spec

=============================================================================
