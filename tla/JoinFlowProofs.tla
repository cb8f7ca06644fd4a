---------------------------- MODULE JoinFlowProofs ----------------------------
(* Theorems about JoinFlow, for every number of purchases and attempts.    *)
EXTENDS JoinFlow, FiniteSetTheorems, TLAPS

-----------------------------------------------------------------------------
(* Purchases                                                               *)

(* Inductive: what a flow holds for acknowledgement is on the server.      *)
PurchaseInv ==
  /\ store \in [Tx -> {"none", "charged", "finished"}]
  /\ flow \in [Flow -> [todo : SUBSET Tx, held : SUBSET Tx, on : BOOLEAN]]
  /\ \A f \in Flow : flow[f].held \subseteq recorded
  /\ FinishedIsRecorded

LEMMA InitPurchaseInv == Init => PurchaseInv
  BY DEF Init, PurchaseInv, FinishedIsRecorded, Quiet

LEMMA StepPurchaseInv == PurchaseInv /\ [Next]_vars => PurchaseInv'
<1> SUFFICES ASSUME PurchaseInv, [Next]_vars PROVE PurchaseInv'
  OBVIOUS
<1>1. ASSUME UNCHANGED purchases PROVE PurchaseInv'
  BY <1>1 DEF PurchaseInv, FinishedIsRecorded, purchases
<1>2. ASSUME NEW f \in Flow, NEW todo \in SUBSET Tx, Begin(f, todo)
      PROVE  PurchaseInv'
  BY <1>2 DEF Begin, PurchaseInv, FinishedIsRecorded
<1>3. ASSUME NEW t \in Tx, Purchase(t) PROVE PurchaseInv'
  BY <1>2, <1>3 DEF Purchase, Flow
<1>4. ASSUME BeginRestore PROVE PurchaseInv'
  BY <1>2, <1>4 DEF BeginRestore, Flow
<1>5. ASSUME NEW t \in Tx, Charge(t) PROVE PurchaseInv'
  BY <1>5 DEF Charge, PurchaseInv, FinishedIsRecorded
<1>6. ASSUME NEW f \in Flow, NEW t \in Tx, Record(f, t) PROVE PurchaseInv'
  BY <1>6 DEF Record, PurchaseInv, FinishedIsRecorded
<1>7. ASSUME NEW f \in Flow, NEW t \in Tx, Acknowledge(f, t) PROVE PurchaseInv'
  BY <1>7 DEF Acknowledge, PurchaseInv, FinishedIsRecorded
<1>8. ASSUME NEW f \in Flow, Complete(f) \/ Fail(f) PROVE PurchaseInv'
  <2>1. /\ flow' = [flow EXCEPT ![f] = Quiet]
        /\ UNCHANGED <<recorded, store>>
    BY <1>8 DEF Complete, Fail
  <2> QED BY <2>1 DEF Quiet, PurchaseInv, FinishedIsRecorded
<1>9. ASSUME Restart PROVE PurchaseInv'
  BY <1>9 DEF Restart, Quiet, PurchaseInv, FinishedIsRecorded
<1>10. ASSUME OpenScreen \/ LeaveScreen \/ SelectConnection \/ Move \/ Connect
              \/ ConnectFromSettings \/ AbandonBrowser \/ Refetch \/ TimerFires
              \/ OAuthCallback \/ Elsewhere
       PROVE  UNCHANGED purchases
  BY <1>10 DEF OpenScreen, LeaveScreen, SelectConnection, Move, Connect,
       ConnectFromSettings, AbandonBrowser, Refetch, TimerFires, OAuthCallback,
       Elsewhere
<1>11. ASSUME NEW a \in Attempt,
              Confirm(a) \/ Receive(a) \/ Serve(a) \/ Refuse(a) \/ Settle(a)
       PROVE  UNCHANGED purchases
  BY <1>11 DEF Confirm, Receive, Serve, Refuse, Settle
<1>12. CASE UNCHANGED vars
  BY <1>1, <1>12 DEF vars
<1> QED
  BY <1>1, <1>3, <1>4, <1>5, <1>6, <1>7, <1>8, <1>9, <1>10, <1>11, <1>12
  DEF Next, Press

(* No purchase is acknowledged to the store before the server has it.      *)
THEOREM NoPurchaseLost == Spec => []FinishedIsRecorded
<1>1. PurchaseInv => FinishedIsRecorded
  BY DEF PurchaseInv
<1> QED BY <1>1, InitPurchaseInv, StepPurchaseInv, PTL DEF Spec

-----------------------------------------------------------------------------
(* Joins                                                                   *)

Rows == open[Me, Here]

JoinTypes ==
  /\ open \in [{Me} \X {Here} -> Nat]
  /\ call \in [Attempt -> {"idle", "sent", "joined", "refused"}]
  /\ overlapped \in Nat
  /\ DOMAIN txn = Attempt
  /\ \A a \in Attempt :
       /\ txn[a].op \in {"idle", "join"}
       /\ txn[a].op = "join" =>
            /\ call[a] = "sent"
            /\ txn[a].user = Me /\ txn[a].portfolio = Here
            /\ txn[a].open \in Nat

(* The requests that can still insert a row: those that saw none, and      *)
(* those not yet received while there is none.                             *)
CanJoin ==
  {a \in Attempt :
     /\ call[a] = "sent"
     /\ IF txn[a].op = "join" THEN txn[a].open = 0 ELSE Rows = 0}

(* Inductive: one row for the first Confirm, one for each that overlaps.   *)
RetryInv == JoinTypes /\ Rows + Cardinality(CanJoin) <= 1 + overlapped

LEMMA CanJoinFinite ==
  /\ IsFiniteSet(CanJoin) /\ IsFiniteSet(CanJoin')
  /\ Cardinality(CanJoin) \in Nat /\ Cardinality(CanJoin') \in Nat
<1>1. CanJoin \subseteq Attempt /\ CanJoin' \subseteq Attempt
  BY DEF CanJoin
<1>2. IsFiniteSet(CanJoin) /\ IsFiniteSet(CanJoin')
  BY <1>1, AttemptAssumption, FS_Subset
<1> QED BY <1>2, FS_CardinalityType

(* A step that lets no other request insert keeps the bound.               *)
LEMMA FewerCanJoin ==
  ASSUME RetryInv, JoinTypes', Rows' = Rows, overlapped' = overlapped,
         CanJoin' \subseteq CanJoin
  PROVE  RetryInv'
<1>1. Cardinality(CanJoin') <= Cardinality(CanJoin)
  BY CanJoinFinite, FS_Subset
<1>2. Rows \in Nat
  BY DEF RetryInv, JoinTypes, Rows
<1> QED BY <1>1, <1>2, CanJoinFinite DEF RetryInv, JoinTypes

LEMMA ConfirmStep ==
  ASSUME RetryInv, NEW a \in Attempt, Confirm(a) PROVE RetryInv'
<1>1. /\ a \in Unused /\ call' = [call EXCEPT ![a] = "sent"]
      /\ overlapped' = overlapped + (IF Unsettled # {} THEN 1 ELSE 0)
      /\ open' = open /\ txn' = txn
  BY DEF Confirm, Submit, server
<1>2. JoinTypes'
  BY <1>1 DEF RetryInv, JoinTypes
<1>3. Rows' = Rows /\ Rows \in Nat /\ overlapped \in Nat
  BY <1>1 DEF Rows, RetryInv, JoinTypes
<1>4. CanJoin' \subseteq CanJoin \cup {a} /\ a \notin CanJoin
  BY <1>1, <1>3 DEF CanJoin, Unused, RetryInv, JoinTypes
<1>5. Cardinality(CanJoin \cup {a}) = Cardinality(CanJoin) + 1
  BY <1>4, CanJoinFinite, FS_AddElement
<1>6. IsFiniteSet(CanJoin \cup {a})
  BY CanJoinFinite, FS_AddElement
<1>7. Cardinality(CanJoin') <= Cardinality(CanJoin) + 1
  BY <1>4, <1>5, <1>6, FS_Subset
<1>8. CASE Unsettled # {}
  BY <1>1, <1>2, <1>3, <1>7, <1>8, CanJoinFinite DEF RetryInv
<1>9. CASE Unsettled = {}
  <2>1. CanJoin = {}
    BY <1>9 DEF CanJoin, Unsettled
  <2>2. Cardinality(CanJoin) = 0
    BY <2>1, FS_EmptySet
  <2>3. CASE Rows = 0
    BY <1>1, <1>2, <1>3, <1>7, <1>9, <2>2, <2>3, CanJoinFinite DEF RetryInv
  <2>4. CASE Rows # 0
    <3>1. a \notin CanJoin'
      BY <1>1, <1>3, <2>4 DEF CanJoin, Unused, RetryInv, JoinTypes
    <3>2. CanJoin' = {}
      BY <3>1, <1>4, <2>1
    <3>3. Cardinality(CanJoin') = 0
      BY <3>2, FS_EmptySet
    <3> QED BY <1>1, <1>2, <1>3, <1>9, <2>2, <3>3 DEF RetryInv
  <2> QED BY <2>3, <2>4
<1> QED BY <1>8, <1>9

LEMMA ReceiveStep ==
  ASSUME RetryInv, NEW a \in Attempt, Receive(a) PROVE RetryInv'
<1> DEFINE t == [op |-> "join", user |-> Me, portfolio |-> Here,
                 funded |-> TRUE, status |-> status[Here], open |-> Rows,
                 holdings |-> holdings[Here], entitled |-> Me \in entitled,
                 linked |-> Me \in linked]
<1>1. /\ txn[a] = [op |-> "idle"] /\ txn' = [txn EXCEPT ![a] = t]
      /\ call[a] = "sent"
      /\ UNCHANGED <<open, call, overlapped>>
  BY Zenon DEF Receive, Server!BeginJoin, Server!Start, Server!Idle, Server!database,
     Rows
<1>2. /\ txn[a].op = "idle"
      /\ t.op = "join" /\ t.user = Me /\ t.portfolio = Here /\ t.open = Rows
  BY <1>1
<1> HIDE DEF t
<1>3. Rows \in Nat
  BY DEF RetryInv, JoinTypes, Rows
<1>4. JoinTypes'
  BY <1>1, <1>2, <1>3 DEF RetryInv, JoinTypes
<1>5. CanJoin' \subseteq CanJoin
  BY <1>1, <1>2 DEF CanJoin, Rows, RetryInv, JoinTypes
<1> QED BY <1>1, <1>4, <1>5, FewerCanJoin DEF Rows

LEMMA ServeStep ==
  ASSUME RetryInv, NEW a \in Attempt, Serve(a) PROVE RetryInv'
<1>1. /\ txn[a].op = "join" /\ txn[a].open = 0 /\ call[a] = "sent"
      /\ open' = [open EXCEPT ![<<txn[a].user, txn[a].portfolio>>] = @ + 1]
      /\ txn' = [txn EXCEPT ![a] = [op |-> "idle"]]
      /\ call' = [call EXCEPT ![a] = "joined"]
      /\ overlapped' = overlapped
  BY DEF Serve, Server!Join, Server!JoinAccepted, Server!Finish, Server!Idle
<1>2. txn[a].user = Me /\ txn[a].portfolio = Here
  BY <1>1 DEF RetryInv, JoinTypes
<1>3. Rows' = Rows + 1 /\ Rows \in Nat
  BY <1>1, <1>2 DEF Rows, RetryInv, JoinTypes
<1>4. JoinTypes'
  BY <1>1, <1>2 DEF RetryInv, JoinTypes
<1>5. a \in CanJoin /\ CanJoin' \subseteq CanJoin \ {a}
  BY <1>1, <1>3 DEF CanJoin, RetryInv, JoinTypes
<1>6. /\ Cardinality(CanJoin \ {a}) = Cardinality(CanJoin) - 1
      /\ IsFiniteSet(CanJoin \ {a})
  BY <1>5, CanJoinFinite, FS_RemoveElement
<1>7. Cardinality(CanJoin') <= Cardinality(CanJoin) - 1
  BY <1>5, <1>6, FS_Subset
<1> QED BY <1>1, <1>3, <1>4, <1>7, CanJoinFinite DEF RetryInv, JoinTypes

LEMMA RefuseStep ==
  ASSUME RetryInv, NEW a \in Attempt, Refuse(a) PROVE RetryInv'
<1>1. /\ txn' = [txn EXCEPT ![a] = [op |-> "idle"]] \/ (txn' = txn /\ txn[a].op = "idle")
      /\ call' = [call EXCEPT ![a] = "refused"]
      /\ UNCHANGED <<open, overlapped>>
  BY DEF Refuse, Server!RollBack, Server!Finish, Server!Idle, Server!database, server
<1>2. JoinTypes'
  BY <1>1 DEF RetryInv, JoinTypes
<1>3. CanJoin' \subseteq CanJoin
  BY <1>1 DEF CanJoin, Rows, RetryInv, JoinTypes
<1> QED BY <1>1, <1>2, <1>3, FewerCanJoin DEF Rows

LEMMA StepRetryInv == RetryInv /\ [Next]_vars => RetryInv'
<1> SUFFICES ASSUME RetryInv, [Next]_vars PROVE RetryInv'
  OBVIOUS
<1> DEFINE Joins == <<open, txn, call, overlapped>>
<1>1. ASSUME UNCHANGED Joins PROVE RetryInv'
  BY <1>1 DEF RetryInv, JoinTypes, Rows, CanJoin
<1>2. ASSUME Press \/ Refetch \/ TimerFires \/ OAuthCallback \/ Restart
      PROVE  UNCHANGED Joins
  BY <1>2 DEF Press, OpenScreen, LeaveScreen, SelectConnection, Move,
     BeginRestore, Begin, Connect, ConnectFromSettings, AbandonBrowser,
     Refetch, TimerFires, OAuthCallback, Restart, server
<1>3. ASSUME Elsewhere PROVE UNCHANGED Joins
  BY <1>3 DEF Elsewhere, Server!ChangeEntitlement, Server!ChangeConnection
<1>4. ASSUME NEW t \in Tx, Purchase(t) \/ Charge(t) PROVE UNCHANGED Joins
  BY <1>4 DEF Purchase, Begin, Charge, server
<1>5. ASSUME NEW f \in Flow, Complete(f) \/ Fail(f) PROVE UNCHANGED Joins
  BY <1>5 DEF Complete, Fail, server
<1>6. ASSUME NEW f \in Flow, NEW t \in Tx, Record(f, t) \/ Acknowledge(f, t)
      PROVE  UNCHANGED Joins
  BY <1>6 DEF Record, Acknowledge, server
<1>7. ASSUME NEW a \in Attempt, Settle(a) PROVE UNCHANGED Joins
  BY <1>7 DEF Settle, server
<1>8. CASE UNCHANGED vars
  BY <1>1, <1>8 DEF vars, server
<1> QED
  BY <1>1, <1>2, <1>3, <1>4, <1>5, <1>6, <1>7, <1>8, ConfirmStep, ReceiveStep,
     ServeStep, RefuseStep
  DEF Next

LEMMA InitRetryInv == Init => RetryInv
<1> SUFFICES ASSUME Init PROVE RetryInv
  OBVIOUS
<1>1. JoinTypes /\ Rows = 0 /\ CanJoin = {} /\ overlapped = 0
  BY DEF Init, JoinTypes, Rows, CanJoin
<1> QED BY <1>1, FS_EmptySet DEF RetryInv

(* Trying again never makes a second membership; only a Confirm during an  *)
(* unfinished request can add one, and at most one each.                   *)
THEOREM RetryJoinsOnce == Spec => []RetryIsSafe
<1>1. RetryInv => RetryIsSafe
  <2> SUFFICES ASSUME RetryInv PROVE RetryIsSafe
    OBVIOUS
  <2>1. Rows \in Nat /\ overlapped \in Nat
    BY DEF RetryInv, JoinTypes, Rows
  <2>2. Rows <= 1 + overlapped
    BY <2>1, CanJoinFinite DEF RetryInv
  <2> QED BY Zenon, <2>2 DEF RetryIsSafe, Rows
<1> QED BY <1>1, InitRetryInv, StepRetryInv, PTL DEF Spec

-----------------------------------------------------------------------------
(* Success                                                                 *)

Member == open[<<Me, Here>>] >= 1 /\ trades[<<Me, Here, 1>>] >= 1

(* Inductive: a join in progress is funded and saw the holdings, so that   *)
(* its commit queues buys; nobody leaves, and no buy is taken back.        *)
SuccessInv ==
  /\ open \in [{Me} \X {Here} -> Nat]
  /\ trades \in [{Me} \X {Here} \X (0 .. 1) -> Nat]
  /\ holdings = [p \in {Here} |-> 1]
  /\ DOMAIN txn = Attempt
  /\ \A a \in Attempt :
       txn[a].op = "join" => /\ txn[a].user = Me /\ txn[a].portfolio = Here
                             /\ txn[a].funded /\ txn[a].holdings = 1
  /\ call \in [Attempt -> {"idle", "sent", "joined", "refused"}]
  /\ screen \in [step : Step \cup {"away"}, autoStepped : BOOLEAN,
                  selected : BOOLEAN, busy : SUBSET Flow, timer : BOOLEAN,
                  awaited : SUBSET Attempt]
  /\ screen.step = "success" \/ (\E a \in Attempt : call[a] = "joined") => Member

ScreenType ==
  [step : Step \cup {"away"}, autoStepped : BOOLEAN, selected : BOOLEAN, busy : SUBSET Flow,
   timer : BOOLEAN, awaited : SUBSET Attempt]

LEMMA FreshScreen ==
  /\ Fresh \in ScreenType /\ Fresh.step = "subscription"
  /\ Away \in ScreenType /\ Away.step = "away"
<1>1. Fresh \in ScreenType /\ Fresh.step = "subscription"
  BY DEF Fresh, ScreenType, Step
<1>2. [Fresh EXCEPT !.step = "away"] \in ScreenType /\ [Fresh EXCEPT !.step = "away"].step = "away"
  BY <1>1 DEF ScreenType
<1> QED BY <1>1, <1>2 DEF Away

(* A step of the app that shows no success.                                *)
LEMMA NoSuccess ==
  ASSUME SuccessInv, UNCHANGED <<open, trades, holdings, txn>>,
         call' \in [Attempt -> {"idle", "sent", "joined", "refused"}],
         \A a \in Attempt : call'[a] = "joined" => call[a] = "joined",
         screen' \in ScreenType, screen'.step = "success" => screen.step = "success"
  PROVE  SuccessInv'
  BY DEF SuccessInv, ScreenType, Member

LEMMA ScreenSteps ==
  ASSUME SuccessInv,
         Press \/ Refetch \/ TimerFires \/ OAuthCallback \/ Restart \/ Elsewhere
         \/ (\E t \in Tx : Purchase(t) \/ Charge(t))
         \/ (\E f \in Flow : Complete(f) \/ Fail(f))
         \/ (\E f \in Flow, t \in Tx : Record(f, t) \/ Acknowledge(f, t))
  PROVE  SuccessInv'
<1>0. screen \in ScreenType /\ call \in [Attempt -> {"idle", "sent", "joined", "refused"}]
  BY DEF SuccessInv, ScreenType
<1> DEFINE Screen == screen' \in ScreenType /\ (screen'.step = "success" => screen.step = "success")
           Rest == UNCHANGED <<open, trades, holdings, txn, call>>
<1>1. Rest /\ Screen => SuccessInv'
  BY <1>0, NoSuccess
<1> HIDE DEF Screen, Rest
<1>2. \A sc \in ScreenType : \A cached : LET x == AutoStep(sc, cached) IN
        x \in ScreenType /\ (x.step = "success" => sc.step = "success")
  BY DEF AutoStep, ScreenType, Step
<1>3. \A sc \in ScreenType, st \in Step :
        [sc EXCEPT !.step = st] \in ScreenType /\ [sc EXCEPT !.step = st].step = st
  BY DEF ScreenType
<1>4. \A sc \in ScreenType, b \in SUBSET Flow :
        [sc EXCEPT !.busy = b] \in ScreenType /\ [sc EXCEPT !.busy = b].step = sc.step
  BY DEF ScreenType
<1>5. CASE OpenScreen \/ LeaveScreen \/ Restart
  <2>1. Rest
    BY <1>5 DEF OpenScreen, LeaveScreen, Restart, Rest, server
  <2>2. screen' = AutoStep(Fresh, known) \/ screen' = Away
    BY <1>5 DEF OpenScreen, LeaveScreen, Restart
  <2>3. Screen
    BY <2>2, <1>2, FreshScreen DEF Screen
  <2> QED BY <1>1, <2>1, <2>3
<1>6. CASE Refetch
  BY <1>0, <1>1, <1>2, <1>6 DEF Refetch, Rest, Screen, server
<1>7. CASE SelectConnection
  <2>1. [screen EXCEPT !.selected = TRUE] \in ScreenType
        /\ [screen EXCEPT !.selected = TRUE].step = screen.step
    BY <1>0 DEF ScreenType
  <2> QED BY <1>1, <1>7, <2>1 DEF SelectConnection, Rest, Screen, server
<1>8. CASE Move
  <2>1. PICK st \in {"invest", "brokerage"} : screen' = [screen EXCEPT !.step = st]
    BY <1>8 DEF Move, Show
  <2>2. st \in Step /\ st # "success"
    BY DEF Step
  <2>3. [screen EXCEPT !.step = st] \in ScreenType /\ [screen EXCEPT !.step = st].step = st
    BY <1>0, <1>3, <2>2
  <2>4. Screen
    BY <2>1, <2>2, <2>3 DEF Screen
  <2> QED BY <1>1, <1>8, <2>4 DEF Move, Rest, server
<1>9. CASE BeginRestore \/ \E t \in Tx : Purchase(t)
  <2>1. PICK f \in Flow : \E todo : Begin(f, todo)
    BY <1>9 DEF BeginRestore, Purchase, Flow
  <2>2. screen' = [screen EXCEPT !.busy = {f}]
    BY <2>1 DEF Begin
  <2>3. Screen
    BY <2>2, <1>0, <1>4 DEF Screen
  <2> QED BY <1>1, <2>1, <2>3 DEF Begin, Rest, server
<1>10. CASE Connect \/ ConnectFromSettings \/ AbandonBrowser \/ Elsewhere
            \/ (\E t \in Tx : Charge(t)) \/ \E f \in Flow, t \in Tx : Record(f, t) \/ Acknowledge(f, t)
  <2>1. screen' = screen /\ Rest
    BY <1>10 DEF Connect, ConnectFromSettings, AbandonBrowser, Elsewhere, Charge, Record,
       Acknowledge, Server!ChangeEntitlement, Server!ChangeConnection, Rest, server
  <2> QED BY <1>0, <1>1, <2>1 DEF Screen
<1>11. CASE TimerFires
  <2>1. screen' = [[screen EXCEPT !.timer = FALSE] EXCEPT !.step = "brokerage"]
    BY <1>11 DEF TimerFires
  <2>2. [screen EXCEPT !.timer = FALSE] \in ScreenType
    BY <1>0 DEF ScreenType
  <2>3. Screen
    BY <2>1, <2>2, <1>3 DEF Screen, Step
  <2> QED BY <1>1, <1>11, <2>3 DEF TimerFires, Rest, server
<1>12. CASE OAuthCallback
  <2>1. screen' = AutoStep(Fresh, known) \/ screen' = Away
    BY <1>12 DEF OAuthCallback
  <2>2. Screen
    BY <2>1, <1>2, FreshScreen DEF Screen
  <2> QED BY <1>1, <1>12, <2>2 DEF OAuthCallback, Rest
<1>13. ASSUME NEW f \in Flow, Complete(f) PROVE SuccessInv'
  <2> DEFINE idle == [screen EXCEPT !.busy = {}]
  <2>1. idle \in ScreenType /\ idle.step = screen.step
    BY <1>0, <1>4
  <2>2. Completed(f) = [idle EXCEPT !.timer = TRUE] \/ Completed(f) = [idle EXCEPT !.step = "brokerage"]
    BY DEF Completed
  <2>3. [idle EXCEPT !.timer = TRUE] \in ScreenType /\ [idle EXCEPT !.timer = TRUE].step = idle.step
    BY <2>1 DEF ScreenType
  <2>4. screen' = screen \/ screen' = Completed(f)
    BY <1>13 DEF Complete
  <2>5. "brokerage" \in Step
    BY DEF Step
  <2>6. /\ [idle EXCEPT !.step = "brokerage"] \in ScreenType
        /\ [idle EXCEPT !.step = "brokerage"].step = "brokerage"
    BY <1>3, <2>1, <2>5
  <2> HIDE DEF idle
  <2>7. Completed(f) \in ScreenType /\ (Completed(f).step = "success" => screen.step = "success")
    BY <2>1, <2>2, <2>3, <2>6
  <2>8. Screen
    BY <1>0, <2>4, <2>7 DEF Screen
  <2> QED BY <1>1, <1>13, <2>8 DEF Complete, Rest, server
<1>14. ASSUME NEW f \in Flow, Fail(f) PROVE SuccessInv'
  <2>1. screen.busy \ {f} \in SUBSET Flow
    BY <1>0 DEF ScreenType
  <2>2. screen' = [screen EXCEPT !.busy = screen.busy \ {f}]
    BY <1>14 DEF Fail
  <2>3. Screen
    BY <1>0, <1>4, <2>1, <2>2 DEF Screen
  <2> QED BY <1>1, <1>14, <2>3 DEF Fail, Rest, server
<1> QED BY <1>5, <1>6, <1>7, <1>8, <1>9, <1>10, <1>11, <1>12, <1>13, <1>14 DEF Press

LEMMA RequestSteps ==
  ASSUME SuccessInv, NEW a \in Attempt,
         Confirm(a) \/ Receive(a) \/ Serve(a) \/ Refuse(a) \/ Settle(a)
  PROVE  SuccessInv'
<1>0. screen \in ScreenType /\ call \in [Attempt -> {"idle", "sent", "joined", "refused"}]
  BY DEF SuccessInv, ScreenType
<1>1. CASE Confirm(a)
  <2>1. screen' = [screen EXCEPT !.step = "loading", !.awaited = screen.awaited \cup {a}]
        /\ call' = [call EXCEPT ![a] = "sent"] /\ UNCHANGED <<open, trades, holdings, txn>>
    BY <1>1 DEF Confirm, Submit, server
  <2>2. screen' \in ScreenType /\ screen'.step = "loading"
    BY <1>0, <2>1 DEF ScreenType, Step
  <2>3. /\ call' \in [Attempt -> {"idle", "sent", "joined", "refused"}]
        /\ \A b \in Attempt : call'[b] = "joined" => call[b] = "joined"
    BY <1>0, <2>1
  <2> QED BY <2>1, <2>2, <2>3, NoSuccess
<1>2. CASE Receive(a)
  <2> DEFINE t == [op |-> "join", user |-> Me, portfolio |-> Here,
                   funded |-> TRUE, status |-> status[Here], open |-> open[<<Me, Here>>],
                   holdings |-> holdings[Here], entitled |-> Me \in entitled,
                   linked |-> Me \in linked]
  <2>1. /\ txn' = [txn EXCEPT ![a] = t]
        /\ UNCHANGED <<open, trades, holdings, call, screen>>
    BY <1>2, Zenon DEF Receive, Server!BeginJoin, Server!Start, Server!database
  <2>2. /\ t.user = Me /\ t.portfolio = Here /\ t.funded /\ t.holdings = holdings[Here]
    OBVIOUS
  <2> HIDE DEF t
  <2>3. t.holdings = 1
    BY <2>2 DEF SuccessInv
  <2>4. /\ DOMAIN txn' = Attempt
        /\ \A b \in Attempt : b # a => txn'[b] = txn[b]
        /\ txn'[a] = t
    BY <2>1 DEF SuccessInv
  <2>5. \A b \in Attempt :
          txn'[b].op = "join" => /\ txn'[b].user = Me /\ txn'[b].portfolio = Here
                                 /\ txn'[b].funded /\ txn'[b].holdings = 1
    BY <2>2, <2>3, <2>4 DEF SuccessInv
  <2> QED BY <2>1, <2>4, <2>5 DEF SuccessInv, Member
<1>3. CASE Serve(a)
  <2>1. /\ txn[a].op = "join" /\ UNCHANGED <<holdings, screen>>
        /\ open' = [open EXCEPT ![<<txn[a].user, txn[a].portfolio>>] = @ + 1]
        /\ txn' = [txn EXCEPT ![a] = [op |-> "idle"]]
        /\ call' = [call EXCEPT ![a] = "joined"]
        /\ Server!QueueBuys(txn[a])
    BY <1>3 DEF Serve, Server!Join, Server!Finish, Server!Idle
  <2>2. /\ txn[a].user = Me /\ txn[a].portfolio = Here
        /\ txn[a].funded /\ txn[a].holdings = 1
    BY <2>1 DEF SuccessInv
  <2>3. /\ open' = [open EXCEPT ![<<Me, Here>>] = open[<<Me, Here>>] + 1]
        /\ trades' = [trades EXCEPT ![<<Me, Here, 1>>] = trades[<<Me, Here, 1>>] + 1]
    BY <2>1, <2>2 DEF Server!QueueBuys
  <2>4. open[<<Me, Here>>] \in Nat /\ trades[<<Me, Here, 1>>] \in Nat
    BY DEF SuccessInv
  <2>5. /\ open' \in [{Me} \X {Here} -> Nat] /\ trades' \in [{Me} \X {Here} \X (0 .. 1) -> Nat]
        /\ open'[<<Me, Here>>] = open[<<Me, Here>>] + 1
        /\ trades'[<<Me, Here, 1>>] = trades[<<Me, Here, 1>>] + 1
    BY <2>3, <2>4 DEF SuccessInv
  <2>6. Member'
    BY <2>4, <2>5 DEF Member
  <2>7. /\ DOMAIN txn' = Attempt
        /\ \A b \in Attempt : txn'[b] = txn[b] \/ txn'[b].op = "idle"
    BY <2>1 DEF SuccessInv
  <2>8. call' \in [Attempt -> {"idle", "sent", "joined", "refused"}]
    BY <1>0, <2>1
  <2>9. \A b \in Attempt :
          txn'[b].op = "join" => /\ txn'[b].user = Me /\ txn'[b].portfolio = Here
                                 /\ txn'[b].funded /\ txn'[b].holdings = 1
    BY <2>7 DEF SuccessInv
  <2> QED BY <2>1, <2>5, <2>6, <2>7, <2>8, <2>9 DEF SuccessInv
<1>4. CASE Refuse(a)
  <2>1. /\ txn' = [txn EXCEPT ![a] = [op |-> "idle"]] \/ txn' = txn
        /\ call' = [call EXCEPT ![a] = "refused"]
        /\ UNCHANGED <<open, trades, holdings, screen>>
    BY <1>4 DEF Refuse, Server!RollBack, Server!Finish, Server!Idle, Server!database, server
  <2>2. /\ DOMAIN txn' = Attempt
        /\ \A b \in Attempt : txn'[b] = txn[b] \/ txn'[b].op = "idle"
    BY <2>1 DEF SuccessInv
  <2>3. /\ call' \in [Attempt -> {"idle", "sent", "joined", "refused"}]
        /\ \A b \in Attempt : call'[b] = "joined" => call[b] = "joined"
    BY <1>0, <2>1
  <2>4. \A b \in Attempt :
          txn'[b].op = "join" => /\ txn'[b].user = Me /\ txn'[b].portfolio = Here
                                 /\ txn'[b].funded /\ txn'[b].holdings = 1
    BY <2>2 DEF SuccessInv
  <2> QED BY <2>1, <2>2, <2>3, <2>4 DEF SuccessInv, Member
<1>5. CASE Settle(a)
  <2>1. /\ UNCHANGED <<open, trades, holdings, txn, call>>
        /\ \E st \in {Outcome(a), "failure"} :
             screen' = [screen EXCEPT !.step = st, !.awaited = screen.awaited \ {a}]
    BY <1>5 DEF Settle, server
  <2>2. Outcome(a) \in {"success", "failure"} /\ (Outcome(a) = "success" => call[a] = "joined")
    BY DEF Outcome
  <2>3. screen' \in ScreenType /\ screen'.step \in {Outcome(a), "failure"}
    BY <1>0, <2>1, <2>2 DEF ScreenType, Step
  <2>4. screen'.step = "success" => call[a] = "joined"
    BY <2>2, <2>3
  <2> QED BY <2>1, <2>3, <2>4 DEF SuccessInv, ScreenType, Member
<1> QED BY <1>1, <1>2, <1>3, <1>4, <1>5

(* The success screen tells the truth over any number of attempts.         *)
THEOREM SuccessIsEarned == Spec => []SuccessIsTrue
<1>1. Init => SuccessInv
  <2> SUFFICES ASSUME Init PROVE SuccessInv
    OBVIOUS
  <2>1. screen \in ScreenType /\ screen.step = "away"
    BY FreshScreen DEF Init
  <2> QED BY <2>1 DEF Init, SuccessInv, ScreenType
<1>2. SuccessInv /\ [Next]_vars => SuccessInv'
  <2> SUFFICES ASSUME SuccessInv, [Next]_vars PROVE SuccessInv'
    OBVIOUS
  <2>1. CASE UNCHANGED vars
    BY <2>1 DEF vars, server, SuccessInv, Member
  <2> QED BY <2>1, ScreenSteps, RequestSteps DEF Next
<1>3. SuccessInv => SuccessIsTrue
  BY DEF SuccessInv, SuccessIsTrue, Member
<1> QED BY <1>1, <1>2, <1>3, PTL DEF Spec
=============================================================================
