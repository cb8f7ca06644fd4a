------------------------------- MODULE JoinFlow -------------------------------
(***************************************************************************)
(* One user's way into one portfolio: the join screen of the app, its      *)
(* purchases through the App Store, the detour through the broker's web    *)
(* page, and the join requests, composed with the server of Membership.    *)
(*                                                                         *)
(* JavaScript runs one callback at a time, so an action of the app is what *)
(* happens between two awaits.  The callbacks of a screen that has been    *)
(* left still run, but the state they set is no longer shown.              *)
(***************************************************************************)
EXTENDS Integers, FiniteSets

CONSTANTS
  Me,          \* the user
  Here,        \* the portfolio, active and with holdings
  Tx,          \* App Store transactions; a purchase is a new one
  Attempt,     \* join requests, each sent once; they are the server's sessions
  Restore      \* the flow of "Restore Purchases"

ASSUME AttemptAssumption == IsFiniteSet(Attempt) /\ Attempt # {}
ASSUME FlowAssumption == Restore \notin Tx

VARIABLES
  status, open, holdings, toggled, entitled, linked, trades, txn,
                \* the server, as in Membership
  recorded,     \* transactions that have a subscriptions row
  store,        \* what the App Store knows of a transaction
  flow,         \* purchases and restores in progress in the app
  screen,       \* the join screen, or that it is not shown
  known,        \* the cached answer of subscription-status
  call,         \* what has become of each join request
  browser,      \* the broker's web page is open
  pendingJoin,  \* the module variable of joinContext is set
  overlapped    \* how many Confirms were pressed while an earlier request of
                \* the user had not ended (history)

server == <<status, open, holdings, toggled, entitled, linked, trades, txn>>
purchases == <<recorded, store, flow>>
oauth == <<browser, pendingJoin>>
vars == <<server, purchases, screen, known, call, oauth, overlapped>>

Server == INSTANCE Membership WITH
  User <- {Me}, Portfolio <- {Here}, Session <- Attempt,
  MaxVersion <- 1, MaxTrades <- Cardinality(Attempt)

(* A flow has transactions to verify and at most one that the server has   *)
(* recorded and the store does not know to be finished.                    *)
Flow == Tx \cup {Restore}
Quiet == [todo |-> {}, held |-> {}, on |-> FALSE]

Step == {"subscription", "brokerage", "invest", "loading", "success", "failure"}

(* autoStepped and selected are the screen's; busy is the flow its         *)
(* "purchasing" flag waits for, awaited the mutations it has pending.      *)
Fresh == [step |-> "subscription", autoStepped |-> FALSE, selected |-> FALSE,
          busy |-> {}, timer |-> FALSE, awaited |-> {}]
Away == [Fresh EXCEPT !.step = "away"]

TypeOK ==
  /\ Server!TypeOK
  /\ recorded \subseteq Tx
  /\ store \in [Tx -> {"none", "charged", "finished"}]
  /\ flow \in [Flow -> [todo : SUBSET Tx, held : SUBSET Tx, on : BOOLEAN]]
  /\ screen \in [step : Step \cup {"away"}, autoStepped : BOOLEAN,
                 selected : BOOLEAN, busy : SUBSET Flow, timer : BOOLEAN,
                 awaited : SUBSET Attempt]
  /\ known \in {"nothing", "none", "active"}
  /\ call \in [Attempt -> {"idle", "sent", "joined", "refused"}]
  /\ browser \in BOOLEAN /\ pendingJoin \in BOOLEAN
  /\ overlapped \in Nat

Init ==
  /\ status = [p \in {Here} |-> "active"]
  /\ open = [up \in {Me} \X {Here} |-> 0]
  /\ holdings = [p \in {Here} |-> 1]
  /\ toggled = [p \in {Here} |-> "none"]
  /\ entitled = {} /\ linked = {}
  /\ trades = [b \in {Me} \X {Here} \X (0 .. 1) |-> 0]
  /\ txn = [a \in Attempt |-> [op |-> "idle"]]
  /\ recorded = {}
  /\ store = [t \in Tx |-> "none"]
  /\ flow = [f \in Flow |-> Quiet]
  /\ screen = Away
  /\ known = "nothing"
  /\ call = [a \in Attempt |-> "idle"]
  /\ browser = FALSE /\ pendingJoin = FALSE
  /\ overlapped = 0

-----------------------------------------------------------------------------
(* The screen                                                              *)

Shown == screen.step # "away"

Show(step) == [screen EXCEPT !.step = step]

(* The effect on the cached subscription: the first time it is active the  *)
(* brokerage step is shown, whatever step is.                              *)
AutoStep(sc, cached) ==
  IF sc.step # "away" /\ cached = "active" /\ ~ sc.autoStepped
  THEN [sc EXCEPT !.step = "brokerage", !.autoStepped = TRUE]
  ELSE sc

(* "Clone Holdings", which the portfolio's screen offers as long as the    *)
(* cached list of the user's portfolios, possibly out of date, lacks it.   *)
OpenScreen ==
  /\ ~ Shown
  /\ screen' = AutoStep(Fresh, known)
  /\ UNCHANGED <<server, purchases, known, call, oauth, overlapped>>

(* Back, a swipe, or Continue after success.                               *)
LeaveScreen ==
  /\ Shown
  /\ screen' = Away
  /\ UNCHANGED <<server, purchases, known, call, oauth, overlapped>>

(* A fetch of the subscription status, on mount, on focus or because it    *)
(* was invalidated, at the moment its answer is cached; that what it says  *)
(* may by then be out of date is a Refetch followed by Elsewhere.          *)
Refetch ==
  /\ known' = IF Me \in entitled THEN "active" ELSE "none"
  /\ screen' = AutoStep(screen, known')
  /\ UNCHANGED <<server, purchases, call, oauth, overlapped>>

(* The first connection listed is selected and nothing unselects it, a     *)
(* disconnection (Elsewhere) included.                                     *)
SelectConnection ==
  /\ screen.step = "brokerage"
  /\ Me \in linked
  /\ ~ screen.selected
  /\ screen' = [screen EXCEPT !.selected = TRUE]
  /\ UNCHANGED <<server, purchases, known, call, oauth, overlapped>>

(* Continue, Back from the amount, Try Again.                              *)
Move ==
  /\ \/ screen.step = "brokerage" /\ screen.selected /\ screen' = Show("invest")
     \/ screen.step \in {"invest", "failure"} /\ screen' = Show("brokerage")
  /\ UNCHANGED <<server, purchases, known, call, oauth, overlapped>>

-----------------------------------------------------------------------------
(* Purchases                                                               *)

Begin(f, todo) ==
  /\ flow' = [flow EXCEPT ![f] = [todo |-> todo, held |-> {}, on |-> TRUE]]
  /\ screen' = [screen EXCEPT !.busy = {f}]
  /\ UNCHANGED <<server, recorded, store, known, call, oauth, overlapped>>

Purchase(t) ==
  /\ screen.step = "subscription" /\ screen.busy = {}
  /\ store[t] = "none" /\ flow[t] = Quiet
  /\ Begin(t, {t})

(* The purchases the store's history shows unacknowledged; a restore that  *)
(* was left behind ends before the next one begins.                        *)
BeginRestore ==
  /\ screen.step = "subscription" /\ screen.busy = {}
  /\ flow[Restore] = Quiet
  /\ Begin(Restore, {t \in Tx : store[t] = "charged"})

Charge(t) ==
  /\ flow[t].on /\ store[t] = "none"
  /\ store' = [store EXCEPT ![t] = "charged"]
  /\ UNCHANGED <<server, recorded, flow, screen, known, call, oauth, overlapped>>

(* verify-apple commits on the server.                                     *)
Record(f, t) ==
  /\ flow[f].on /\ flow[f].held = {}
  /\ t \in flow[f].todo /\ store[t] # "none"
  /\ recorded' = recorded \cup {t}
  /\ entitled' = entitled \cup {Me}
  /\ flow' = [flow EXCEPT ![f].held = {t}]
  /\ UNCHANGED <<status, open, holdings, toggled, linked, trades, txn, store,
                 screen, known, call, oauth, overlapped>>

(* Mutant: finishTransactionAsync without awaiting the verification.       *)
AcknowledgeUnverified(f, t) ==
  /\ flow[f].on /\ t \in flow[f].todo /\ store[t] # "none"
  /\ store' = [store EXCEPT ![t] = "finished"]
  /\ flow' = [flow EXCEPT ![f].held = {}, ![f].todo = @ \ {t}]
  /\ UNCHANGED <<server, recorded, screen, known, call, oauth, overlapped>>

(* Its answer is here: finishTransactionAsync.                             *)
Acknowledge(f, t) ==
  /\ flow[f].on /\ t \in flow[f].held
  /\ store' = [store EXCEPT ![t] = "finished"]
  /\ flow' = [flow EXCEPT ![f].held = {}, ![f].todo = @ \ {t}]
  /\ UNCHANGED <<server, recorded, screen, known, call, oauth, overlapped>>

(* handlePurchase shows the brokerage step; handleRestore, which does not  *)
(* look whether there was anything to restore, does so after 800 ms.       *)
Completed(f) ==
  IF f = Restore
  THEN [screen EXCEPT !.busy = {}, !.timer = TRUE]
  ELSE [screen EXCEPT !.busy = {}, !.step = "brokerage"]

Complete(f) ==
  /\ flow[f].on /\ flow[f].todo = {}
  /\ flow' = [flow EXCEPT ![f] = Quiet]
  /\ screen' = IF f \in screen.busy THEN Completed(f) ELSE screen
  /\ UNCHANGED <<server, recorded, store, known, call, oauth, overlapped>>

(* The user cancels, a request fails or its answer is lost.                *)
Fail(f) ==
  /\ flow[f].on
  /\ flow' = [flow EXCEPT ![f] = Quiet]
  /\ screen' = [screen EXCEPT !.busy = @ \ {f}]
  /\ UNCHANGED <<server, recorded, store, known, call, oauth, overlapped>>

TimerFires ==
  /\ screen.timer
  /\ screen' = [screen EXCEPT !.timer = FALSE, !.step = "brokerage"]
  /\ UNCHANGED <<server, purchases, known, call, oauth, overlapped>>

-----------------------------------------------------------------------------
(* The join                                                                *)

Unsettled == {a \in Attempt : call[a] = "sent"}
Unused == {a \in Attempt : call[a] = "idle"}

(* Mutant: the effect runs twice for one press.                            *)
SubmitTwice(a) == [b \in Attempt |-> IF b \in Unused THEN "sent" ELSE call[b]]

Submit(a) == [call EXCEPT ![a] = "sent"]

(* "Confirm Trades" shows the loading step, whose effect sends the join.   *)
Confirm(a) ==
  /\ screen.step = "invest"
  /\ a \in Unused
  /\ call' = Submit(a)
  /\ screen' = [screen EXCEPT !.step = "loading", !.awaited = @ \cup {a}]
  /\ overlapped' = overlapped + (IF Unsettled # {} THEN 1 ELSE 0)
  /\ UNCHANGED <<server, purchases, known, oauth>>

Receive(a) ==
  /\ call[a] = "sent"
  /\ Server!BeginJoin(a, Me, Here, TRUE)
  /\ UNCHANGED <<purchases, screen, known, call, oauth, overlapped>>

Serve(a) ==
  /\ call[a] = "sent"
  /\ Server!Join(a)
  /\ call' = [call EXCEPT ![a] = "joined"]
  /\ UNCHANGED <<purchases, screen, known, oauth, overlapped>>

(* The server refuses, or the request never reaches it.                    *)
Refuse(a) ==
  /\ call[a] = "sent"
  /\ Server!RollBack(a) \/ (txn[a].op = "idle" /\ UNCHANGED server)
  /\ call' = [call EXCEPT ![a] = "refused"]
  /\ UNCHANGED <<purchases, screen, known, oauth, overlapped>>

(* Mutant: any answer counts.                                              *)
OutcomeOptimistic(a) == IF call[a] = "sent" THEN "failure" ELSE "success"

(* onSuccess needs a 2xx; onError is every other end, a timeout included.  *)
Outcome(a) == IF call[a] = "joined" THEN "success" ELSE "failure"

Settle(a) ==
  /\ a \in screen.awaited
  /\ \/ screen' = [screen EXCEPT !.step = Outcome(a), !.awaited = @ \ {a}]
     \/ screen' = [screen EXCEPT !.step = "failure", !.awaited = @ \ {a}]
  /\ UNCHANGED <<server, purchases, known, call, oauth, overlapped>>

-----------------------------------------------------------------------------
(* The broker's page, restarts, and what others commit                     *)

Connect ==
  /\ screen.step = "brokerage"
  /\ pendingJoin' = TRUE
  /\ browser' = TRUE
  /\ UNCHANGED <<server, purchases, screen, known, call, overlapped>>

(* settings/brokerages.tsx opens the page without setPendingJoin.          *)
ConnectFromSettings ==
  /\ ~ Shown
  /\ browser' = TRUE
  /\ UNCHANGED <<server, purchases, screen, known, call, pendingJoin, overlapped>>

AbandonBrowser ==
  /\ browser
  /\ browser' = FALSE
  /\ UNCHANGED <<server, purchases, screen, known, call, pendingJoin, overlapped>>

(* The deep link opens oauth/callback.tsx, which links the connection or   *)
(* fails and then goes to the pending join, a new screen, or to Settings.  *)
(* The screen it was opened from stays below it and is not shown again.    *)
OAuthCallback ==
  /\ browser
  /\ browser' = FALSE
  /\ pendingJoin' = FALSE
  /\ linked' \in {linked, linked \cup {Me}}
  /\ screen' = IF pendingJoin THEN AutoStep(Fresh, known) ELSE Away
  /\ UNCHANGED <<status, open, holdings, toggled, entitled, trades, txn,
                 purchases, known, call, overlapped>>

(* The app is killed: what is left is with the store and on the server.    *)
Restart ==
  /\ screen' = Away
  /\ known' = "nothing"
  /\ flow' = [f \in Flow |-> Quiet]
  /\ pendingJoin' = FALSE
  /\ UNCHANGED <<server, recorded, store, call, browser, overlapped>>

(* A cancellation, an exemption, another device.                           *)
Elsewhere ==
  /\ Server!ChangeEntitlement(Me) \/ Server!ChangeConnection(Me)
  /\ UNCHANGED <<purchases, screen, known, call, oauth, overlapped>>

Press == OpenScreen \/ LeaveScreen \/ SelectConnection \/ Move \/ BeginRestore
         \/ Connect \/ ConnectFromSettings \/ AbandonBrowser

Next ==
  \/ Press \/ Refetch \/ TimerFires \/ OAuthCallback \/ Restart \/ Elsewhere
  \/ \E t \in Tx : Purchase(t) \/ Charge(t)
  \/ \E f \in Flow : Complete(f) \/ Fail(f)
  \/ \E f \in Flow, t \in Tx : Record(f, t) \/ Acknowledge(f, t)
  \/ \E a \in Attempt :
       Confirm(a) \/ Receive(a) \/ Serve(a) \/ Refuse(a) \/ Settle(a)

Spec == Init /\ [][Next]_vars

-----------------------------------------------------------------------------
(* Properties                                                              *)

(* Money is never lost: a transaction the app told the store to be done    *)
(* with is on the server, through failures, restarts and restores; until   *)
(* then the store still offers it.                                         *)
FinishedIsRecorded == \A t \in Tx : store[t] = "finished" => t \in recorded

(* "Your trades have been queued": the screen says so only to a member for *)
(* whom buys are queued, whatever screens, answers and retries came before.*)
SuccessIsTrue ==
  screen.step = "success" =>
    /\ open[Me, Here] >= 1
    /\ trades[Me, Here, 1] >= 1

(* Trying again after a failure, a lost answer or a restart does not join  *)
(* a second time; only a Confirm while an earlier request runs can.        *)
RetryIsSafe == open[Me, Here] <= 1 + overlapped

=============================================================================
