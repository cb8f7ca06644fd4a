------------------------------- MODULE Dashboard -------------------------------
(***************************************************************************)
(* The dashboard of one member of a portfolio with the sheet that decides  *)
(* its pending rebalances, the portfolio's own screen where the member     *)
(* leaves it, and the server's side of both.  An event is decided once for *)
(* all members: the other members decide it too.                           *)
(*                                                                         *)
(* confirm and reject read in one snapshot and write at their commit,      *)
(* whatever the status is by then; leaving and joining, Membership's       *)
(* matter, are one step here.  Nothing in the code inserts an event yet.   *)
(***************************************************************************)
EXTENDS Naturals

CONSTANTS
  Event,                 \* the rebalance events of the portfolio
  MaxTimers              \* bound on the calls of router.back to come

ASSUME TimersAssumption == MaxTimers \in Nat \ {0}

VARIABLES
  status,                \* of each event
  member,                \* this user has an open membership
  decision,              \* confirmMutation and rejectMutation
  other,                 \* another member's decision in progress
  listed, fetch,         \* the data of pending-rebalances, and its fetch
  active,                \* activeRebalance
  loading,               \* of the sheet; it outlives its being open
  depth,                 \* screens: the dashboard, the portfolio, the join flow
  following,             \* isFollowing, from the data of my-portfolios
  leave, timers,         \* leaveMutation, and the calls of router.back to come
  told,                  \* history: the successes this user was told
  settled,               \* history: decided while no other decision was begun
  strayed                \* history: moved on or joined again since the leave

server == <<status, member, other, settled>>
client == <<decision, active, loading, told>>
list == <<listed, fetch>>
screens == <<depth, following, leave, timers, strayed>>
vars == <<server, client, list, screens>>

-----------------------------------------------------------------------------
(* State                                                                   *)

Op == {"confirm", "reject"}
Status == {"absent", "pending_confirmation", "confirmed", "rejected", "expired", "deleted"}

None == "none"
Request == [event : Event, stage : {"sent", "begun", "committed"}]
NoRequest == [event |-> None, stage |-> "sent"]
Other == [event : Event, op : Op]
NoOther == [event |-> None, op |-> None]

(* A fetch is on its way, or has read its answer.                          *)
NoFetch == [stage |-> "none", got |-> {}]
Asked == [stage |-> "asked", got |-> {}]
Answered(s) == [stage |-> "answered", got |-> s]

TypeOK ==
  /\ status \in [Event -> Status]
  /\ member \in BOOLEAN /\ loading \in BOOLEAN
  /\ decision \in [Op -> Request \cup {NoRequest}]
  /\ other \in Other \cup {NoOther}
  /\ listed \subseteq Event
  /\ fetch \in {NoFetch, Asked} \cup {Answered(s) : s \in SUBSET Event}
  /\ active \in Event \cup {None}
  /\ depth \in 1 .. 3 /\ following \in BOOLEAN
  /\ leave \in {None, "sent", "done"} /\ timers \in 0 .. MaxTimers
  /\ told \in [Event -> SUBSET Op]
  /\ settled \subseteq Event
  /\ strayed \in BOOLEAN

Init ==
  /\ status = [e \in Event |-> "absent"]
  /\ member = TRUE
  /\ decision = [op \in Op |-> NoRequest]
  /\ other = NoOther
  /\ listed = {} /\ fetch = Asked
  /\ active = None
  /\ loading = FALSE
  /\ depth = 1 /\ following = TRUE
  /\ leave = None /\ timers = 0
  /\ told = [e \in Event |-> {}]
  /\ settled = {}
  /\ strayed = FALSE

-----------------------------------------------------------------------------
(* Server                                                                  *)

Pending(e) == status[e] = "pending_confirmation"

(* trigger_rebalance, and the job that expires what was not decided.       *)
Trigger ==
  /\ \E e \in Event : status[e] = "absent"
                      /\ status' = [status EXCEPT ![e] = "pending_confirmation"]
  /\ UNCHANGED <<member, other, settled, client, list, screens>>

Expire ==
  /\ \E e \in Event : Pending(e) /\ status' = [status EXCEPT ![e] = "expired"]
  /\ UNCHANGED <<member, other, settled, client, list, screens>>

(* Mutant: whatever became of the event.                                   *)
MayDecideAgain(e) == status[e] \notin {"absent", "deleted"}

(* The checks of confirm and reject on the event.                          *)
MayDecide(e) == Pending(e)

StatusOf(op) == IF op = "confirm" THEN "confirmed" ELSE "rejected"

(* The UPDATE finds no row of a portfolio that is gone.                    *)
SetStatus(e, op, others) ==
  /\ status' = [status EXCEPT ![e] = IF @ = "deleted" THEN @ ELSE StatusOf(op)]
  /\ settled' = IF others THEN settled ELSE settled \cup {e}

Underway(op) == decision[op].stage = "begun"
Competes(e, op) == Underway(op) /\ decision[op].event = e

Begin(op) ==
  /\ decision[op] # NoRequest /\ decision[op].stage = "sent"
  /\ MayDecide(decision[op].event) /\ member
  /\ decision' = [decision EXCEPT ![op].stage = "begun"]
  /\ UNCHANGED <<server, active, loading, told, list, screens>>

Commit(op) ==
  LET e == decision[op].event IN
  /\ Underway(op)
  /\ SetStatus(e, op, other.event = e \/ \E o \in Op \ {op} : Competes(e, o))
  /\ decision' = [decision EXCEPT ![op].stage = "committed"]
  /\ UNCHANGED <<member, other, active, loading, told, list, screens>>

(* Another member's decision, or one this screen gave up.                  *)
BeginOther ==
  /\ other = NoOther
  /\ \E e \in Event, op \in Op : MayDecide(e) /\ other' = [event |-> e, op |-> op]
  /\ UNCHANGED <<status, member, settled, client, list, screens>>

CommitOther ==
  /\ other # NoOther
  /\ other' = NoOther
  /\ SetStatus(other.event, other.op, \E o \in Op : Competes(other.event, o))
  /\ UNCHANGED <<member, client, list, screens>>

(* delete_portfolio; the events go with the portfolio.                     *)
DeletePortfolio ==
  /\ status' = [e \in Event |-> "deleted"]
  /\ member' = FALSE
  /\ UNCHANGED <<other, settled, client, list, screens>>

(* The user joins or leaves by another device.                             *)
ServeOther ==
  /\ \A e \in Event : status[e] # "deleted"
  /\ member' = ~ member
  /\ strayed' = (strayed \/ (member' /\ (leave # None \/ timers > 0)))
  /\ UNCHANGED <<status, other, settled, client, list, depth, following, leave, timers>>

-----------------------------------------------------------------------------
(* The list of pending rebalances                                          *)

(* Mutant: an earlier fetch is left to end.                                *)
ReloadUnlessFetching == fetch' = IF fetch = NoFetch THEN Asked ELSE fetch

Reload == fetch' = Asked

PullToRefresh ==
  /\ depth = 1 /\ active = None
  /\ Reload
  /\ UNCHANGED <<server, client, listed, screens>>

(* find_pending_for_user: of the pending ones those whose time is not up.  *)
FindPending ==
  /\ fetch = Asked
  /\ \E s \in SUBSET {e \in Event : Pending(e) /\ member} : fetch' = Answered(s)
  /\ UNCHANGED <<server, client, listed, screens>>

Receive ==
  /\ fetch.stage = "answered"
  /\ listed' = fetch.got
  /\ fetch' = NoFetch
  /\ UNCHANGED <<server, client, screens>>

-----------------------------------------------------------------------------
(* The sheet                                                               *)

Review ==
  /\ depth = 1 /\ active = None
  /\ \E e \in listed : active' = e
  /\ UNCHANGED <<server, decision, loading, told, list, screens>>

(* onRequestClose, with a request in flight or not.                        *)
Dismiss ==
  /\ active # None
  /\ active' = None
  /\ UNCHANGED <<server, decision, loading, told, list, screens>>

(* Mutant: the buttons stay enabled.                                       *)
StartEnabled == loading' = FALSE

Start == loading' = TRUE

Decide(op) ==
  /\ active # None /\ ~ loading /\ decision[op] = NoRequest
  /\ decision' = [decision EXCEPT ![op] = [event |-> active, stage |-> "sent"]]
  /\ Start
  /\ UNCHANGED <<server, active, told, list, screens>>

(* setActiveRebalance(null) closes whatever sheet is open by now.          *)
Succeed(op) ==
  /\ decision[op].stage = "committed"
  /\ told' = [told EXCEPT ![decision[op].event] = @ \cup {op}]
  /\ decision' = [decision EXCEPT ![op] = NoRequest]
  /\ active' = None
  /\ loading' = FALSE
  /\ Reload
  /\ UNCHANGED <<server, listed, screens>>

(* Refused or timed out; what is still on its way may be committed.        *)
Fail(op) ==
  /\ decision[op] # NoRequest
  /\ \/ UNCHANGED other
     \/ Underway(op) /\ other = NoOther /\ other' = [event |-> decision[op].event, op |-> op]
  /\ decision' = [decision EXCEPT ![op] = NoRequest]
  /\ loading' = FALSE
  /\ UNCHANGED <<status, member, settled, active, told, list, screens>>

-----------------------------------------------------------------------------
(* The portfolio's screen                                                  *)

Stray == strayed' = (leave # None \/ timers > 0)

OpenPortfolio ==
  /\ depth = 1 /\ active = None
  /\ depth' = 2
  /\ Stray
  /\ UNCHANGED <<server, client, list, following, leave, timers>>

(* Clone Holdings.                                                         *)
OpenJoin ==
  /\ depth = 2 /\ ~ following
  /\ depth' = 3
  /\ Stray
  /\ UNCHANGED <<server, client, list, following, leave, timers>>

Back ==
  /\ depth > 1
  /\ depth' = depth - 1
  /\ Stray
  /\ UNCHANGED <<server, client, list, following, leave, timers>>

(* my-portfolios is fetched again.                                         *)
Refetch ==
  /\ following' = member
  /\ UNCHANGED <<server, client, list, depth, leave, timers, strayed>>

LeavePortfolio ==
  /\ depth = 2 /\ following /\ leave = None /\ timers < MaxTimers
  /\ leave' = "sent"
  /\ strayed' = (strayed /\ timers > 0)
  /\ UNCHANGED <<server, client, list, depth, following, timers>>

(* Mutant: who is no member has left.                                      *)
MayLeaveAgain == TRUE

MayLeave == member

ServeLeave ==
  /\ leave = "sent"
  /\ MayLeave
  /\ member' = FALSE
  /\ leave' = "done"
  /\ UNCHANGED <<status, other, settled, client, list, depth, following, timers, strayed>>

(* setTimeout(() => router.back(), 1200), even if the screen is closed.    *)
LeaveDone ==
  /\ leave = "done"
  /\ leave' = None
  /\ timers' = timers + 1
  /\ UNCHANGED <<server, client, list, depth, following, strayed>>

LeaveFailed ==
  /\ leave # None
  /\ leave' = None
  /\ strayed' = (strayed /\ timers > 0)
  /\ UNCHANGED <<server, client, list, depth, following, timers>>

(* The dashboard, below all, stays.                                        *)
TimerFires ==
  /\ timers > 0
  /\ timers' = timers - 1
  /\ depth' = IF depth = 1 THEN 1 ELSE depth - 1
  /\ strayed' = (strayed /\ (timers' > 0 \/ leave # None))
  /\ UNCHANGED <<server, client, list, following, leave>>

Next ==
  \/ Trigger \/ Expire \/ BeginOther \/ CommitOther \/ DeletePortfolio \/ ServeOther
  \/ PullToRefresh \/ FindPending \/ Receive \/ Review \/ Dismiss
  \/ \E op \in Op : Begin(op) \/ Commit(op) \/ Decide(op) \/ Succeed(op) \/ Fail(op)
  \/ OpenPortfolio \/ OpenJoin \/ Back \/ Refetch
  \/ LeavePortfolio \/ ServeLeave \/ LeaveDone \/ LeaveFailed \/ TimerFires

Spec == Init /\ [][Next]_vars

-----------------------------------------------------------------------------
(* Properties                                                              *)

(* Once an event is decided and no decision that began before is still in  *)
(* progress, nobody, of whatever old list, decides it otherwise.           *)
DecisionStands ==
  [][\A e \in settled : status'[e] \in {status[e], "deleted"}]_vars

(* A member is told of at most one decision of an event: of the two        *)
(* buttons, and of sheets opened again while a request is in flight.       *)
ToldOnce == \A e \in Event : told[e] # Op

(* A list at rest no longer shows what this user has decided.              *)
OwnChangesShown == fetch = NoFetch => \A e \in listed : told[e] = {}

(* The call of router.back that follows a leave closes the screen of the   *)
(* portfolio, unless the user has moved on or joined again meanwhile.      *)
TimerPopsItsScreen == [][TimerFires => depth = 2 \/ strayed]_vars

=============================================================================
