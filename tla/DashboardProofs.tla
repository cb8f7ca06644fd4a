---------------------------- MODULE DashboardProofs ----------------------------
(* Theorems about Dashboard, for every set of events.                      *)
EXTENDS Dashboard, TLAPS

-----------------------------------------------------------------------------
(* Types                                                                   *)

ServerType ==
  /\ status \in [Event -> Status]
  /\ other \in Other \cup {NoOther}
  /\ settled \subseteq Event
  /\ member \in BOOLEAN

ClientType ==
  /\ decision \in [Op -> Request \cup {NoRequest}]
  /\ active \in Event \cup {None}
  /\ loading \in BOOLEAN
  /\ told \in [Event -> SUBSET Op]

ListType ==
  /\ listed \subseteq Event
  /\ fetch \in [stage : {"none", "asked", "answered"}, got : SUBSET Event]

-----------------------------------------------------------------------------
(* The user is told of one decision of an event at most.                   *)

(* A decided event is never pending again.                                 *)
Decided(e) == status[e] \notin {"absent", "pending_confirmation"}

(* Inductive: the sheet's loading lets one request of this user run at a   *)
(* time; one that has passed the checks of the server is about an event    *)
(* the user was told nothing of, as it was pending; and what is committed, *)
(* or told, is no longer pending.                                          *)
DecisionInv ==
  /\ \A op \in Op : decision[op] # NoRequest =>
       /\ loading
       /\ \A o \in Op : o # op => decision[o] = NoRequest
  /\ \A op \in Op : decision[op].stage = "committed" => Decided(decision[op].event)
  /\ \A op \in Op : decision[op].stage \in {"begun", "committed"} =>
       told[decision[op].event] = {}
  /\ \A e \in Event : told[e] # {} => Decided(e)
  /\ ToldOnce

IInv == ServerType /\ ClientType /\ ListType /\ DecisionInv

LEMMA InitIInv == Init => IInv
<1> SUFFICES ASSUME Init PROVE IInv
  OBVIOUS
<1>1. ServerType /\ ClientType /\ ListType
  BY DEF Init, ServerType, ClientType, ListType, Status, Asked
<1>2. \A op \in Op : decision[op] = NoRequest
  BY DEF Init
<1>3. \A e \in Event : told[e] = {}
  BY DEF Init
<1>4. {} # Op
  BY DEF Op
<1>5. DecisionInv
  BY <1>2, <1>3, <1>4 DEF DecisionInv, ToldOnce, NoRequest
<1> QED BY <1>1, <1>5 DEF IInv

(* A step that only lets events be decided, or new ones appear, keeps it.  *)
LEMMA DecidedStays ==
  ASSUME IInv, UNCHANGED client, ServerType', ListType',
         \A e \in Event : Decided(e) => Decided(e)'
  PROVE  IInv'
<1>1. ClientType'
  BY DEF IInv, ClientType, client
<1>2. \A op \in Op : decision[op].stage = "committed" => decision[op].event \in Event
  BY DEF IInv, ClientType, Request, NoRequest
<1>3. DecisionInv'
  BY <1>2 DEF IInv, DecisionInv, client, ToldOnce
<1> QED BY <1>1, <1>3 DEF IInv

LEMMA SetStatusDecides ==
  ASSUME IInv, NEW e \in Event, NEW op \in Op, NEW others \in BOOLEAN, SetStatus(e, op, others),
         UNCHANGED member
  PROVE  /\ status' \in [Event -> Status] /\ settled' \subseteq Event
         /\ \A x \in Event : Decided(x) => Decided(x)'
         /\ Decided(e)'
  BY DEF IInv, ServerType, SetStatus, StatusOf, Status, Op, Decided

LEMMA ServerSteps ==
  ASSUME IInv,
         Trigger \/ Expire \/ BeginOther \/ CommitOther \/ DeletePortfolio \/ ServeOther
  PROVE  IInv'
<1>1. CASE Trigger
  BY <1>1, DecidedStays DEF Trigger, IInv, ServerType, ListType, list, Status, Decided
<1>2. CASE Expire
  BY <1>2, DecidedStays DEF Expire, IInv, ServerType, ListType, list, Status, Decided, Pending
<1>3. CASE BeginOther
  BY <1>3, DecidedStays
  DEF BeginOther, IInv, ServerType, ListType, list, Status, Decided, Other
<1>4. CASE CommitOther
  <2>1. other.event \in Event /\ other.op \in Op
    BY <1>4 DEF CommitOther, IInv, ServerType, Other
  <2>2. PICK b \in BOOLEAN : SetStatus(other.event, other.op, b)
    BY <1>4 DEF CommitOther
  <2>3. UNCHANGED <<member, client, list>> /\ other' = NoOther
    BY <1>4 DEF CommitOther
  <2> QED BY <2>1, <2>2, <2>3, SetStatusDecides, DecidedStays DEF IInv, ServerType, ListType, list
<1>5. CASE DeletePortfolio
  BY <1>5, DecidedStays DEF DeletePortfolio, IInv, ServerType, ListType, list, Status, Decided
<1>6. CASE ServeOther
  BY <1>6, DecidedStays DEF ServeOther, IInv, ServerType, ListType, list, Decided
<1> QED BY <1>1, <1>2, <1>3, <1>4, <1>5, <1>6

(* A request that passes the checks, or commits, moves on alone.           *)
LEMMA OneRequest ==
  ASSUME IInv, NEW op \in Op, NEW e \in Event,
         decision[op] # NoRequest, told[e] = {},
         decision'[op].event = e,
         \A o \in Op : o # op => decision'[o] = decision[o],
         decision'[op].stage = "committed" => Decided(e)',
         \A x \in Event : Decided(x) => Decided(x)',
         UNCHANGED <<loading, told>>
  PROVE  DecisionInv'
<1>1. loading /\ \A o \in Op : o # op => decision'[o] = NoRequest
  BY DEF IInv, DecisionInv
<1>2. \A o \in Op : o # op => decision'[o].stage = "sent"
  BY <1>1 DEF NoRequest
<1>3. \A o \in Op : decision'[o] # NoRequest =>
        /\ loading'
        /\ \A p \in Op : p # o => decision'[p] = NoRequest
  BY <1>1
<1>4. ASSUME NEW o \in Op, decision'[o].stage = "committed"
      PROVE  Decided(decision[o].event)'
  <2>1. o = op
    BY <1>2, <1>4
  <2>2. decision'[o].event = e /\ Decided(e)'
    BY <2>1, <1>4 DEF Decided
  <2> QED BY <2>2 DEF Decided
<1>5. \A o \in Op : decision'[o].stage \in {"begun", "committed"} =>
        told'[decision'[o].event] = {}
  BY <1>2
<1>6. \A x \in Event : told'[x] # {} => Decided(x)'
  BY DEF IInv, DecisionInv
<1>7. ToldOnce'
  BY DEF IInv, DecisionInv, ToldOnce
<1> QED BY <1>3, <1>4, <1>5, <1>6, <1>7 DEF DecisionInv, Decided

LEMMA RequestSteps ==
  ASSUME IInv, NEW op \in Op, Begin(op) \/ Commit(op)
  PROVE  IInv'
<1> DEFINE e == decision[op].event
<1>0. /\ decision \in [Op -> Request \cup {NoRequest}]
      /\ decision[op] \in Request /\ decision[op] # NoRequest
  BY DEF IInv, ClientType, Begin, Commit, Underway, NoRequest
<1>1. e \in Event
  BY <1>0 DEF Request
<1>2. CASE Begin(op)
  <2>1. /\ decision' = [decision EXCEPT ![op].stage = "begun"]
        /\ UNCHANGED <<server, active, loading, told, list>>
        /\ ~ Decided(e)
    BY <1>2 DEF Begin, MayDecide, Pending, Decided
  <2>2. told[e] = {}
    BY <1>1, <2>1 DEF IInv, DecisionInv
  <2>3. ServerType' /\ ClientType' /\ ListType'
    BY <1>0, <2>1 DEF IInv, ServerType, ClientType, ListType, server, list, Request
  <2>4. /\ decision'[op].event = e /\ decision'[op].stage = "begun"
        /\ \A o \in Op : o # op => decision'[o] = decision[o]
    BY <1>0, <2>1 DEF Request
  <2>5. \A x \in Event : Decided(x) => Decided(x)'
    BY <2>1 DEF Decided, server
  <2>6. DecisionInv'
    BY <1>0, <1>1, <2>1, <2>2, <2>4, <2>5, OneRequest
  <2> QED BY <2>3, <2>6 DEF IInv
<1>3. CASE Commit(op)
  <2>1. /\ decision' = [decision EXCEPT ![op].stage = "committed"]
        /\ UNCHANGED <<member, other, active, loading, told, list>>
        /\ decision[op].stage = "begun"
    BY <1>3 DEF Commit, Underway
  <2>2. PICK b \in BOOLEAN : SetStatus(e, op, b)
    BY <1>3 DEF Commit
  <2>3. /\ status' \in [Event -> Status] /\ settled' \subseteq Event
        /\ \A x \in Event : Decided(x) => Decided(x)'
        /\ Decided(e)'
    BY <1>1, <2>1, <2>2, SetStatusDecides
  <2>4. ServerType' /\ ClientType' /\ ListType'
    BY <1>0, <2>1, <2>3 DEF IInv, ServerType, ClientType, ListType, list, Request
  <2>5. /\ decision'[op].event = e
        /\ \A o \in Op : o # op => decision'[o] = decision[o]
    BY <1>0, <2>1 DEF Request
  <2>6. told[e] = {}
    BY <2>1 DEF IInv, DecisionInv
  <2>7. DecisionInv'
    BY <1>0, <1>1, <2>1, <2>3, <2>5, <2>6, OneRequest
  <2> QED BY <2>4, <2>7 DEF IInv
<1> QED BY <1>2, <1>3

LEMMA SheetSteps ==
  ASSUME IInv, NEW op \in Op, Decide(op) \/ Succeed(op) \/ Fail(op)
  PROVE  IInv'
<1>0. /\ decision \in [Op -> Request \cup {NoRequest}]
      /\ told \in [Event -> SUBSET Op]
  BY DEF IInv, ClientType
<1>1. CASE Decide(op)
  <2>1. /\ decision' = [decision EXCEPT ![op] = [event |-> active, stage |-> "sent"]]
        /\ loading' /\ ~ loading
        /\ active \in Event
        /\ UNCHANGED <<server, active, told, list>>
    BY <1>1 DEF Decide, Start, IInv, ClientType
  <2>2. ServerType' /\ ClientType' /\ ListType'
    BY <1>0, <1>1, <2>1
    DEF Decide, Start, IInv, ServerType, ClientType, ListType, server, list, Request
  <2>3. \A o \in Op : decision[o] = NoRequest
    BY <2>1 DEF IInv, DecisionInv
  <2>4. DecisionInv'
    BY <1>0, <2>1, <2>3 DEF IInv, DecisionInv, Decided, ToldOnce, server, NoRequest
  <2> QED BY <2>2, <2>4 DEF IInv
<1>2. CASE Succeed(op)
  <2> DEFINE e == decision[op].event
  <2>1. /\ told' = [told EXCEPT ![e] = @ \cup {op}]
        /\ decision' = [decision EXCEPT ![op] = NoRequest]
        /\ active' = None /\ loading' = FALSE /\ fetch' = Asked
        /\ UNCHANGED <<server, listed>>
        /\ decision[op].stage = "committed"
    BY <1>2 DEF Succeed, Reload
  <2>2. e \in Event /\ decision[op] # NoRequest
    BY <1>0, <2>1 DEF Request, NoRequest
  <2>3. told[e] = {} /\ Decided(e)
    BY <2>1 DEF IInv, DecisionInv
  <2>4. ServerType' /\ ClientType' /\ ListType'
    BY <1>0, <2>1, <2>2 DEF IInv, ServerType, ClientType, ListType, server, Asked
  <2>5. \A o \in Op : decision'[o] = NoRequest
    BY <1>0, <2>1, <2>2 DEF IInv, DecisionInv
  <2>6. {op} # Op
    BY DEF Op
  <2>7. /\ \A x \in Event : told'[x] # {} => Decided(x)'
        /\ ToldOnce'
    BY <1>0, <2>1, <2>2, <2>3, <2>6 DEF IInv, DecisionInv, Decided, ToldOnce, server
  <2>8. DecisionInv'
    BY <2>5, <2>7 DEF DecisionInv, NoRequest
  <2> QED BY <2>4, <2>8 DEF IInv
<1>3. CASE Fail(op)
  <2>1. /\ decision[op] # NoRequest
        /\ decision' = [decision EXCEPT ![op] = NoRequest]
        /\ loading' = FALSE
        /\ UNCHANGED <<status, member, settled, active, told, list>>
    BY <1>3 DEF Fail
  <2>2. other' \in Other \cup {NoOther}
    BY <1>0, <1>3 DEF Fail, IInv, ServerType, Other, Request
  <2>3. ServerType' /\ ClientType' /\ ListType'
    BY <1>0, <2>1, <2>2 DEF IInv, ServerType, ClientType, ListType, list
  <2>4. \A o \in Op : decision'[o] = NoRequest
    BY <1>0, <2>1 DEF IInv, DecisionInv
  <2>5. DecisionInv'
    BY <2>1, <2>4 DEF IInv, DecisionInv, Decided, ToldOnce, NoRequest
  <2> QED BY <2>3, <2>5 DEF IInv
<1> QED BY <1>1, <1>2, <1>3

LEMMA ListSteps ==
  ASSUME IInv, PullToRefresh \/ FindPending \/ Receive \/ Review \/ Dismiss
  PROVE  IInv'
<1>1. /\ UNCHANGED <<server, decision, loading, told>>
      /\ active' \in Event \cup {None} /\ ListType'
  BY DEF PullToRefresh, FindPending, Receive, Review, Dismiss, Reload, IInv, ClientType,
         ListType, client, list, Asked, Answered, NoFetch
<1> QED
  BY <1>1 DEF IInv, ServerType, ClientType, DecisionInv, Decided, ToldOnce, server

LEMMA StepIInv == IInv /\ [Next]_vars => IInv'
<1> SUFFICES ASSUME IInv, [Next]_vars PROVE IInv'
  OBVIOUS
<1>1. ASSUME UNCHANGED <<server, client, list>> PROVE IInv'
  BY <1>1 DEF IInv, ServerType, ClientType, ListType, DecisionInv, Decided, ToldOnce,
              server, client, list
<1>2. ASSUME OpenPortfolio \/ OpenJoin \/ Back \/ Refetch \/ LeavePortfolio
             \/ LeaveDone \/ LeaveFailed \/ TimerFires
      PROVE  IInv'
  BY <1>1, <1>2 DEF OpenPortfolio, OpenJoin, Back, Refetch, LeavePortfolio, LeaveDone,
                    LeaveFailed, TimerFires
<1>3. ASSUME ServeLeave PROVE IInv'
  BY <1>3, DecidedStays DEF ServeLeave, IInv, ServerType, ListType, Decided, list
<1>4. CASE UNCHANGED vars
  BY <1>1, <1>4 DEF vars
<1> QED
  BY <1>2, <1>3, <1>4, ServerSteps, RequestSteps, SheetSteps, ListSteps DEF Next

(* Of the two decisions of an event, a member is told of one at most: by   *)
(* whatever sheets, opened again while a request runs, and whatever the    *)
(* other members and the administrators do.                                *)
THEOREM ToldOneDecision == Spec => []ToldOnce
<1>1. IInv => ToldOnce
  BY DEF IInv, DecisionInv
<1> QED BY <1>1, InitIInv, StepIInv, PTL DEF Spec

-----------------------------------------------------------------------------
(* A list at rest does not show what the user has decided.                 *)

(* What a fetch has read was pending when it was read, and a success since *)
(* then has started another fetch.                                         *)
ListInv ==
  /\ fetch.stage = "answered" => \A e \in fetch.got : told[e] = {}
  /\ fetch.stage = "none" => \A e \in listed : told[e] = {}

LEMMA StepListInv == IInv /\ ListInv /\ [Next]_vars => ListInv'
<1> SUFFICES ASSUME IInv, ListInv, [Next]_vars PROVE ListInv'
  OBVIOUS
<1>1. ASSUME UNCHANGED <<told, list>> PROVE ListInv'
  BY <1>1 DEF ListInv, list
<1>2. ASSUME fetch' = Asked PROVE ListInv'
  BY <1>2 DEF ListInv, Asked
<1>3. CASE FindPending
  <2>1. PICK s \in SUBSET {e \in Event : Pending(e) /\ member} : fetch' = Answered(s)
    BY <1>3 DEF FindPending
  <2>2. \A e \in s : told[e] = {}
    BY <2>1 DEF IInv, DecisionInv, Decided, Pending
  <2>3. fetch'.stage = "answered" /\ fetch'.got = s /\ told' = told
    BY <1>3, <2>1 DEF FindPending, Answered, client
  <2> QED BY <2>2, <2>3 DEF ListInv
<1>4. CASE Receive
  <2>1. listed' = fetch.got /\ fetch'.stage = "none" /\ told' = told /\ fetch.stage = "answered"
    BY <1>4 DEF Receive, NoFetch, client
  <2> QED BY <2>1 DEF ListInv
<1>5. ASSUME PullToRefresh \/ \E op \in Op : Succeed(op) PROVE fetch' = Asked
  BY <1>5 DEF PullToRefresh, Succeed, Reload
<1>6. ASSUME Trigger \/ Expire \/ BeginOther \/ CommitOther \/ DeletePortfolio \/ ServeOther
      PROVE  UNCHANGED <<told, list>>
  BY <1>6 DEF Trigger, Expire, BeginOther, CommitOther, DeletePortfolio, ServeOther, client
<1>7. ASSUME Review \/ Dismiss \/ \E op \in Op : Begin(op) \/ Commit(op) \/ Decide(op) \/ Fail(op)
      PROVE  UNCHANGED <<told, list>>
  BY <1>7 DEF Review, Dismiss, Begin, Commit, Decide, Fail
<1>8. ASSUME OpenPortfolio \/ OpenJoin \/ Back \/ Refetch \/ LeavePortfolio \/ ServeLeave
             \/ LeaveDone \/ LeaveFailed \/ TimerFires \/ UNCHANGED vars
      PROVE  UNCHANGED <<told, list>>
  BY <1>8 DEF OpenPortfolio, OpenJoin, Back, Refetch, LeavePortfolio, ServeLeave, LeaveDone,
              LeaveFailed, TimerFires, vars, client
<1> QED BY <1>1, <1>2, <1>3, <1>4, <1>5, <1>6, <1>7, <1>8 DEF Next

(* The list that was asked for before a decision never brings it back.     *)
THEOREM DecidedIsGone == Spec => []OwnChangesShown
<1>1. Init => ListInv
  BY DEF Init, ListInv, Asked
<1>2. IInv /\ ListInv /\ [Next]_vars => (IInv /\ ListInv)'
  BY StepIInv, StepListInv
<1>3. ListInv => OwnChangesShown
  BY DEF ListInv, OwnChangesShown, NoFetch
<1> QED BY <1>1, <1>2, <1>3, InitIInv, PTL DEF Spec

-----------------------------------------------------------------------------
(* A decision stands.                                                      *)

(* A settled event is decided, and whoever could write its status has.     *)
SettledInv ==
  \A e \in settled : /\ Decided(e) /\ (other # NoOther => other.event # e)
                     /\ \A op \in Op : ~ Competes(e, op)

(* No step reopens a settled event or changes its decision.                *)
Stands == \A e \in settled : status'[e] \in {status[e], "deleted"}

LEMMA SetStatusStands ==
  ASSUME IInv, SettledInv, NEW e \in Event, NEW op \in Op, NEW others \in BOOLEAN,
         SetStatus(e, op, others), e \notin settled
  PROVE  Stands
<1>1. \A x \in Event : x # e => status'[x] = status[x]
  BY DEF SetStatus, IInv, ServerType
<1> QED BY <1>1 DEF Stands, IInv, ServerType

LEMMA StepSettled == IInv /\ SettledInv /\ [Next]_vars => SettledInv' /\ Stands
<1> SUFFICES ASSUME IInv, SettledInv, [Next]_vars PROVE SettledInv' /\ Stands
  OBVIOUS
<1>0. /\ settled \subseteq Event /\ status \in [Event -> Status]
      /\ decision \in [Op -> Request \cup {NoRequest}]
      /\ other \in Other \cup {NoOther}
  BY DEF IInv, ServerType, ClientType
<1>1. ASSUME UNCHANGED <<settled, other, decision>>,
             \A e \in settled : status'[e] \in {status[e], "deleted"}
      PROVE  SettledInv' /\ Stands
  BY <1>1 DEF SettledInv, Stands, Competes, Underway, Decided
<1>2. ASSUME Trigger \/ Expire PROVE SettledInv' /\ Stands
  <2>1. PICK e \in Event, st \in Status : status' = [status EXCEPT ![e] = st] /\ ~ Decided(e)
    BY <1>2 DEF Trigger, Expire, Decided, Pending, Status
  <2>2. e \notin settled
    BY <2>1 DEF SettledInv
  <2>3. \A x \in settled : status'[x] = status[x]
    BY <1>0, <2>1, <2>2
  <2> QED BY <1>1, <1>2, <2>3 DEF Trigger, Expire, client
<1>3. CASE DeletePortfolio
  BY <1>0, <1>1, <1>3 DEF DeletePortfolio, client
<1>4. CASE BeginOther
  <2>1. PICK e \in Event, op \in Op : Pending(e) /\ other' = [event |-> e, op |-> op]
    BY <1>4 DEF BeginOther, MayDecide
  <2>2. e \notin settled
    BY <2>1 DEF SettledInv, Decided, Pending
  <2>3. UNCHANGED <<status, settled, decision>>
    BY <1>4 DEF BeginOther, client
  <2> QED BY <2>1, <2>2, <2>3 DEF SettledInv, Stands, Competes, Underway, Decided
<1>5. CASE CommitOther
  <2> DEFINE e == other.event
  <2>1. /\ other # NoOther /\ other' = NoOther /\ decision' = decision /\ UNCHANGED member
        /\ e \in Event /\ other.op \in Op /\ e \notin settled
    BY <1>5 DEF CommitOther, IInv, ServerType, Other, SettledInv, client
  <2>2. PICK b \in BOOLEAN : /\ SetStatus(e, other.op, b)
                             /\ ~ b => \A o \in Op : ~ Competes(e, o)
    BY <1>5 DEF CommitOther
  <2>3. Stands
    BY <2>1, <2>2, SetStatusStands
  <2>4. \A x \in Event : Decided(x) \/ x = e => status'[x] \notin {"absent", "pending_confirmation"}
    BY <2>1, <2>2, SetStatusDecides DEF Decided
  <2>5. \A x \in settled' : x \in settled \/ (x = e /\ ~ b)
    BY <2>2 DEF SetStatus
  <2>6. \A x \in settled' : \A op \in Op : ~ Competes(x, op)
    BY <2>2, <2>5 DEF SettledInv
  <2>7. \A x \in settled' : status'[x] \notin {"absent", "pending_confirmation"}
    BY <1>0, <2>1, <2>4, <2>5 DEF SettledInv
  <2> QED BY <2>1, <2>3, <2>6, <2>7 DEF SettledInv, Competes, Underway, Decided
<1>6. ASSUME NEW op \in Op, Begin(op) PROVE SettledInv' /\ Stands
  <2> DEFINE e == decision[op].event
  <2>1. /\ decision' = [decision EXCEPT ![op].stage = "begun"] /\ UNCHANGED server
        /\ Pending(e) /\ decision[op] \in Request
    BY <1>0, <1>6 DEF Begin, MayDecide
  <2>2. e \notin settled
    BY <2>1 DEF SettledInv, Decided, Pending
  <2>3. decision'[op].event = e /\ \A o \in Op : o # op => decision'[o] = decision[o]
    BY <1>0, <2>1 DEF Request
  <2>4. \A x \in settled : \A o \in Op : ~ Competes(x, o)'
    BY <2>2, <2>3 DEF SettledInv, Competes, Underway
  <2> QED BY <2>1, <2>4 DEF SettledInv, Stands, server, Decided, Competes, Underway
<1>7. ASSUME NEW op \in Op, Commit(op) PROVE SettledInv' /\ Stands
  <2> DEFINE e == decision[op].event
  <2>1. /\ decision' = [decision EXCEPT ![op].stage = "committed"] /\ UNCHANGED <<member, other>>
        /\ decision[op] \in Request /\ decision[op].stage = "begun" /\ e \in Event
    BY <1>0, <1>7 DEF Commit, Underway, Request, NoRequest
  <2>2. e \notin settled
    BY <2>1 DEF SettledInv, Competes, Underway
  <2>3. PICK b \in BOOLEAN : /\ SetStatus(e, op, b)
                             /\ ~ b => /\ other.event # e
                                       /\ \A o \in Op \ {op} : ~ Competes(e, o)
    BY <1>7 DEF Commit
  <2>4. Stands
    BY <2>1, <2>2, <2>3, SetStatusStands
  <2>5. \A x \in Event : Decided(x) \/ x = e => status'[x] \notin {"absent", "pending_confirmation"}
    BY <2>1, <2>3, SetStatusDecides DEF Decided
  <2>6. \A x \in settled' : x \in settled \/ (x = e /\ ~ b)
    BY <2>3 DEF SetStatus
  <2>7. decision'[op].stage = "committed" /\ \A o \in Op : o # op => decision'[o] = decision[o]
    BY <1>0, <2>1 DEF Request
  <2>8. \A x \in settled' : \A o \in Op : ~ (decision'[o].stage = "begun" /\ decision'[o].event = x)
    BY <2>3, <2>6, <2>7 DEF SettledInv, Competes, Underway
  <2>9. \A x \in settled' : status'[x] \notin {"absent", "pending_confirmation"}
    BY <1>0, <2>1, <2>5, <2>6 DEF SettledInv
  <2>10. \A x \in settled' : other # NoOther => other.event # x
    BY <2>3, <2>6 DEF SettledInv
  <2> QED BY <2>1, <2>4, <2>8, <2>9, <2>10 DEF SettledInv, Competes, Underway, Decided
<1>8. ASSUME NEW op \in Op, Fail(op) PROVE SettledInv' /\ Stands
  <2>1. /\ decision' = [decision EXCEPT ![op] = NoRequest] /\ UNCHANGED <<status, settled>>
        /\ \/ other' = other
           \/ decision[op].stage = "begun" /\ other' = [event |-> decision[op].event, op |-> op]
    BY <1>8 DEF Fail, Underway
  <2>2. \A x \in settled : other' # NoOther => other'.event # x
    BY <2>1 DEF SettledInv, Competes, Underway
  <2>3. \A o \in Op : decision'[o] = decision[o] \/ decision'[o].stage = "sent"
    BY <1>0, <2>1 DEF NoRequest
  <2>4. \A x \in settled, o \in Op : ~ (decision'[o].stage = "begun" /\ decision'[o].event = x)
    BY <2>3 DEF SettledInv, Competes, Underway
  <2> QED BY <2>1, <2>2, <2>4 DEF SettledInv, Stands, Competes, Underway, Decided
<1>9. ASSUME NEW op \in Op, Decide(op) \/ Succeed(op) PROVE SettledInv' /\ Stands
  <2>1. UNCHANGED server /\ \A o \in Op : decision'[o] = decision[o] \/ decision'[o].stage = "sent"
    BY <1>0, <1>9 DEF Decide, Succeed, NoRequest
  <2>2. \A x \in settled, o \in Op : ~ (decision'[o].stage = "begun" /\ decision'[o].event = x)
    BY <2>1 DEF SettledInv, Competes, Underway
  <2> QED BY <2>1, <2>2 DEF SettledInv, Stands, Competes, Underway, Decided, server
<1>10. ASSUME ServeOther \/ PullToRefresh \/ FindPending \/ Receive \/ Review \/ Dismiss
              \/ OpenPortfolio \/ OpenJoin \/ Back \/ Refetch
       PROVE  UNCHANGED <<status, settled, other, decision>>
  BY <1>10 DEF ServeOther, PullToRefresh, FindPending, Receive, Review, Dismiss, OpenPortfolio,
               OpenJoin, Back, Refetch, server, client
<1>11. ASSUME LeavePortfolio \/ ServeLeave \/ LeaveDone \/ LeaveFailed \/ TimerFires \/ UNCHANGED vars
       PROVE  UNCHANGED <<status, settled, other, decision>>
  BY <1>11 DEF LeavePortfolio, ServeLeave, LeaveDone, LeaveFailed, TimerFires, vars, server, client
<1> QED BY <1>1, <1>2, <1>3, <1>4, <1>5, <1>6, <1>7, <1>8, <1>9, <1>10, <1>11 DEF Next

(* However many members decide from however old lists, a decision that no  *)
(* request begun before it is left to contradict is final.                 *)
THEOREM DecisionIsFinal == Spec => DecisionStands
<1>1. Init => SettledInv
  BY DEF Init, SettledInv
<1>2. IInv /\ SettledInv /\ [Next]_vars => (IInv /\ SettledInv)'
  BY StepIInv, StepSettled
<1>3. IInv /\ SettledInv /\ [Next]_vars =>
        [\A e \in settled : status'[e] \in {status[e], "deleted"}]_vars
  BY StepSettled DEF Stands
<1> QED BY <1>1, <1>2, <1>3, InitIInv, PTL DEF Spec, DecisionStands

-----------------------------------------------------------------------------
(* router.back closes the screen it is meant for.                          *)

(* Not strayed: the one call to come finds the portfolio's screen, and the *)
(* user is a member no more, so that nothing is left for a second leave to *)
(* succeed with.                                                           *)
TimerInv ==
  /\ timers \in Nat /\ depth \in 1 .. 3 /\ strayed \in BOOLEAN /\ leave \in {None, "sent", "done"}
  /\ ~ strayed =>
       /\ timers > 0 \/ leave = "done" => ~ member /\ depth = 2
       /\ leave = "sent" => depth = 2 \/ ~ member
       /\ timers = 0 \/ (timers = 1 /\ leave # "done")

LEMMA StepTimerInv == IInv /\ TimerInv /\ [Next]_vars => TimerInv'
<1> SUFFICES ASSUME IInv, TimerInv, [Next]_vars PROVE TimerInv'
  OBVIOUS
<1> USE DEF None
<1>0. member \in BOOLEAN
  BY DEF IInv, ServerType
<1>1. ASSUME OpenPortfolio \/ OpenJoin \/ Back PROVE TimerInv'
  <2>1. UNCHANGED <<leave, timers>> /\ depth' \in 1 .. 3 /\ strayed' = (leave # None \/ timers > 0)
    BY <1>1 DEF OpenPortfolio, OpenJoin, Back, Stray, TimerInv
  <2>2. strayed' \in BOOLEAN /\ (~ strayed' => leave = None /\ ~ (timers > 0))
    BY <2>1, Zenon
  <2>3. timers \in Nat /\ leave \in {None, "sent", "done"}
    BY DEF TimerInv
  <2> QED BY <2>1, <2>2, <2>3 DEF TimerInv
<1>2. CASE LeavePortfolio
  BY <1>2 DEF LeavePortfolio, TimerInv, server
<1>3. CASE ServeLeave
  BY <1>3 DEF ServeLeave, MayLeave, TimerInv
<1>4. CASE LeaveDone
  BY <1>4 DEF LeaveDone, TimerInv, server
<1>5. CASE LeaveFailed
  BY <1>5 DEF LeaveFailed, TimerInv, server
<1>6. CASE TimerFires
  BY <1>6 DEF TimerFires, TimerInv, server
<1>7. CASE ServeOther
  BY <1>0, <1>7 DEF ServeOther, TimerInv
<1>8. CASE DeletePortfolio
  BY <1>8 DEF DeletePortfolio, TimerInv, screens
<1>9. ASSUME UNCHANGED <<member, depth, leave, timers, strayed>> PROVE TimerInv'
  BY <1>9 DEF TimerInv
<1>10. ASSUME Trigger \/ Expire \/ BeginOther \/ CommitOther \/ PullToRefresh \/ FindPending
              \/ Receive \/ Review \/ Dismiss \/ Refetch \/ UNCHANGED vars
       PROVE  UNCHANGED <<member, depth, leave, timers, strayed>>
  BY <1>10 DEF Trigger, Expire, BeginOther, CommitOther, PullToRefresh, FindPending, Receive,
               Review, Dismiss, Refetch, vars, server, screens
<1>11. ASSUME NEW op \in Op, Begin(op) \/ Commit(op) \/ Decide(op) \/ Succeed(op) \/ Fail(op)
       PROVE  UNCHANGED <<member, depth, leave, timers, strayed>>
  BY <1>11 DEF Begin, Commit, Decide, Succeed, Fail, server, screens
<1> QED BY <1>1, <1>2, <1>3, <1>4, <1>5, <1>6, <1>7, <1>8, <1>9, <1>10, <1>11 DEF Next

(* A leave's timer closes the screen of the portfolio left, with any       *)
(* number of leaves and timers.                                            *)
THEOREM TimerIsForItsScreen == Spec => TimerPopsItsScreen
<1>1. Init => TimerInv
  <2> SUFFICES ASSUME Init PROVE TimerInv
    OBVIOUS
  <2>1. timers = 0 /\ depth = 1 /\ leave = "none"
    BY Zenon DEF Init, None
  <2>2. strayed \in BOOLEAN
    BY Zenon DEF Init
  <2> QED BY <2>1, <2>2 DEF TimerInv, None
<1>2. IInv /\ TimerInv /\ [Next]_vars => (IInv /\ TimerInv)'
  BY StepIInv, StepTimerInv
<1>3. TimerInv => [TimerFires => depth = 2 \/ strayed]_vars
  BY DEF TimerInv, TimerFires
<1> QED BY <1>1, <1>2, <1>3, InitIInv, PTL DEF Spec, TimerPopsItsScreen

=============================================================================
