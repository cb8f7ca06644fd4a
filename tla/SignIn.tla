--------------------------------- MODULE SignIn ---------------------------------
(***************************************************************************)
(* Who is signed in on one device: the launch of the app, the screens that *)
(* sign in, register, reset and change a password, sign out and delete the *)
(* account, the store with the user, the token in the keychain and the     *)
(* cached lists.  A flow is one run of such a handler; nothing keeps a     *)
(* second one from starting while the first waits.                         *)
(*                                                                         *)
(* A request carries the token that the keychain held when it was sent.  A *)
(* 401 starts the refresh, or waits for the one that runs; the server's    *)
(* read, its commit and the app's saveTokens are steps of their own, which *)
(* flows come between.  ApiClient has the keychain's two entries and the   *)
(* queue, AuthTokens the sessions of the database.  A request the app has  *)
(* given up on was committed or never arrived; what other devices do only  *)
(* makes requests fail, and any may.  verify-otp is left out: no screen    *)
(* leads there.                                                            *)
(***************************************************************************)
EXTENDS Naturals

CONSTANTS
  Account,
  Slot,                  \* the handlers that can run at a time
  MyList,                \* the fetch of my-portfolios, a request like theirs
  MaxFlows               \* bound on the flows that begin on a screen

ASSUME FlowsAssumption == MaxFlows \in Nat
ASSUME SlotAssumption == MyList \notin Slot
ASSUME AccountAssumption == Account \cap {"none", "error"} = {}

VARIABLES
  account,               \* the server's users
  key,                   \* the token in the keychain
  refresh,               \* the refresh that runs: isRefreshing
  call,                  \* the request each flow, or the list, waits for
  user,                  \* of the store
  screen,                \* the tabs and what opens over them, or before them
  flow,                  \* the handlers that are running
  begun,                 \* the flows that began on a screen, for MaxFlows
  cache,                 \* my-portfolios: whose data it is
  crossed,               \* history: flows overlapped, or a sign-in a refresh
  aged,                  \* history: whose restricted token was refreshed
  out,                   \* history: the last session was ended on purpose
  excused                \* history: the cache need not be the user's

client == <<key, refresh, call>>
shown == <<user, screen>>
lists == <<cache, excused>>
history == <<crossed, aged, out>>
vars == <<account, client, shown, flow, begun, lists, history>>

-----------------------------------------------------------------------------
(* State                                                                   *)

None == "none"
Caller == Slot \cup {MyList}
Status == {"absent", "active", "must", "deleted"}
Kind == {"launch", "login", "register", "reset", "change", "logout", "delete"}

(* live: the refresh token is not revoked.                                 *)
Token == [acct : Account, scope : {"full", "change_only"}, live : BOOLEAN]
NoToken == [acct |-> None, scope |-> "full", live |-> FALSE]

Flow == [kind : Kind, acct : Account \cup {None}, stage : {"post", "ask", "me", "push", "timer"}]
NoFlow == [kind |-> None, acct |-> None, stage |-> "post"]

(* of: whose token a request carries, then whom it was answered for.       *)
Call == [at : {"idle", "sent", "held", "answered"}, again : BOOLEAN,
         of : Account \cup {None, "error"}, scope : {"full", "change_only"}]
Idle == [at |-> "idle", again |-> FALSE, of |-> None, scope |-> "full"]
Sent(k) == [Idle EXCEPT !.at = "sent", !.of = k.acct, !.scope = k.scope]
Held == [Idle EXCEPT !.at = "held"]
Answered(g) == [Idle EXCEPT !.at = "answered", !.of = g]

NoRefresh == [at |-> "none", token |-> NoToken]
Posted(k) == [at |-> "sent", token |-> k]

TypeOK ==
  /\ account \in [Account -> Status]
  /\ key \in Token \cup {NoToken}
  /\ refresh \in {NoRefresh} \cup [at : {"sent", "read", "granted"}, token : Token]
  /\ call \in [Caller -> Call]
  /\ user \in Account \cup {None}
  /\ screen \in {"tabs", "login", "change"}
  /\ flow \in [Slot -> Flow \cup {NoFlow}]
  /\ cache \in Account \cup {None}
  /\ \A b \in {crossed, out, excused} : b \in BOOLEAN
  /\ aged \subseteq Account /\ begun \in 0 .. MaxFlows

NoFlows == [s \in Slot |-> NoFlow]
Launching == {[NoFlows EXCEPT ![s].kind = "launch"] : s \in Slot}
NoData == None

-----------------------------------------------------------------------------
(* Server                                                                  *)

(* Mutant: the token is enough, whatever became of the account.            *)
ExistsOnce(a) == account[a] # "absent"

Exists(a) == account[a] \in {"active", "must"}

(* Mutant: get_current_user lets every scope through.                      *)
AllowedAny(scope, anyScope) == TRUE

Allowed(scope, anyScope) == anyScope \/ scope = "full"

(* login restricts the token of an account that must change its password.  *)
Issued(a) ==
  [acct |-> a, scope |-> IF account[a] = "must" THEN "change_only" ELSE "full", live |-> TRUE]

(* change_password and refresh sign one without the scope.                 *)
Unscoped(a) == [acct |-> a, scope |-> "full", live |-> TRUE]

Revoked(k, a) == IF k.acct = a THEN [k EXCEPT !.live = FALSE] ELSE k

(* All refresh tokens of a, the one a refresh has posted or brings too.    *)
RevokeAll(a) ==
  /\ key' = Revoked(key, a)
  /\ refresh' = [refresh EXCEPT !.token = Revoked(@, a)]

(* The app starts, for the first time or with the tokens of a sign-in: the *)
(* tabs mount and fetch, and the launch looks who is signed in.            *)
Started ==
  /\ user' = None /\ screen' = "tabs" /\ flow' \in Launching
  /\ call' = [[c \in Caller |-> Idle] EXCEPT ![MyList] = Sent(key)]
  /\ refresh' = NoRefresh /\ cache' = NoData
  /\ crossed' = FALSE /\ excused' = FALSE

Init ==
  /\ account \in [Account -> {"absent", "active", "must"}]
  /\ key = NoToken \/ \E a \in Account : Exists(a) /\ key = Issued(a)
  /\ user = None /\ screen = "tabs" /\ flow \in Launching
  /\ call = [[c \in Caller |-> Idle] EXCEPT ![MyList] = Sent(key)]
  /\ refresh = NoRefresh /\ cache = NoData /\ begun = 0
  /\ crossed = FALSE /\ aged = {} /\ out = FALSE /\ excused = FALSE

-----------------------------------------------------------------------------
(* Requests                                                                *)

Ask(c) == [call EXCEPT ![c] = Sent(key)]
Answer(c, got) == call' = [call EXCEPT ![c] = Answered(got)]

(* What a caller has sent: a flow its own request, or, like the list, one  *)
(* that only reads.                                                        *)
Wants(c) == IF c = MyList \/ flow[c].stage = "me" THEN "read" ELSE flow[c].kind
Signed(c) == Wants(c) \in {"read", "change", "logout", "delete"}

(* The server lets the request in.                                         *)
Accepts(c) ==
  /\ call[c].at = "sent" /\ Signed(c)
  /\ call[c].of \in Account /\ Exists(call[c].of)
  /\ Allowed(call[c].scope, Wants(c) = "change")

(* A reply that does not arrive is an error to the app.                    *)
Replies(c) == \E got \in {call[c].of, "error"} : Answer(c, got)

Read(c) ==
  /\ Accepts(c) /\ Wants(c) = "read"
  /\ Answer(c, call[c].of)
  /\ UNCHANGED <<account, key, refresh, shown, flow, begun, lists, history>>

ChangedOnServer(s) ==
  /\ Accepts(s) /\ Wants(s) = "change"
  /\ account' = [account EXCEPT ![call[s].of] = "active"]
  /\ RevokeAll(call[s].of) /\ Replies(s)
  /\ UNCHANGED <<shown, flow, begun, lists, history>>

SignedOutOnServer(s) ==
  /\ Accepts(s) /\ Wants(s) = "logout"
  /\ RevokeAll(call[s].of) /\ Replies(s)
  /\ UNCHANGED <<account, shown, flow, begun, lists, history>>

DeletedOnServer(s) ==
  /\ Accepts(s) /\ Wants(s) = "delete"
  /\ account' = [account EXCEPT ![call[s].of] = "deleted"]
  /\ RevokeAll(call[s].of) /\ Replies(s)
  /\ UNCHANGED <<shown, flow, begun, lists, history>>

(* 401: the access token has expired, its account is gone, or the password *)
(* of a login is wrong.  The refresh posts the token the keychain has now; *)
(* a request refused while one runs waits for it.                          *)
Refused(c) ==
  /\ call[c].at = "sent" /\ ~ call[c].again
  /\ Wants(c) = "login" \/ (Signed(c) /\ call[c].of \in Account)
  /\ IF refresh = NoRefresh /\ key = NoToken
     THEN Answer(c, "error") /\ UNCHANGED refresh
     ELSE /\ call' = [call EXCEPT ![c] = Held]
          /\ refresh' = IF refresh = NoRefresh THEN Posted(key) ELSE refresh
  /\ UNCHANGED <<account, key, shown, flow, begun, lists, history>>

(* So is one of another list of the tabs, of which the model has no more.  *)
OtherRefused ==
  /\ screen = "tabs"
  /\ refresh = NoRefresh /\ key # NoToken
  /\ refresh' = Posted(key)
  /\ UNCHANGED <<account, key, call, shown, flow, begun, lists, history>>

-----------------------------------------------------------------------------
(* The refresh                                                             *)

RefreshRead ==
  /\ refresh.at = "sent" /\ refresh.token.live /\ Exists(refresh.token.acct)
  /\ refresh' = [refresh EXCEPT !.at = "read"]
  /\ UNCHANGED <<account, key, call, shown, flow, begun, lists, history>>

(* The commit revokes all tokens and inserts one, whatever was committed   *)
(* since the read.                                                         *)
RefreshCommitted ==
  LET a == refresh.token.acct
  IN /\ refresh.at = "read"
     /\ refresh' = [refresh EXCEPT !.at = "granted", !.token = Unscoped(a)]
     /\ key' = Revoked(key, a)
     /\ aged' = IF refresh.token.scope = "change_only" THEN aged \cup {a} ELSE aged
     /\ UNCHANGED <<account, call, shown, flow, begun, lists, crossed, out>>

(* saveTokens, whoever signed in or out since; all that waited are sent    *)
(* again, those left behind by a refresh that failed too.                  *)
RefreshSaved ==
  /\ refresh.at = "granted" /\ refresh' = NoRefresh
  /\ key' = refresh.token
  /\ call' = [c \in Caller |-> IF call[c].at = "held"
                               THEN [Sent(refresh.token) EXCEPT !.again = TRUE] ELSE call[c]]
  /\ UNCHANGED <<account, shown, flow, begun, lists, history>>

(* Refused, or its reply is lost: clearTokens, and an error for the        *)
(* request that ran it, any of those held or another screen's; those that  *)
(* waited for it wait on.                                                  *)
RefreshFailed ==
  /\ refresh # NoRefresh /\ refresh' = NoRefresh
  /\ key' = NoToken
  /\ \/ \E c \in Caller : call[c].at = "held" /\ Answer(c, "error")
     \/ UNCHANGED call
  /\ UNCHANGED <<account, shown, flow, begun, lists, history>>

-----------------------------------------------------------------------------
(* Flows                                                                   *)

Ends(s) == flow' = [flow EXCEPT ![s] = NoFlow] /\ call' = [call EXCEPT ![s] = Idle]
Moves(s, stage) ==
  /\ flow' = [flow EXCEPT ![s].stage = stage, ![s].acct = None]
  /\ call' = [call EXCEPT ![s] = Idle]

At(s, kinds, stage) == flow[s].kind \in kinds /\ flow[s].stage = stage

(* The caller has its answer, or an error: no answer, any other status, or *)
(* the 401 of a request sent again.                                        *)
Served(c) == call[c].at = "answered" /\ call[c].of \in Account
Failed(c) == call[c].at = "sent" \/ call[c].of = "error"

(* Among the errors, a 403: fetchMe went without a token or with the       *)
(* restricted one.                                                         *)
Barred(s) ==
  call[s].at = "sent" /\ (call[s].of = None \/ ~ Allowed(call[s].scope, FALSE))

(* saveTokens of a flow: a refresh of another account that still runs will *)
(* save its own over them.                                                 *)
Save(k) ==
  /\ key' = k
  /\ crossed' = (crossed \/ (refresh # NoRefresh /\ refresh.token.acct # k.acct))

(* Whether thirty seconds have made the data stale.                        *)
Staleness == IF cache = NoData THEN {TRUE} ELSE BOOLEAN

(* Mutant: only a list that has no data yet is fetched.                    *)
FetchesIfEmpty(stale) == cache = NoData

Fetches(stale) == stale

(* The tabs mount: a stale list is fetched unless a fetch is on its way,   *)
(* which may carry the token of another user, as fresh data may be theirs. *)
Mount(s, u) ==
  /\ screen' = "tabs"
  /\ flow' = [flow EXCEPT ![s] = NoFlow]
  /\ \E stale \in Staleness :
       /\ call' = [call EXCEPT ![s] = Idle,
                               ![MyList] = IF @.at = "idle" /\ Fetches(stale) THEN Sent(key) ELSE @]
       /\ excused' = IF call[MyList].at = "idle" THEN ~ stale /\ cache # u
                     ELSE excused \/ (call[MyList].at # "held" /\ call[MyList].of # u)
  /\ UNCHANGED cache

Free(s) == flow[s] = NoFlow
Alone(s) == \A q \in Slot \ {s} : Free(q)

(* The call of a flow that names the account needs no token.               *)
Begin(s, kind, a) ==
  /\ Free(s) /\ begun < MaxFlows /\ begun' = begun + 1
  /\ flow' = [flow EXCEPT ![s] = [NoFlow EXCEPT !.kind = kind, !.acct = a]]
  /\ call' = [call EXCEPT ![s] = Sent(IF a = None THEN key ELSE NoToken)]
  /\ crossed' = (crossed \/ ~ Alone(s))
  /\ UNCHANGED <<account, key, refresh, shown, lists, aged, out>>

Submit(s, kind) == screen = "login" /\ \E a \in Account : Begin(s, kind, a)

SubmitLogin(s) == Submit(s, "login")
SubmitRegistration(s) == Submit(s, "register")
SubmitReset(s) == Submit(s, "reset")

(* After a restricted login, or from the profile.                          *)
ChangePassword(s) == screen \in {"change", "tabs"} /\ Begin(s, "change", None)

(* The overlay covers the button while a sign-out runs.                    *)
SignOutOrDelete(s) ==
  /\ screen = "tabs"
  /\ \E kind \in {"logout", "delete"} :
       /\ kind = "logout" => \A q \in Slot : flow[q].kind # "logout"
       /\ Begin(s, kind, None)

(* A login or a registration is committed, answered and its tokens saved,  *)
(* which nothing else waits for in between; fetchMe comes next.            *)
SignedIn(s) ==
  LET a == flow[s].acct
  IN /\ At(s, {"login", "register"}, "post") /\ call[s].at = "sent"
     /\ IF flow[s].kind = "login" THEN Exists(a) /\ UNCHANGED account
        ELSE account[a] = "absent" /\ account' = [account EXCEPT ![a] = "active"]
     /\ Save(Issued(a)) /\ out' = FALSE
     /\ Moves(s, "ask")
     /\ UNCHANGED <<refresh, shown, begun, lists, aged>>

(* Without an answer; what a registration did on the server stays.         *)
RegistrationLost(s) ==
  LET a == flow[s].acct
  IN /\ At(s, {"register"}, "post") /\ call[s].at = "sent" /\ account[a] = "absent"
     /\ account' = [account EXCEPT ![a] = "active"]
     /\ Ends(s)
     /\ UNCHANGED <<key, refresh, shown, begun, lists, history>>

ResetDone(s) ==
  LET a == flow[s].acct
  IN /\ At(s, {"reset"}, "post") /\ call[s].at = "sent" /\ Exists(a)
     /\ account' = [account EXCEPT ![a] = "active"] /\ RevokeAll(a)
     /\ Moves(s, "timer") \/ Ends(s)
     /\ UNCHANGED <<shown, begun, lists, history>>

TimerFires(s) ==
  /\ At(s, {"reset"}, "timer")
  /\ screen' = "login" /\ Ends(s)
  /\ UNCHANGED <<account, key, refresh, user, begun, lists, history>>

PasswordChanged(s) ==
  /\ At(s, {"change"}, "post") /\ Served(s)
  /\ Save(Unscoped(call[s].of)) /\ Moves(s, "ask")
  /\ UNCHANGED <<account, refresh, shown, begun, lists, aged, out>>

(* The screen says so and stays: a login, a registration, a reset, a       *)
(* change of the password and a deletion that failed.                      *)
Refusal(s) ==
  /\ At(s, {"login", "register", "reset", "change", "delete"}, "post") /\ Failed(s)
  /\ Ends(s)
  /\ UNCHANGED <<account, key, refresh, shown, begun, lists, history>>

(* Mutant: the user of the store is kept.                                  *)
ClearAuthNot == UNCHANGED user

ClearAuth == user' = None

(* What still runs once the tokens are revoked: another flow, or a refresh *)
(* with a token that is not.                                               *)
Runs(s) == ~ Alone(s) \/ refresh.at \in {"read", "granted"} \/ refresh.token.live

(* The user leaves for the sign-in whatever came of the call; only its     *)
(* answer clears the keychain.                                             *)
SignedOut(s) ==
  /\ At(s, {"logout"}, "post")
  /\ \/ Served(s) /\ key' = NoToken /\ out' = ~ Runs(s)
     \/ Failed(s) /\ UNCHANGED <<key, out>>
  /\ ClearAuth /\ screen' = "login" /\ Ends(s)
  /\ UNCHANGED <<account, refresh, begun, lists, crossed, aged>>

(* Deleting the account leaves its tokens where they are.                  *)
AccountDeleted(s) ==
  /\ At(s, {"delete"}, "post") /\ Served(s)
  /\ out' = (Alone(s) /\ \A k \in {key, refresh.token} : k.acct \in {None, call[s].of})
  /\ ClearAuth /\ screen' = "login" /\ Ends(s)
  /\ UNCHANGED <<account, key, refresh, begun, lists, crossed, aged>>

(* resolveInitialRoot: without a token to the sign-in, with one fetchMe.   *)
Launch(s) ==
  /\ At(s, {"launch"}, "post")
  /\ IF key = NoToken THEN screen' = "login" /\ Ends(s)
     ELSE Moves(s, "ask") /\ UNCHANGED screen
  /\ UNCHANGED <<account, key, refresh, user, begun, lists, history>>

FetchMe(s) ==
  /\ At(s, Kind, "ask")
  /\ flow' = [flow EXCEPT ![s].stage = "me"] /\ call' = Ask(s)
  /\ UNCHANGED <<account, key, refresh, shown, begun, lists, history>>

(* fetchMe answers with the user: to the tabs, a launch by way of the      *)
(* permission for notifications.                                           *)
Welcome(s) ==
  LET u == call[s].of
  IN /\ At(s, Kind, "me") /\ Served(s)
     /\ user' = u
     /\ IF flow[s].kind = "launch" THEN Moves(s, "push") /\ UNCHANGED <<screen, lists>>
        ELSE Mount(s, u)
     /\ UNCHANGED <<account, key, refresh, begun, history>>

(* It fails: a login that is forbidden leads to the change of the password;*)
(* the others say so and keep the tokens they saved.                       *)
NotWelcome(s) ==
  /\ At(s, {"login", "register", "change"}, "me") /\ Failed(s)
  /\ \/ UNCHANGED screen
     \/ flow[s].kind = "login" /\ Barred(s) /\ screen' = "change"
  /\ Ends(s)
  /\ UNCHANGED <<account, key, refresh, user, begun, lists, history>>

LaunchDone(s) ==
  /\ At(s, {"launch"}, "push")
  /\ Mount(s, user)
  /\ UNCHANGED <<account, key, refresh, user, begun, history>>

(* Any error of the launch, of the notifications too, drops the session.   *)
LaunchFailed(s) ==
  /\ \/ At(s, {"launch"}, "push")
     \/ At(s, {"launch"}, "me") /\ Failed(s)
  /\ key' = NoToken /\ ClearAuth /\ screen' = "login" /\ Ends(s)
  /\ UNCHANGED <<account, refresh, begun, lists, history>>

-----------------------------------------------------------------------------
(* The lists                                                               *)

(* Pulling down fetches again; a first fetch is not started twice.  The    *)
(* request given up goes on, and the refresh it may run.                   *)
PullToRefresh ==
  /\ screen = "tabs"
  /\ cache # NoData \/ call[MyList].at = "idle"
  /\ call' = Ask(MyList) /\ excused' = FALSE
  /\ UNCHANGED <<account, key, refresh, shown, flow, begun, cache, history>>

FetchReceived ==
  /\ Served(MyList)
  /\ cache' = call[MyList].of
  /\ call' = [call EXCEPT ![MyList] = Idle]
  /\ UNCHANGED <<account, key, refresh, shown, flow, begun, excused, history>>

(* A fetch that failed is tried again, with the token of that moment.      *)
FetchFailed ==
  /\ Failed(MyList)
  /\ \/ call' = Ask(MyList) /\ UNCHANGED excused
     \/ call' = [call EXCEPT ![MyList] = Idle] /\ excused' = TRUE
  /\ UNCHANGED <<account, key, refresh, shown, flow, begun, cache, history>>

-----------------------------------------------------------------------------
(* Elsewhere                                                               *)

(* The app is killed and started again; the keychain stays.                *)
Restart == Started /\ UNCHANGED <<account, key, begun, aged, out>>

Next ==
  \/ \E c \in Caller : Read(c) \/ Refused(c)
  \/ \E s \in Slot :
       \/ ChangedOnServer(s) \/ SignedOutOnServer(s) \/ DeletedOnServer(s)
       \/ SubmitLogin(s) \/ SubmitRegistration(s) \/ SubmitReset(s)
       \/ ChangePassword(s) \/ SignOutOrDelete(s)
       \/ SignedIn(s) \/ RegistrationLost(s) \/ ResetDone(s) \/ TimerFires(s)
       \/ PasswordChanged(s) \/ Refusal(s) \/ SignedOut(s) \/ AccountDeleted(s)
       \/ Launch(s) \/ FetchMe(s) \/ Welcome(s) \/ NotWelcome(s)
       \/ LaunchDone(s) \/ LaunchFailed(s)
  \/ OtherRefused \/ RefreshRead \/ RefreshCommitted \/ RefreshSaved \/ RefreshFailed
  \/ PullToRefresh \/ FetchReceived \/ FetchFailed
  \/ Restart

Spec == Init /\ [][Next]_vars

-----------------------------------------------------------------------------
(* Properties                                                              *)

(* The app shows the account whose token its calls carry, or has lost the  *)
(* token: no name over another's money.  Two histories are excepted, as    *)
(* the code gives way in them: two flows overlapped, or tokens were saved  *)
(* at a sign-in while a refresh of the account before, late to save its    *)
(* own over them, was under way.                                           *)
UserHoldsKey == ~ crossed => (key = NoToken \/ user \in {None, key.acct})

(* What the tabs show at rest is the user's own, with the exceptions the   *)
(* code has besides those: the user before was signed in within the thirty *)
(* seconds, a fetch sent with that user's token was still on its way at    *)
(* the sign-in, or the refetch failed.                                     *)
DataIsOwners ==
  screen = "tabs" /\ user # None /\ call[MyList].at = "idle" /\ ~ crossed /\ ~ excused
    => cache \in {None, user}

(* A user who must change the password is shown the tabs as signed in only *)
(* after the restricted token was refreshed, which loses the restriction;  *)
(* overlapping flows are no way around it.                                 *)
ForcedUserChanges == user # None /\ account[user] = "must" => user \in aged

(* Who signed out or deleted the account stays signed out until the next   *)
(* sign-in, across restarts, whatever a deletion left in the keychain and  *)
(* whatever refresh is under way.  Excepted are a sign-out beside another  *)
(* flow, and one that was answered before a refresh the server had let in, *)
(* or still will: its tokens refill the keychain.                          *)
SignedOutStaysOut == out => user = None

=============================================================================
