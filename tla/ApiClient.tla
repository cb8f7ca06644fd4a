------------------------------- MODULE ApiClient -------------------------------
(***************************************************************************)
(* The app's HTTP client: the interceptors that turn a 401 into a refresh  *)
(* of the token pair and a retry, the keychain they share with sign-in and *)
(* sign-out, and as much of the server as answers them.                    *)
(*                                                                         *)
(* JavaScript runs one callback at a time: an action is what happens       *)
(* between two awaits, and every await is a place where other callbacks    *)
(* run.  AuthTokens models the server's side with its own concurrency;     *)
(* here its transactions are steps on the tokens of one user: one each, or *)
(* two for the refresh, whose read and commit a sign-out can come between. *)
(* A refresh the client has given up on was committed or never arrived.    *)
(***************************************************************************)
EXTENDS Integers

CONSTANTS
  Call,      \* authenticated requests of the screens, in flight together
  Me,        \* resolveInitialRoot's request for the account, at each launch
  Device,    \* its second one, the registration of the device
  SignIn,    \* requests of the login screen
  SignOut,   \* requests of the settings screen's sign-out
  MaxPair    \* bound on the token pairs the server issues

Launch == {Me, Device}

ASSUME KindAssumption ==
  /\ Call \cap SignIn = {} /\ Call \cap SignOut = {} /\ SignIn \cap SignOut = {}
  /\ Launch \cap (Call \cup SignIn \cup SignOut) = {} /\ Me # Device
ASSUME PairAssumption == MaxPair \in Nat \ {0}

VARIABLES
  key,           \* the keychain: the pair each of its two entries comes from
  isRefreshing,  \* the module's flag
  queue,         \* refreshSubscribers: the requests waiting for a new token
  req,           \* where each request is
  issued,        \* pairs issued so far; pair 1 is the one the app starts with
  live,          \* pairs whose refresh token the server accepts
  valid,         \* pairs whose access token has not run out
  undisturbed,   \* history: no reply lost, app restarted, sign-in or sign-out
  signedOut,     \* history: sign-out has succeeded, no sign-in since
  raced          \* history: a refresh was on the server when it did

client == <<key, isRefreshing, queue>>
server == <<issued, live, valid>>
clientHistory == <<undisturbed, signedOut, raced>>
clientVars == <<client, req, server, clientHistory>>

Request == Call \cup Launch \cup SignIn \cup SignOut
Pair == 1 .. MaxPair
None == 0                     \* a deleted entry, a request without a bearer
Entry == {"access", "refresh"}

Stage == {"idle", "reading", "sent", "refused", "queued", "lookup", "posted",
          "accepted", "granted", "missing", "denied", "saving", "clearing"}

(* leads: the request runs the refresh.  pair: the one it presents or was  *)
(* granted.  todo: the keychain entries it has yet to write or delete.     *)
Fresh == [at |-> "idle", bearer |-> None, retry |-> FALSE, leads |-> FALSE,
          pair |-> None, todo |-> {}]

(* A start of the app: the tabs are mounted at once, and with an access    *)
(* token in the keychain resolveInitialRoot asks who is signed in.         *)
Started(keychain) ==
  [r \in Request |-> IF r = Me /\ keychain["access"] # None
                     THEN [Fresh EXCEPT !.at = "reading"] ELSE Fresh]

ClientTypeOK ==
  /\ key \in [Entry -> Pair \cup {None}]
  /\ isRefreshing \in BOOLEAN
  /\ queue \subseteq Request
  /\ req \in [Request -> [at : Stage, bearer : Pair \cup {None}, retry : BOOLEAN,
                          leads : BOOLEAN, pair : Pair \cup {None},
                          todo : SUBSET Entry]]
  /\ issued \in Pair
  /\ live \subseteq 1 .. issued
  /\ valid \subseteq 1 .. issued
  /\ undisturbed \in BOOLEAN
  /\ signedOut \in BOOLEAN
  /\ raced \in BOOLEAN

ClientInit ==
  /\ key = [e \in Entry |-> 1]
  /\ isRefreshing = FALSE
  /\ queue = {}
  /\ req = Started(key)
  /\ issued = 1
  /\ live = {1}
  /\ valid = {1}
  /\ undisturbed = TRUE
  /\ signedOut = FALSE
  /\ raced = FALSE

Move(r, stage) == req' = [req EXCEPT ![r].at = stage]

(* The screen has its answer or its error, and may ask again.              *)
Settle(r) == req' = [req EXCEPT ![r] = Fresh]

(* An error reaches the caller; resolveInitialRoot answers any with        *)
(* clearTokens.                                                            *)
Abandon(r) ==
  IF r \in Launch
  THEN req' = [req EXCEPT ![r] = [Fresh EXCEPT !.at = "clearing", !.todo = Entry]]
  ELSE Settle(r)

-----------------------------------------------------------------------------
(* Sending                                                                 *)

Send(r) ==
  /\ r \notin Launch
  /\ req[r].at = "idle"
  /\ req' = [req EXCEPT ![r] = [Fresh EXCEPT !.at = "reading"]]
  /\ undisturbed' = (undisturbed /\ r \in Call)
  /\ UNCHANGED <<client, server, signedOut, raced>>

(* The request interceptor, once getAccessToken has answered; it also runs *)
(* on a retry and replaces the header the response interceptor set.        *)
Attach(r) ==
  /\ req[r].at = "reading"
  /\ req' = [req EXCEPT ![r].at = "sent", ![r].bearer = key["access"]]
  /\ UNCHANGED <<client, server, clientHistory>>

-----------------------------------------------------------------------------
(* The server                                                              *)

Expire(n) ==
  /\ n \in valid
  /\ valid' = valid \ {n}
  /\ UNCHANGED <<client, req, issued, live, clientHistory>>

(* A new pair: rows is what becomes of the refresh tokens there were.      *)
Issue(r, rows) ==
  /\ issued < MaxPair
  /\ issued' = issued + 1
  /\ live' = rows \cup {issued'}
  /\ valid' = valid \cup {issued'}
  /\ req' = [req EXCEPT ![r].at = "granted", ![r].bearer = None, ![r].pair = issued']

(* Once it knows the account the app asks for the permission to notify,    *)
(* which may throw, and registers the device unless it runs in a browser.  *)
Serve(r) ==
  /\ r \in Call \cup Launch
  /\ req[r].at = "sent"
  /\ req[r].bearer \in valid
  /\ \/ Settle(r)
     \/ r = Me /\ Abandon(r)
     \/ /\ r = Me
        /\ req' = [req EXCEPT ![Me] = Fresh,
                              ![Device] = [Fresh EXCEPT !.at = "reading"]]
  /\ UNCHANGED <<client, server, clientHistory>>

(* A 401: the access token has run out, or the password was wrong.         *)
Refuse(r) ==
  /\ req[r].at = "sent"
  /\ \/ r \in SignIn
     \/ req[r].bearer # None /\ req[r].bearer \notin valid
  /\ req' = [req EXCEPT ![r].at = "refused", ![r].bearer = None]
  /\ UNCHANGED <<client, server, clientHistory>>

(* Mutant: neither the 403 of a request without a bearer nor the timeout.  *)
FailWithBearer(r) ==
  /\ req[r].at = "sent"
  /\ req[r].bearer # None
  /\ Abandon(r)
  /\ UNCHANGED <<client, server, clientHistory>>

(* Any other answer or none: no bearer at all is a 403, a timeout, a 500.  *)
Fail(r) ==
  /\ req[r].at = "sent"
  /\ Abandon(r)
  /\ UNCHANGED <<client, server, clientHistory>>

ServeSignIn(r) ==
  /\ r \in SignIn
  /\ req[r].at = "sent"
  /\ Issue(r, live)
  /\ signedOut' = FALSE
  /\ UNCHANGED <<client, undisturbed, raced>>

(* Mutant: only the token the app holds is revoked.                        *)
OthersAfterSignOut == live \ {key["refresh"]}

(* revoke_all_refresh_tokens, whatever token the body names.               *)
AfterSignOut == {}

ServeSignOut(r) ==
  /\ r \in SignOut
  /\ req[r].at = "sent"
  /\ req[r].bearer \in valid
  /\ live' = AfterSignOut
  /\ signedOut' = TRUE
  /\ raced' = \E q \in Request : req[q].at = "accepted"
  /\ req' = [req EXCEPT ![r].at = "clearing", ![r].bearer = None, ![r].todo = Entry]
  /\ UNCHANGED <<client, issued, valid, undisturbed>>

(* POST /auth/refresh has found the token live.                            *)
Accept(r) ==
  /\ req[r].at = "posted"
  /\ req[r].pair \in live
  /\ Move(r, "accepted")
  /\ UNCHANGED <<client, server, clientHistory>>

(* It revokes the tokens the user has by now, issues a pair and commits,   *)
(* whatever has become of the token it found.                              *)
Rotate(r) ==
  /\ req[r].at = "accepted"
  /\ Issue(r, {})
  /\ UNCHANGED <<client, clientHistory>>

(* A revoked or expired token, the rate limit, an unreachable server.      *)
Deny(r) ==
  /\ req[r].at \in {"posted", "accepted"}
  /\ Move(r, "denied")
  /\ UNCHANGED <<client, server, clientHistory>>

(* The pair was issued and the reply is lost: the connection breaks, or,   *)
(* for a sign-in only, apiClient's time is up.                             *)
LoseReply(r) ==
  /\ req[r].at = "granted"
  /\ IF req[r].leads THEN Move(r, "denied") ELSE Settle(r)
  /\ undisturbed' = FALSE
  /\ UNCHANGED <<client, server, signedOut, raced>>

-----------------------------------------------------------------------------
(* The response interceptor                                                *)

GiveUp(r) ==
  /\ req[r].at = "refused"
  /\ req[r].retry
  /\ Abandon(r)
  /\ UNCHANGED <<client, server, clientHistory>>

Queue(r) ==
  /\ req[r].at = "refused"
  /\ ~ req[r].retry
  /\ isRefreshing
  /\ queue' = queue \cup {r}
  /\ req' = [req EXCEPT ![r].at = "queued", ![r].retry = TRUE]
  /\ UNCHANGED <<key, isRefreshing, server, clientHistory>>

(* Mutant: the flag is set and not read.                                   *)
LeadAlways(r) ==
  /\ req[r].at = "refused"
  /\ ~ req[r].retry
  /\ isRefreshing' = TRUE
  /\ req' = [req EXCEPT ![r].at = "lookup", ![r].retry = TRUE, ![r].leads = TRUE]
  /\ UNCHANGED <<key, queue, server, clientHistory>>

Lead(r) ==
  /\ req[r].at = "refused"
  /\ ~ req[r].retry
  /\ ~ isRefreshing
  /\ isRefreshing' = TRUE
  /\ req' = [req EXCEPT ![r].at = "lookup", ![r].retry = TRUE, ![r].leads = TRUE]
  /\ UNCHANGED <<key, queue, server, clientHistory>>

(* getRefreshToken has answered.                                           *)
Post(r) ==
  /\ req[r].at = "lookup"
  /\ req' = IF key["refresh"] = None
            THEN [req EXCEPT ![r].at = "missing", ![r].todo = Entry]
            ELSE [req EXCEPT ![r].at = "posted", ![r].pair = key["refresh"]]
  /\ UNCHANGED <<client, server, clientHistory>>

(* Mutant: the new refresh token is not saved.                             *)
BeginSaveAccess(r) ==
  /\ req[r].at = "granted"
  /\ req' = [req EXCEPT ![r].at = "saving", ![r].todo = {"access"}]
  /\ UNCHANGED <<client, server, clientHistory>>

(* saveTokens and clearTokens start both entries at once (Promise.all);    *)
(* they complete one by one, in either order.                              *)
BeginSave(r) ==
  /\ req[r].at = "granted"
  /\ req' = [req EXCEPT ![r].at = "saving", ![r].todo = Entry]
  /\ UNCHANGED <<client, server, clientHistory>>

BeginClear(r) ==
  /\ req[r].at = "denied"
  /\ req' = [req EXCEPT ![r].at = "clearing", ![r].pair = None, ![r].todo = Entry]
  /\ UNCHANGED <<client, server, clientHistory>>

(* No refresh token: the keychain is cleared, and once more by the catch   *)
(* block that the exception thrown here ends in.                           *)
ThrowMissing(r) ==
  /\ req[r].at = "missing" /\ req[r].todo = {}
  /\ Move(r, "denied")
  /\ UNCHANGED <<client, server, clientHistory>>

WriteKey(r, e) ==
  /\ req[r].at \in {"saving", "missing", "clearing"}
  /\ e \in req[r].todo
  /\ key' = [key EXCEPT ![e] = IF req[r].at = "saving" THEN req[r].pair ELSE None]
  /\ req' = [req EXCEPT ![r].todo = @ \ {e}]
  /\ UNCHANGED <<isRefreshing, queue, server, clientHistory>>

(* onRefreshed sends the queued requests and the leader's own again.       *)
Refreshed(r) ==
  /\ req[r].at = "saving" /\ req[r].leads /\ req[r].todo = {}
  /\ req' = [q \in Request |->
               IF q \in queue \cup {r}
               THEN [req[q] EXCEPT !.at = "reading", !.leads = FALSE, !.pair = None]
               ELSE req[q]]
  /\ queue' = {}
  /\ isRefreshing' = FALSE
  /\ UNCHANGED <<key, server, clientHistory>>

(* The catch block has cleared the keychain and throws; finally resets the *)
(* flag.  refreshSubscribers keeps what it holds.                          *)
RefreshFailed(r) ==
  /\ req[r].at = "clearing" /\ req[r].leads /\ req[r].todo = {}
  /\ Abandon(r)
  /\ isRefreshing' = FALSE
  /\ UNCHANGED <<key, queue, server, clientHistory>>

(* login has saved its pair, logout or a failed launch has cleared the     *)
(* keychain.                                                               *)
Signed(r) ==
  /\ req[r].at \in {"saving", "clearing"} /\ ~ req[r].leads /\ req[r].todo = {}
  /\ Settle(r)
  /\ UNCHANGED <<client, server, clientHistory>>

(* The app is killed and started again: only the keychain survives.        *)
Restart ==
  /\ isRefreshing' = FALSE
  /\ queue' = {}
  /\ req' = Started(key)
  /\ undisturbed' = FALSE
  /\ UNCHANGED <<key, server, signedOut, raced>>

(* The answer to a refresh, which axios.post awaits without a timeout.     *)
Answer(r) ==
  \/ Accept(r) \/ Rotate(r) \/ Deny(r)
  \/ req[r].leads /\ (LoseReply(r) \/ BeginSave(r))

(* What the app does for r of itself, and the network by apiClient's       *)
(* timeout at the latest.                                                  *)
Progress(r) ==
  \/ Attach(r) \/ Serve(r) \/ Refuse(r) \/ Fail(r)
  \/ ServeSignIn(r) \/ ServeSignOut(r)
  \/ ~ req[r].leads /\ (LoseReply(r) \/ BeginSave(r))
  \/ GiveUp(r) \/ Queue(r) \/ Lead(r) \/ Post(r) \/ ThrowMissing(r)
  \/ BeginClear(r)
  \/ \E e \in Entry : WriteKey(r, e)
  \/ Refreshed(r) \/ RefreshFailed(r) \/ Signed(r)

ClientNext ==
  \/ \E r \in Request : Send(r) \/ Progress(r) \/ Answer(r)
  \/ \E n \in Pair : Expire(n)
  \/ Restart

ClientSpec == ClientInit /\ [][ClientNext]_clientVars

(* Promises that are due run, and a request of apiClient is answered or    *)
(* times out.  Nothing obliges the user to ask, the network to be kind, or *)
(* anyone to answer a refresh.                                             *)
FairSpec == ClientSpec /\ \A r \in Request : WF_clientVars(Progress(r))

-----------------------------------------------------------------------------
(* Properties                                                              *)

(* isRefreshing is a lock: however the 401s, the keychain accesses and the *)
(* replies of several requests interleave, one request runs the refresh.   *)
SingleFlight ==
  \A r, q \in Request :
    /\ req[r].leads => isRefreshing
    /\ req[r].leads /\ req[q].leads => r = q

(* A refresh token is good for one use.  The client never presents one it  *)
(* has already exchanged, so while no reply is lost and nobody signs in or *)
(* out, the refresh it posts is of the token the server holds live.        *)
PresentsLiveToken ==
  undisturbed => \A r \in Request : req[r].at = "posted" => req[r].pair \in live

(* Sign-out wins over a refresh that overlaps it in the app: whatever that *)
(* refresh stores in the keychain afterwards, no refresh token there is    *)
(* accepted.  Only one that had passed the server's check when the         *)
(* sign-out was committed can bring back a live one.                       *)
SignOutHolds == signedOut /\ ~ raced => key["refresh"] \notin live

(* A request settles, or waits for a refresh: one that runs, its own or    *)
(* another's, which may never be answered.  Once its refresh is answered   *)
(* it settles, so an access token that is always refused does not loop.    *)
CallSettles ==
  \A r \in Call :
    /\ req[r].at = "reading" ~>
         req[r].at \in {"idle", "queued", "posted", "accepted", "granted"}
    /\ req[r].at \in {"reading", "saving", "denied"} /\ req[r].retry ~> req[r].at = "idle"

=============================================================================
