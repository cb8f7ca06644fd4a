------------------------------ MODULE AuthTokens ------------------------------
(***************************************************************************)
(* Refresh tokens and one-time codes: AuthService, and the two ways an     *)
(* account is deleted, as concurrent requests against one database.        *)
(*                                                                         *)
(* As in Membership, what a request reads it reads from the snapshot of    *)
(* its first SELECT, here the guard of its Begin action (a request refused *)
(* there leaves no token and no code behind), and what it writes it writes *)
(* to the current rows: an UPDATE ... WHERE revoked_at IS NULL revokes the *)
(* tokens that are live at the commit, whoever inserted them.              *)
(***************************************************************************)
EXTENDS Integers, FiniteSets

CONSTANTS
  User,      \* accounts
  Token,     \* identities of refresh tokens; secrets.token_urlsafe is fresh
  Code,      \* identities of one-time codes
  Session,   \* requests that can be in progress at the same time
  MaxEra     \* bound on the number of times one user signs out everywhere

ASSUME SessionAssumption == IsFiniteSet(Session) /\ Session # {}
ASSUME TokenAssumption == IsFiniteSet(Token)
ASSUME BoundAssumption == MaxEra \in Nat

VARIABLES
  account,    \* the users row of each user
  disabled,   \* users whose is_active an administrator has cleared
  token,      \* the refresh_tokens rows
  code,       \* the otp_tokens rows
  mailed,     \* codes that have reached their user's mailbox
  era,        \* history: how often all sessions of a user were ended
  exchanged,  \* history: how many new tokens a token was exchanged for
  redeemed,   \* history: how many requests a code has authorised
  txn         \* what each session is doing

database == <<account, disabled, token, code>>
history == <<era, exchanged, redeemed>>
vars == <<database, mailed, history, txn>>

Era == 0 .. MaxEra
Purpose == {"login_2fa", "password_reset"}
Live == {"live", "dead"}

(* era is the one of the sign-in a token descends from: a refresh hands it *)
(* on, so a token is old when its user has ended all sessions since.       *)
NoRow == [state |-> "none"]
TokenRow == [state : Live, user : User, era : Era]
CodeRow == [state : Live, user : User, purpose : Purpose]

Idle == [op |-> "idle"]
LoginTxn == [op : {"login"}, user : User, era : Era]
RefreshTxn == [op : {"refresh"}, user : User, era : Era, token : Token]
EndTxn == [op : {"change", "logout", "delete"}, user : User]
SendTxn == [op : {"send"}, user : User, purpose : Purpose, code : Code]
RedeemTxn == [op : {"verify", "reset"}, user : User, code : Code]

TypeOK ==
  /\ account \in [User -> {"none", "present", "deleted"}]
  /\ disabled \subseteq User
  /\ token \in [Token -> {NoRow} \cup TokenRow]
  /\ code \in [Code -> {NoRow} \cup CodeRow]
  /\ mailed \subseteq Code
  /\ era \in [User -> Era]
  /\ exchanged \in [Token -> Nat]
  /\ redeemed \in [Code -> Nat]
  /\ txn \in [Session -> {Idle} \cup LoginTxn \cup RefreshTxn \cup EndTxn
                         \cup SendTxn \cup RedeemTxn]

Init ==
  /\ account = [u \in User |-> "none"]
  /\ disabled = {}
  /\ token = [t \in Token |-> NoRow]
  /\ code = [c \in Code |-> NoRow]
  /\ mailed = {}
  /\ era = [u \in User |-> 0]
  /\ exchanged = [t \in Token |-> 0]
  /\ redeemed = [c \in Code |-> 0]
  /\ txn = [s \in Session |-> Idle]

-----------------------------------------------------------------------------
(* AuthDbContext                                                           *)

LiveTokens(u) == {t \in Token : token[t].state = "live" /\ token[t].user = u}

(* find_otp_token takes the newest of these; AtMostOneLiveCode says that   *)
(* there is never a second.                                                *)
LiveCodes(u, purpose) ==
  {c \in Code : /\ code[c].state = "live"
                /\ code[c].user = u
                /\ code[c].purpose = purpose}

NewToken(u, e) == [state |-> "live", user |-> u, era |-> e]

(* Mutant: the UPDATE is missing.                                          *)
RevokedNever(u) == token

(* revoke_all_refresh_tokens.                                              *)
Revoked(u) ==
  [t \in Token |-> IF t \in LiveTokens(u) THEN [token[t] EXCEPT !.state = "dead"]
                   ELSE token[t]]

(* insert_refresh_token, into the rows the request has left.               *)
Insert(rows, u, e) ==
  \E t \in Token : token[t] = NoRow /\ token' = [rows EXCEPT ![t] = NewToken(u, e)]

-----------------------------------------------------------------------------
(* The start and the end of a request                                      *)

Start(s, t) ==
  /\ txn[s] = Idle
  /\ txn' = [txn EXCEPT ![s] = t]
  /\ UNCHANGED <<database, mailed, history>>

Finish(s) == txn' = [txn EXCEPT ![s] = Idle]

(* Every end that commits nothing: a deadlock victim, an expired token or  *)
(* code, a wrong password, a lost connection.                              *)
RollBack(s) ==
  /\ txn[s] # Idle
  /\ Finish(s)
  /\ UNCHANGED <<database, mailed, history>>

(* find_by_email and find_by_id skip deleted rows; only login looks at     *)
(* is_active.                                                              *)
Found(u) == account[u] = "present"

BeginLogin(s, u) ==
  /\ Found(u)
  /\ u \notin disabled
  /\ Start(s, [op |-> "login", user |-> u, era |-> era[u]])

(* Mutant: the lookup does not ask for revoked_at IS NULL.                 *)
BeginRefreshOfAny(s, t) ==
  /\ token[t].state # "none"
  /\ Found(token[t].user)
  /\ Start(s, [op |-> "refresh", user |-> token[t].user, era |-> token[t].era,
               token |-> t])

BeginRefresh(s, t) ==
  /\ token[t].state = "live"
  /\ Found(token[t].user)
  /\ Start(s, [op |-> "refresh", user |-> token[t].user, era |-> token[t].era,
               token |-> t])

BeginEnd(s, op, u) ==
  /\ Found(u)
  /\ Start(s, [op |-> op, user |-> u])

(* forgot_password, request_otp: a code nobody else holds or is drawing.   *)
BeginSend(s, u, purpose, c) ==
  /\ Found(u)
  /\ code[c] = NoRow
  /\ c \notin mailed
  /\ \A other \in Session : txn[other].op = "send" => txn[other].code # c
  /\ Start(s, [op |-> "send", user |-> u, purpose |-> purpose, code |-> c])

(* Mutant: used codes are found as well.                                   *)
UsableOnceMailed(u, purpose, c) ==
  c \in mailed /\ code[c] # NoRow /\ code[c].user = u

Usable(u, purpose, c) == c \in mailed /\ c \in LiveCodes(u, purpose)

(* verify_otp, reset_password with a code the user was sent.               *)
BeginRedeem(s, op, u, purpose, c) ==
  /\ Found(u)
  /\ op = "reset" => purpose = "password_reset"
  /\ Usable(u, purpose, c)
  /\ Start(s, [op |-> op, user |-> u, code |-> c])

-----------------------------------------------------------------------------
(* AuthService                                                             *)

(* The unique email and username decide on the rows of the commit.         *)
Register(u) ==
  /\ account[u] = "none"
  /\ account' = [account EXCEPT ![u] = "present"]
  /\ Insert(token, u, era[u])
  /\ UNCHANGED <<disabled, code, mailed, history, txn>>

Login(s) ==
  /\ txn[s].op = "login"
  /\ Insert(token, txn[s].user, txn[s].era)
  /\ Finish(s)
  /\ UNCHANGED <<account, disabled, code, mailed, history>>

Refresh(s) ==
  LET r == txn[s] IN
  /\ r.op = "refresh"
  /\ Insert(Revoked(r.user), r.user, r.era)
  /\ exchanged' = [exchanged EXCEPT ![r.token] = @ + 1]
  /\ Finish(s)
  /\ UNCHANGED <<account, disabled, code, mailed, era, redeemed>>

EndSessions(u) ==
  /\ era[u] < MaxEra
  /\ era' = [era EXCEPT ![u] = @ + 1]

(* The user stays signed in with a token of the new era.                   *)
ChangePassword(s) ==
  LET u == txn[s].user IN
  /\ txn[s].op = "change"
  /\ EndSessions(u)
  /\ Insert(Revoked(u), u, era'[u])
  /\ Finish(s)
  /\ UNCHANGED <<account, disabled, code, mailed, exchanged, redeemed>>

Logout(s) ==
  LET u == txn[s].user IN
  /\ txn[s].op = "logout"
  /\ EndSessions(u)
  /\ token' = Revoked(u)
  /\ Finish(s)
  /\ UNCHANGED <<account, disabled, code, mailed, exchanged, redeemed>>

(* UserService.delete_self and AdminService.delete_user: a soft delete,    *)
(* the row keeps its email and its foreign keys hold.                      *)
DeleteAccount(s) ==
  LET u == txn[s].user IN
  /\ txn[s].op = "delete"
  /\ EndSessions(u)
  /\ account' = [account EXCEPT ![u] = "deleted"]
  /\ token' = Revoked(u)
  /\ Finish(s)
  /\ UNCHANGED <<disabled, code, mailed, exchanged, redeemed>>

(* The mail leaves before the commit; send_email swallows its failure.     *)
Mail(s) ==
  /\ txn[s].op = "send"
  /\ mailed' = mailed \cup {txn[s].code}
  /\ UNCHANGED <<database, history, txn>>

(* Mutant: the earlier codes stay.                                         *)
InvalidatedNever(u, purpose) == code

(* invalidate_otps.                                                        *)
Invalidated(u, purpose) ==
  [c \in Code |-> IF c \in LiveCodes(u, purpose)
                  THEN [code[c] EXCEPT !.state = "dead"] ELSE code[c]]

(* ... then insert_otp_token.                                              *)
SendCode(s) ==
  LET r == txn[s] IN
  /\ r.op = "send"
  /\ code' = [Invalidated(r.user, r.purpose) EXCEPT ![r.code] =
                [state |-> "live", user |-> r.user, purpose |-> r.purpose]]
  /\ Finish(s)
  /\ UNCHANGED <<account, disabled, token, mailed, history>>

(* mark_otp_used names the row by its id and does not ask whether it is    *)
(* still unused.                                                           *)
MarkUsed(c) ==
  /\ code' = [code EXCEPT ![c] = [@ EXCEPT !.state = "dead"]]
  /\ redeemed' = [redeemed EXCEPT ![c] = @ + 1]

VerifyCode(s) ==
  /\ txn[s].op = "verify"
  /\ MarkUsed(txn[s].code)
  /\ Finish(s)
  /\ UNCHANGED <<account, disabled, token, mailed, era, exchanged>>

ResetPassword(s) ==
  LET u == txn[s].user IN
  /\ txn[s].op = "reset"
  /\ MarkUsed(txn[s].code)
  /\ EndSessions(u)
  /\ token' = Revoked(u)
  /\ Finish(s)
  /\ UNCHANGED <<account, disabled, mailed, exchanged>>

(* AdminService.update_user clears or sets is_active and may set another   *)
(* password; it revokes no token.                                          *)
SetActive(u) ==
  /\ Found(u)
  /\ disabled' = IF u \in disabled THEN disabled \ {u} ELSE disabled \cup {u}
  /\ UNCHANGED <<account, token, code, mailed, history, txn>>

Begin(s) ==
  \/ \E t \in Token : BeginRefresh(s, t)
  \/ \E u \in User :
       \/ BeginLogin(s, u)
       \/ \E op \in {"change", "logout", "delete"} : BeginEnd(s, op, u)
       \/ \E purpose \in Purpose, c \in Code :
            \/ BeginSend(s, u, purpose, c)
            \/ \E op \in {"verify", "reset"} : BeginRedeem(s, op, u, purpose, c)

Commit(s) ==
  \/ Login(s)
  \/ Refresh(s)
  \/ ChangePassword(s)
  \/ Logout(s)
  \/ DeleteAccount(s)
  \/ SendCode(s)
  \/ VerifyCode(s)
  \/ ResetPassword(s)

Next ==
  \/ \E s \in Session : Begin(s) \/ Mail(s) \/ Commit(s) \/ RollBack(s)
  \/ \E u \in User : Register(u) \/ SetActive(u)

Spec == Init /\ [][Next]_vars

-----------------------------------------------------------------------------
(* Properties                                                              *)

(* Rotation: refresh_tokens looks the token up and later revokes it, so    *)
(* requests that overlap can all exchange one token, but no more of them   *)
(* than are in progress at a time; with one, a token is exchanged once.    *)
RotationBounded ==
  \A t \in Token : exchanged[t] <= Cardinality(Session)

(* Signing out everywhere (a changed or reset password, a logout, a        *)
(* deleted account): of the sessions begun before it, only those survive   *)
(* whose login or refresh was already in progress when it committed, one   *)
(* token for each, however often these are refreshed afterwards.           *)
OldTokens(u) == {t \in LiveTokens(u) : token[t].era < era[u]}

OldSessionsBounded ==
  \A u \in User : Cardinality(OldTokens(u)) <= Cardinality(Session) - 1

(* Sending a code retires the one before it, also when two requests for a  *)
(* code overlap: find_otp_token never has to choose.                       *)
AtMostOneLiveCode ==
  \A u \in User, purpose \in Purpose : Cardinality(LiveCodes(u, purpose)) <= 1

(* A one-time code authorises at most one request of those that overlap    *)
(* each; with one request at a time it is used once.                       *)
CodeUseBounded ==
  \A c \in Code : redeemed[c] <= Cardinality(Session)

=============================================================================
