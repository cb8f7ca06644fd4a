----------------------------- MODULE SessionProofs -----------------------------
(* Theorems about the two sides of a session: AuthTokens, for any set of   *)
(* users, any finite numbers of tokens and of overlapping requests and any *)
(* number of sign-outs, and ApiClient, for any sets of requests and any    *)
(* number of token pairs.                                                  *)
EXTENDS AuthTokens, ApiClient, FiniteSetTheorems, TLAPS

-----------------------------------------------------------------------------
(* The server: AuthTokens                                                  *)

-----------------------------------------------------------------------------
(* Types                                                                   *)

Rows == {NoRow} \cup TokenRow
Codes == {NoRow} \cup CodeRow
Txn == {Idle} \cup LoginTxn \cup RefreshTxn \cup EndTxn \cup SendTxn \cup RedeemTxn

LEMMA TxnShape ==
  ASSUME NEW t \in Txn
  PROVE  /\ t.op = "login" => t \in LoginTxn
         /\ t.op = "refresh" => t \in RefreshTxn
         /\ t.op \in {"change", "logout", "delete"} => t \in EndTxn
         /\ t.op = "send" => t \in SendTxn
         /\ t.op \in {"verify", "reset"} => t \in RedeemTxn
  BY DEF Txn, Idle, LoginTxn, RefreshTxn, EndTxn, SendTxn, RedeemTxn

LEMMA TxnFields ==
  ASSUME NEW t \in Txn
  PROVE  /\ t.op = "login" => t.user \in User /\ t.era \in Era
         /\ t.op = "refresh" => t.user \in User /\ t.era \in Era /\ t.token \in Token
         /\ t.op \in {"change", "logout", "delete"} => t.user \in User
         /\ t.op = "send" => t.user \in User /\ t.purpose \in Purpose /\ t.code \in Code
         /\ t.op \in {"verify", "reset"} => t.user \in User /\ t.code \in Code
  BY TxnShape DEF LoginTxn, RefreshTxn, EndTxn, SendTxn, RedeemTxn

LEMMA RowFacts ==
  /\ NoRow.state = "none"
  /\ \A x \in Rows : x.state \in {"none", "live", "dead"} /\ (x = NoRow <=> x.state = "none")
  /\ \A x \in Codes : x.state \in {"none", "live", "dead"} /\ (x = NoRow <=> x.state = "none")
  /\ \A x \in Rows : x # NoRow => x \in TokenRow /\ x.user \in User /\ x.era \in Era
  /\ \A x \in Codes : x # NoRow => x \in CodeRow /\ x.user \in User /\ x.purpose \in Purpose
  BY DEF Rows, Codes, NoRow, TokenRow, CodeRow, Live

LEMMA EraFacts == Era \subseteq Nat /\ 0 \in Era /\ \A e \in Era : e < MaxEra => e + 1 \in Era
  BY BoundAssumption DEF Era

(* revoke_all_refresh_tokens: the user's live rows die, the others stay.   *)
LEMMA RevokedFacts ==
  ASSUME TypeOK, NEW u
  PROVE  /\ Revoked(u) \in [Token -> Rows]
         /\ \A t \in Token :
              /\ t \in LiveTokens(u) => Revoked(u)[t].state = "dead"
              /\ t \notin LiveTokens(u) => Revoked(u)[t] = token[t]
              /\ token[t] # NoRow => Revoked(u)[t].user = token[t].user
<1>1. token \in [Token -> Rows]
  BY DEF TypeOK, Rows
<1>2. ASSUME NEW t \in Token, t \in LiveTokens(u)
      PROVE  /\ [token[t] EXCEPT !.state = "dead"] \in TokenRow
             /\ [token[t] EXCEPT !.state = "dead"].state = "dead"
             /\ [token[t] EXCEPT !.state = "dead"].user = token[t].user
  <2>1. token[t] \in TokenRow
    BY <1>1, <1>2, RowFacts DEF LiveTokens
  <2> QED BY <2>1 DEF TokenRow, Live
<1> QED BY <1>1, <1>2 DEF Revoked, Rows

(* insert_refresh_token: one new row.                                      *)
LEMMA InsertFacts ==
  ASSUME TypeOK, NEW u \in User, NEW e \in Era, NEW rows \in [Token -> Rows],
         Insert(rows, u, e)
  PROVE  /\ token' \in [Token -> Rows]
         /\ \E t \in Token : /\ token[t] = NoRow
                             /\ token'[t].state = "live" /\ token'[t].user = u
                             /\ token'[t].era = e
                             /\ \A x \in Token : x # t => token'[x] = rows[x]
<1>1. PICK t \in Token : token[t] = NoRow /\ token' = [rows EXCEPT ![t] = NewToken(u, e)]
  BY DEF Insert
<1>2. NewToken(u, e) \in TokenRow
  BY DEF NewToken, TokenRow, Live
<1> QED BY <1>1, <1>2 DEF Rows, NewToken

(* What a request holds when it has begun.                                 *)
Sound(t) ==
  /\ t.op = "login" => t.era = era[t.user]
  /\ t.op = "refresh" => /\ token[t.token].state = "live"
                         /\ token[t.token].user = t.user
                         /\ token[t.token].era = t.era
  /\ t.op = "send" => /\ code[t.code] = NoRow
                      /\ \A o \in Session : txn[o].op = "send" => txn[o].code # t.code
  /\ t.op \in {"verify", "reset"} => code[t.code].state = "live"

LEMMA BeginFacts ==
  ASSUME TypeOK, NEW s \in Session, Begin(s)
  PROVE  \E t \in Txn : Start(s, t) /\ Sound(t)
<1>0. token \in [Token -> Rows] /\ code \in [Code -> Codes] /\ era \in [User -> Era]
  BY DEF TypeOK, Rows, Codes
<1>1. ASSUME NEW k \in Token, BeginRefresh(s, k) PROVE \E t \in Txn : Start(s, t) /\ Sound(t)
  <2> DEFINE t == [op |-> "refresh", user |-> token[k].user, era |-> token[k].era, token |-> k]
  <2>1. token[k].user \in User /\ token[k].era \in Era
    BY <1>0, <1>1, RowFacts DEF BeginRefresh
  <2>2. t \in Txn
    BY <2>1 DEF Txn, RefreshTxn
  <2>3. Start(s, t) /\ Sound(t)
    BY <1>1 DEF BeginRefresh, Sound
  <2> QED BY <2>2, <2>3
<1>2. ASSUME NEW u \in User, BeginLogin(s, u) PROVE \E t \in Txn : Start(s, t) /\ Sound(t)
  <2> DEFINE t == [op |-> "login", user |-> u, era |-> era[u]]
  <2>1. t \in Txn /\ Start(s, t) /\ Sound(t)
    BY <1>0, <1>2 DEF BeginLogin, Sound, Txn, LoginTxn
  <2> QED BY <2>1
<1>3. ASSUME NEW u \in User, NEW op \in {"change", "logout", "delete"}, BeginEnd(s, op, u)
      PROVE  \E t \in Txn : Start(s, t) /\ Sound(t)
  <2> DEFINE t == [op |-> op, user |-> u]
  <2>1. t \in Txn /\ Start(s, t) /\ Sound(t)
    BY <1>3 DEF BeginEnd, Sound, Txn, EndTxn
  <2> QED BY <2>1
<1>4. ASSUME NEW u \in User, NEW p \in Purpose, NEW c \in Code, BeginSend(s, u, p, c)
      PROVE  \E t \in Txn : Start(s, t) /\ Sound(t)
  <2> DEFINE t == [op |-> "send", user |-> u, purpose |-> p, code |-> c]
  <2>1. t \in Txn /\ Start(s, t) /\ Sound(t)
    BY <1>4 DEF BeginSend, Sound, Txn, SendTxn
  <2> QED BY <2>1
<1>5. ASSUME NEW u \in User, NEW p \in Purpose, NEW c \in Code, NEW op \in {"verify", "reset"},
             BeginRedeem(s, op, u, p, c)
      PROVE  \E t \in Txn : Start(s, t) /\ Sound(t)
  <2> DEFINE t == [op |-> op, user |-> u, code |-> c]
  <2>1. t \in Txn /\ Start(s, t) /\ Sound(t)
    BY <1>5 DEF BeginRedeem, Usable, LiveCodes, Sound, Txn, RedeemTxn
  <2> QED BY <2>1
<1> QED BY <1>1, <1>2, <1>3, <1>4, <1>5 DEF Begin

LEMMA InitTypes == Init => TypeOK
  BY EraFacts DEF Init, TypeOK

(* A code's row dies; another's is added.                                  *)
LEMMA CodeFacts ==
  ASSUME TypeOK, NEW s \in Session
  PROVE  /\ SendCode(s) =>
              /\ code' \in [Code -> Codes]
              /\ code'[txn[s].code].state = "live"
              /\ code'[txn[s].code].user = txn[s].user
              /\ code'[txn[s].code].purpose = txn[s].purpose
              /\ \A c \in Code : c # txn[s].code =>
                   IF c \in LiveCodes(txn[s].user, txn[s].purpose)
                   THEN code'[c].state = "dead" ELSE code'[c] = code[c]
         /\ \A c \in Code : code[c] # NoRow /\ MarkUsed(c) =>
              /\ code' \in [Code -> Codes]
              /\ code'[c].state = "dead"
              /\ \A d \in Code : d # c => code'[d] = code[d]
<1>1. code \in [Code -> Codes] /\ txn[s] \in Txn
  BY DEF TypeOK, Codes, Txn
<1>2. \A c \in Code : code[c] # NoRow =>
        /\ [code[c] EXCEPT !.state = "dead"] \in CodeRow
        /\ [code[c] EXCEPT !.state = "dead"].state = "dead"
  BY <1>1, RowFacts DEF CodeRow, Live
<1>3. ASSUME SendCode(s)
      PROVE  /\ code' \in [Code -> Codes]
             /\ code'[txn[s].code].state = "live"
             /\ code'[txn[s].code].user = txn[s].user
             /\ code'[txn[s].code].purpose = txn[s].purpose
             /\ \A c \in Code : c # txn[s].code =>
                  IF c \in LiveCodes(txn[s].user, txn[s].purpose)
                  THEN code'[c].state = "dead" ELSE code'[c] = code[c]
  <2> DEFINE r == txn[s]
             new == [state |-> "live", user |-> r.user, purpose |-> r.purpose]
             old == Invalidated(r.user, r.purpose)
  <2>1. r.code \in Code /\ r.user \in User /\ r.purpose \in Purpose
    BY <1>1, <1>3, TxnFields DEF SendCode
  <2>2. new \in CodeRow /\ new.state = "live" /\ new.user = r.user /\ new.purpose = r.purpose
    BY <2>1 DEF CodeRow, Live
  <2>3. \A c \in LiveCodes(r.user, r.purpose) : c \in Code /\ code[c] # NoRow
    BY RowFacts DEF LiveCodes
  <2>4. old \in [Code -> Codes]
    BY <1>1, <1>2, <2>3 DEF Invalidated, Codes
  <2>5. \A c \in Code : IF c \in LiveCodes(r.user, r.purpose)
                        THEN old[c].state = "dead" ELSE old[c] = code[c]
    BY <1>2, <2>3 DEF Invalidated
  <2>6. code' = [old EXCEPT ![r.code] = new]
    BY <1>3 DEF SendCode
  <2> HIDE DEF r, new, old
  <2>7. code' \in [Code -> Codes] /\ code'[r.code] = new
        /\ \A c \in Code : c # r.code => code'[c] = old[c]
    BY <2>1, <2>2, <2>4, <2>6 DEF Codes
  <2> QED BY <2>2, <2>5, <2>7 DEF r
<1>4. ASSUME NEW c \in Code, code[c] # NoRow, MarkUsed(c)
      PROVE  /\ code' \in [Code -> Codes]
             /\ code'[c].state = "dead"
             /\ \A d \in Code : d # c => code'[d] = code[d]
  BY <1>1, <1>2, <1>4 DEF MarkUsed, Codes
<1> QED BY <1>3, <1>4

(* A request that redeems or exchanges something holds its row.            *)
HoldsRow ==
  \A s \in Session :
    /\ txn[s].op = "refresh" => /\ token[txn[s].token] # NoRow
                                /\ token[txn[s].token].user = txn[s].user
    /\ txn[s].op \in {"verify", "reset"} => code[txn[s].code] # NoRow

LEMMA StepTypes == TypeOK /\ HoldsRow /\ [Next]_vars => TypeOK'
<1> SUFFICES ASSUME TypeOK, HoldsRow, [Next]_vars PROVE TypeOK'
  OBVIOUS
<1>0. /\ txn \in [Session -> Txn] /\ token \in [Token -> Rows] /\ code \in [Code -> Codes]
      /\ era \in [User -> Era] /\ exchanged \in [Token -> Nat] /\ redeemed \in [Code -> Nat]
  BY DEF TypeOK, Txn, Rows, Codes
<1>1. ASSUME NEW s \in Session, Finish(s) PROVE txn' \in [Session -> Txn]
  BY <1>0, <1>1 DEF Finish, Txn
<1>2. ASSUME NEW u \in User, EndSessions(u) PROVE era' \in [User -> Era]
  BY <1>0, <1>2, EraFacts DEF EndSessions
<1>3. ASSUME NEW u PROVE Revoked(u) \in [Token -> Rows]
  BY RevokedFacts
<1>4. ASSUME NEW s \in Session, Begin(s) PROVE TypeOK'
  <2>1. PICK t \in Txn : Start(s, t)
    BY <1>4, BeginFacts
  <2> QED BY <1>0, <2>1 DEF Start, database, history, TypeOK, Txn
<1>5. ASSUME NEW s \in Session, Mail(s) PROVE TypeOK'
  <2>1. txn[s].code \in Code
    BY <1>0, <1>5, TxnFields DEF Mail
  <2> QED BY <1>5, <2>1 DEF Mail, database, history, TypeOK
<1>6. ASSUME NEW s \in Session, RollBack(s) PROVE TypeOK'
  BY <1>1, <1>6 DEF RollBack, database, history, TypeOK, Txn
<1>7. ASSUME NEW u \in User, Register(u) PROVE TypeOK'
  <2>1. era[u] \in Era
    BY <1>0
  <2>2. token' \in [Token -> Rows]
    BY <1>0, <1>7, <2>1, InsertFacts DEF Register
  <2> QED BY <1>7, <2>2 DEF Register, history, TypeOK, Rows
<1>8. ASSUME NEW u \in User, SetActive(u) PROVE TypeOK'
  BY <1>8 DEF SetActive, history, TypeOK
<1>9. CASE UNCHANGED vars
  BY <1>9 DEF vars, database, history, TypeOK
<1>10. ASSUME NEW s \in Session, Login(s) PROVE TypeOK'
  <2>1. txn[s].user \in User /\ txn[s].era \in Era
    BY <1>0, <1>10, TxnFields DEF Login
  <2>2. token' \in [Token -> Rows]
    BY <1>0, <1>10, <2>1, InsertFacts DEF Login
  <2> QED BY <1>1, <1>10, <2>2 DEF Login, history, TypeOK, Txn, Rows
<1>11. ASSUME NEW s \in Session, Refresh(s) PROVE TypeOK'
  <2>1. txn[s].user \in User /\ txn[s].era \in Era /\ txn[s].token \in Token
    BY <1>0, <1>11, TxnFields DEF Refresh
  <2>2. token' \in [Token -> Rows]
    BY <1>3, <1>11, <2>1, InsertFacts DEF Refresh
  <2>3. exchanged' \in [Token -> Nat]
    BY <1>0, <1>11, <2>1 DEF Refresh
  <2> QED BY <1>1, <1>11, <2>2, <2>3 DEF Refresh, TypeOK, Txn, Rows
<1>12. ASSUME NEW s \in Session, ChangePassword(s) PROVE TypeOK'
  <2>1. txn[s].user \in User
    BY <1>0, <1>12, TxnFields DEF ChangePassword
  <2>2. era' \in [User -> Era]
    BY <1>2, <1>12, <2>1 DEF ChangePassword
  <2>3. PICK e \in Era : Insert(Revoked(txn[s].user), txn[s].user, e)
    BY <1>12, <2>1, <2>2 DEF ChangePassword
  <2>4. token' \in [Token -> Rows]
    BY <1>3, <2>1, <2>3, InsertFacts
  <2> QED BY <1>1, <1>12, <2>2, <2>4 DEF ChangePassword, TypeOK, Txn, Rows
<1>13. ASSUME NEW s \in Session, Logout(s) \/ DeleteAccount(s) PROVE TypeOK'
  <2>1. txn[s].user \in User
    BY <1>0, <1>13, TxnFields DEF Logout, DeleteAccount
  <2>2. era' \in [User -> Era]
    BY <1>2, <1>13, <2>1 DEF Logout, DeleteAccount
  <2>3. token' \in [Token -> Rows]
    BY <1>3, <1>13 DEF Logout, DeleteAccount
  <2> QED BY <1>1, <1>13, <2>2, <2>3 DEF Logout, DeleteAccount, TypeOK, Txn, Rows
<1>14. ASSUME NEW s \in Session, SendCode(s) PROVE TypeOK'
  <2>1. code' \in [Code -> Codes]
    BY <1>14, CodeFacts
  <2> QED BY <1>1, <1>14, <2>1 DEF SendCode, history, TypeOK, Txn, Codes
<1>15. ASSUME NEW s \in Session, VerifyCode(s) \/ ResetPassword(s) PROVE TypeOK'
  <2>1. txn[s].op \in {"verify", "reset"} /\ MarkUsed(txn[s].code)
    BY <1>15 DEF VerifyCode, ResetPassword
  <2>2. txn[s].code \in Code /\ txn[s].user \in User /\ code[txn[s].code] # NoRow
    BY <1>0, <2>1, TxnFields DEF HoldsRow
  <2>3. code' \in [Code -> Codes]
    BY <2>1, <2>2, CodeFacts
  <2>4. redeemed' \in [Code -> Nat]
    BY <1>0, <2>1, <2>2 DEF MarkUsed
  <2>5. era' \in [User -> Era]
    BY <1>0, <1>2, <1>15, <2>2 DEF VerifyCode, ResetPassword
  <2>6. token' \in [Token -> Rows]
    BY <1>0, <1>3, <1>15 DEF VerifyCode, ResetPassword
  <2> QED BY <1>1, <1>15, <2>3, <2>4, <2>5, <2>6
      DEF VerifyCode, ResetPassword, TypeOK, Txn, Rows, Codes
<1> QED BY <1>4, <1>5, <1>6, <1>7, <1>8, <1>9, <1>10, <1>11, <1>12, <1>13, <1>14, <1>15
    DEF Next, Commit

-----------------------------------------------------------------------------
(* What a step can do to each table                                        *)

LEMMA TxnEffect ==
  ASSUME TypeOK, [Next]_vars
  PROVE  \/ txn' = txn
         \/ \E s \in Session, t \in Txn : Start(s, t) /\ Sound(t)
         \/ \E s \in Session : txn[s] # Idle /\ Finish(s)
<1>1. ASSUME NEW s \in Session, Commit(s) PROVE txn[s] # Idle /\ Finish(s)
  BY <1>1 DEF Commit, Login, Refresh, ChangePassword, Logout, DeleteAccount, SendCode,
              VerifyCode, ResetPassword, Idle
<1> QED BY <1>1, BeginFacts DEF Next, Mail, RollBack, Register, SetActive, vars

LEMMA TokenEffect ==
  ASSUME TypeOK, [Next]_vars
  PROVE  \/ token' = token
         \/ \E u \in User : token' = Revoked(u)
         \/ \E u \in User, e \in Era : Insert(token, u, e) \/ Insert(Revoked(u), u, e)
<1>0. txn \in [Session -> Txn] /\ era \in [User -> Era]
  BY DEF TypeOK, Txn
<1>1. ASSUME NEW s \in Session, Login(s) \/ Refresh(s)
      PROVE  \E u \in User, e \in Era : Insert(token, u, e) \/ Insert(Revoked(u), u, e)
  BY <1>0, <1>1, TxnFields DEF Login, Refresh
<1>2. ASSUME NEW s \in Session, ChangePassword(s)
      PROVE  \E u \in User, e \in Era : Insert(Revoked(u), u, e)
  <2>1. txn[s].user \in User
    BY <1>0, <1>2, TxnFields DEF ChangePassword
  <2>2. era'[txn[s].user] \in Era
    BY <1>0, <1>2, <2>1, EraFacts DEF ChangePassword, EndSessions
  <2> QED BY <1>2, <2>1, <2>2 DEF ChangePassword
<1>3. ASSUME NEW s \in Session, Logout(s) \/ DeleteAccount(s) \/ ResetPassword(s)
      PROVE  \E u \in User : token' = Revoked(u)
  BY <1>0, <1>3, TxnFields DEF Logout, DeleteAccount, ResetPassword
<1>4. ASSUME NEW u \in User, Register(u) PROVE \E e \in Era : Insert(token, u, e)
  BY <1>0, <1>4 DEF Register
<1>5. ASSUME NEW s \in Session, Begin(s) PROVE token' = token
  BY <1>5, BeginFacts DEF Start, database
<1> QED BY <1>1, <1>2, <1>3, <1>4, <1>5
    DEF Next, Commit, Mail, RollBack, SendCode, VerifyCode, SetActive, vars, database

LEMMA CodeEffect ==
  ASSUME TypeOK, [Next]_vars
  PROVE  \/ UNCHANGED <<code, redeemed>>
         \/ \E s \in Session : SendCode(s) /\ redeemed' = redeemed
         \/ \E s \in Session : /\ txn[s].op \in {"verify", "reset"}
                               /\ MarkUsed(txn[s].code) /\ Finish(s)
<1>1. ASSUME NEW s \in Session, Begin(s) PROVE UNCHANGED <<code, redeemed>>
  BY <1>1, BeginFacts DEF Start, database, history
<1> QED BY <1>1
    DEF Next, Commit, Mail, RollBack, SendCode, VerifyCode, ResetPassword, SetActive, Register,
        Login, Refresh, ChangePassword, Logout, DeleteAccount, vars, database, history

(* A refresh token's row is never removed, given to another or revived.    *)
LEMMA TokensStay ==
  ASSUME TypeOK, [Next]_vars, NEW t \in Token, token[t] # NoRow
  PROVE  /\ token'[t] # NoRow /\ token'[t].user = token[t].user
         /\ token[t].state = "dead" => token'[t].state = "dead"
<1>0. token \in [Token -> Rows]
  BY DEF TypeOK, Rows
<1>1. ASSUME NEW u
      PROVE  /\ Revoked(u)[t] # NoRow /\ Revoked(u)[t].user = token[t].user
             /\ token[t].state = "dead" => Revoked(u)[t].state = "dead"
  BY RevokedFacts, RowFacts
<1>2. ASSUME NEW u \in User, NEW e \in Era, Insert(token, u, e) \/ Insert(Revoked(u), u, e)
      PROVE  token'[t] = token[t] \/ token'[t] = Revoked(u)[t]
  <2>1. CASE Insert(token, u, e)
    BY <1>0, <2>1, InsertFacts
  <2>2. CASE Insert(Revoked(u), u, e)
    <3>1. Revoked(u) \in [Token -> Rows]
      BY RevokedFacts
    <3> QED BY <2>2, <3>1, InsertFacts
  <2> QED BY <1>2, <2>1, <2>2
<1> QED BY <1>1, <1>2, TokenEffect

-----------------------------------------------------------------------------
(* One live code                                                           *)

(* Requests that send a code have each drawn another, not yet stored.      *)
SendersFresh ==
  \A s \in Session : txn[s].op = "send" =>
    /\ code[txn[s].code] = NoRow
    /\ \A o \in Session : txn[o].op = "send" /\ txn[o].code = txn[s].code => o = s

OneLive ==
  \A c, d \in Code :
    /\ code[c].state = "live" /\ code[d].state = "live"
    /\ code[c].user = code[d].user /\ code[c].purpose = code[d].purpose
    => c = d

RowInv == TypeOK /\ HoldsRow /\ SendersFresh

(* A code's row is never removed, and a used or retired one never revived. *)
LEMMA CodesStay ==
  ASSUME RowInv, [Next]_vars, NEW c \in Code, code[c] # NoRow
  PROVE  code'[c] # NoRow /\ (code[c].state = "dead" => code'[c].state = "dead")
<1>0. code \in [Code -> Codes] /\ txn \in [Session -> Txn] /\ TypeOK
  BY DEF RowInv, TypeOK, Codes, Txn
<1>1. ASSUME NEW s \in Session, SendCode(s)
      PROVE  code'[c] # NoRow /\ (code[c].state = "dead" => code'[c].state = "dead")
  <2>1. c # txn[s].code
    BY <1>1 DEF RowInv, SendersFresh, SendCode
  <2> QED BY <1>0, <1>1, <2>1, CodeFacts, RowFacts
<1>2. ASSUME NEW s \in Session, txn[s].op \in {"verify", "reset"}, MarkUsed(txn[s].code)
      PROVE  code'[c] # NoRow /\ (code[c].state = "dead" => code'[c].state = "dead")
  <2>1. txn[s].code \in Code /\ code[txn[s].code] # NoRow
    BY <1>0, <1>2, TxnFields DEF RowInv, HoldsRow
  <2> QED BY <1>0, <1>2, <2>1, CodeFacts, RowFacts
<1> QED BY <1>0, <1>1, <1>2, CodeEffect

LEMMA StepRowInv == RowInv /\ [Next]_vars => RowInv'
<1> SUFFICES ASSUME RowInv, [Next]_vars PROVE RowInv'
  OBVIOUS
<1>0. TypeOK /\ txn \in [Session -> Txn]
  BY DEF RowInv, TypeOK, Txn
<1>1. TypeOK'
  BY StepTypes DEF RowInv
<1>2. ASSUME NEW q \in Session, txn'[q] = txn[q]
      PROVE  /\ txn[q].op = "refresh" => /\ token'[txn[q].token] # NoRow
                                         /\ token'[txn[q].token].user = txn[q].user
             /\ txn[q].op \in {"verify", "reset"} => code'[txn[q].code] # NoRow
  BY <1>0, TokensStay, CodesStay, TxnFields DEF RowInv, HoldsRow
<1>3. ASSUME NEW s \in Session, NEW t \in Txn, Start(s, t), Sound(t) PROVE HoldsRow' /\ SendersFresh'
  <2>1. txn' = [txn EXCEPT ![s] = t] /\ UNCHANGED <<token, code>>
    BY <1>3 DEF Start, database
  <2>2. txn'[s] = t /\ \A q \in Session : q # s => txn'[q] = txn[q]
    BY <1>0, <2>1
  <2>3. HoldsRow'
    <3>1. t.op = "refresh" => token[t.token] # NoRow /\ token[t.token].user = t.user
      BY <1>3, RowFacts DEF Sound
    <3>2. t.op \in {"verify", "reset"} => code[t.code] # NoRow
      BY <1>3, RowFacts DEF Sound
    <3> QED BY <2>1, <2>2, <3>1, <3>2 DEF RowInv, HoldsRow
  <2>4. SendersFresh'
    BY <1>3, <2>1, <2>2 DEF RowInv, SendersFresh, Sound
  <2> QED BY <2>3, <2>4
<1>4. ASSUME txn' = txn \/ \E s \in Session : txn[s] # Idle /\ Finish(s)
      PROVE  HoldsRow' /\ SendersFresh'
  <2>1. \A q \in Session : txn'[q] = txn[q] \/ txn'[q] = Idle
    BY <1>0, <1>4 DEF Finish
  <2>2. HoldsRow'
    BY <1>2, <2>1 DEF HoldsRow, Idle
  <2>3. ASSUME NEW q \in Session, txn'[q].op = "send"
        PROVE  txn'[q] = txn[q] /\ code'[txn[q].code] = NoRow
    <3>1. txn'[q] = txn[q]
      BY <2>1, <2>3 DEF Idle
    <3>2. txn[q].code \in Code /\ code[txn[q].code] = NoRow
      BY <1>0, <2>3, <3>1, TxnFields DEF RowInv, SendersFresh
    <3>3. CASE UNCHANGED <<code, redeemed>>
      BY <3>1, <3>2, <3>3
    <3>4. ASSUME NEW s \in Session, SendCode(s) PROVE code'[txn[q].code] = NoRow
      <4>1. s # q
        BY <1>0, <2>3, <3>1, <3>4 DEF SendCode, Finish, Idle
      <4>2. txn[s].code # txn[q].code
        BY <2>3, <3>1, <3>4, <4>1 DEF RowInv, SendersFresh, SendCode
      <4>3. txn[q].code \notin LiveCodes(txn[s].user, txn[s].purpose)
        BY <3>2, RowFacts DEF LiveCodes
      <4> QED BY <1>0, <3>2, <3>4, <4>2, <4>3, CodeFacts
    <3>5. ASSUME NEW s \in Session, txn[s].op \in {"verify", "reset"}, MarkUsed(txn[s].code)
          PROVE  code'[txn[q].code] = NoRow
      <4>1. txn[s].code \in Code /\ code[txn[s].code] # NoRow
        BY <1>0, <3>5, TxnFields DEF RowInv, HoldsRow
      <4> QED BY <1>0, <3>2, <3>5, <4>1, CodeFacts
    <3> QED BY <1>0, <3>1, <3>3, <3>4, <3>5, CodeEffect
  <2>4. SendersFresh'
    BY <2>3 DEF RowInv, SendersFresh
  <2> QED BY <2>2, <2>4
<1>5. HoldsRow' /\ SendersFresh'
  BY <1>0, <1>3, <1>4, TxnEffect
<1> QED BY <1>1, <1>5 DEF RowInv

LEMMA StepOneLive == RowInv /\ OneLive /\ [Next]_vars => OneLive'
<1> SUFFICES ASSUME RowInv, OneLive, [Next]_vars PROVE OneLive'
  OBVIOUS
<1>0. TypeOK /\ txn \in [Session -> Txn] /\ code \in [Code -> Codes]
  BY DEF RowInv, TypeOK, Txn, Codes
<1>1. ASSUME NEW s \in Session, SendCode(s) PROVE OneLive'
  <2> DEFINE r == txn[s]
  <2>1. /\ r.code \in Code /\ code'[r.code].user = r.user /\ code'[r.code].purpose = r.purpose
        /\ \A c \in Code : c # r.code =>
             IF c \in LiveCodes(r.user, r.purpose) THEN code'[c].state = "dead"
             ELSE code'[c] = code[c]
    BY <1>0, <1>1, CodeFacts, TxnFields DEF SendCode
  <2>2. \A c \in Code : c # r.code /\ code'[c].state = "live" =>
          /\ code'[c] = code[c]
          /\ ~ (code[c].user = r.user /\ code[c].purpose = r.purpose)
    BY <2>1 DEF LiveCodes
  <2> HIDE DEF r
  <2> QED BY <2>1, <2>2 DEF OneLive
<1>2. ASSUME NEW s \in Session, txn[s].op \in {"verify", "reset"}, MarkUsed(txn[s].code)
      PROVE  OneLive'
  <2>1. txn[s].code \in Code /\ code[txn[s].code] # NoRow
    BY <1>0, <1>2, TxnFields DEF RowInv, HoldsRow
  <2>2. \A c \in Code : code'[c].state = "live" => code'[c] = code[c]
    BY <1>0, <1>2, <2>1, CodeFacts
  <2> QED BY <2>2 DEF OneLive
<1>3. CASE UNCHANGED <<code, redeemed>>
  BY <1>3 DEF OneLive
<1> QED BY <1>0, <1>1, <1>2, <1>3, CodeEffect

LEMMA InitRowInv == Init => RowInv /\ OneLive
<1> SUFFICES ASSUME Init PROVE RowInv /\ OneLive
  OBVIOUS
<1>1. \A s \in Session : txn[s].op = "idle"
  BY DEF Init, Idle
<1>2. \A c \in Code : code[c].state = "none"
  BY DEF Init, NoRow
<1> QED BY <1>1, <1>2, InitTypes DEF RowInv, HoldsRow, SendersFresh, OneLive

(* Every row and every request in progress keeps its type.                 *)
THEOREM TypeCorrect == Spec => []TypeOK
<1>1. RowInv => TypeOK
  BY DEF RowInv
<1> QED BY <1>1, InitRowInv, StepRowInv, PTL DEF Spec

(* However many requests for a code overlap, a user has one that works.    *)
THEOREM OneCodeWorks == Spec => []AtMostOneLiveCode
<1>1. ASSUME OneLive PROVE AtMostOneLiveCode
  <2> SUFFICES ASSUME NEW u \in User, NEW p \in Purpose
               PROVE  Cardinality(LiveCodes(u, p)) <= 1
    BY DEF AtMostOneLiveCode
  <2>1. CASE LiveCodes(u, p) = {}
    BY <2>1, FS_EmptySet
  <2>2. CASE LiveCodes(u, p) # {}
    <3>1. PICK c \in LiveCodes(u, p) : TRUE
      BY <2>2
    <3>2. LiveCodes(u, p) = {c}
      BY <1>1, <3>1 DEF OneLive, LiveCodes
    <3>3. Cardinality({c}) = 1
      BY FS_Singleton
    <3> QED BY <3>2, <3>3
  <2> QED BY <2>1, <2>2
<1>2. RowInv /\ OneLive /\ [Next]_vars => (RowInv /\ OneLive)'
  BY StepRowInv, StepOneLive
<1> QED BY <1>1, <1>2, InitRowInv, PTL DEF Spec

-----------------------------------------------------------------------------
(* What is used once, or once for each request that overlaps               *)

LEMMA SessionCount ==
  /\ Cardinality(Session) \in Nat
  /\ \A A \in SUBSET Session : /\ IsFiniteSet(A) /\ Cardinality(A) \in Nat
                               /\ Cardinality(A) <= Cardinality(Session)
  BY SessionAssumption, FS_CardinalityType, FS_Subset

(* n uses so far, and A the requests in progress that will be another:     *)
(* fewer requests, one of them turned into a use, or an unused thing.      *)
LEMMA UseCounted ==
  ASSUME NEW n \in Nat, NEW m \in Nat, NEW A \in SUBSET Session, NEW B \in SUBSET Session,
         n + Cardinality(A) <= Cardinality(Session),
         \/ m = n /\ B \subseteq A
         \/ m = n + 1 /\ \E s \in A : B = A \ {s}
         \/ m = 0
  PROVE  m + Cardinality(B) <= Cardinality(Session)
<1>1. /\ Cardinality(Session) \in Nat /\ Cardinality(A) \in Nat /\ Cardinality(B) \in Nat
      /\ Cardinality(B) <= Cardinality(Session) /\ IsFiniteSet(A)
  BY SessionCount
<1>2. B \subseteq A => Cardinality(B) <= Cardinality(A)
  BY <1>1, FS_Subset
<1>3. (\E s \in A : B = A \ {s}) => Cardinality(B) = Cardinality(A) - 1
  BY <1>1, FS_RemoveElement
<1> QED BY <1>1, <1>2, <1>3

(* A request's end, or another's.                                          *)
LEMMA FinishFacts ==
  ASSUME TypeOK, NEW s \in Session, Finish(s)
  PROVE  txn'[s].op = "idle" /\ \A q \in Session : q # s => txn'[q] = txn[q]
  BY DEF Finish, TypeOK, Idle

Exchanging(t) == {s \in Session : txn[s].op = "refresh" /\ txn[s].token = t}

RotationInv ==
  \A t \in Token : /\ token[t].state # "dead" => exchanged[t] = 0
                   /\ exchanged[t] + Cardinality(Exchanging(t)) <= Cardinality(Session)

(* Refresh revokes the token it exchanges.                                 *)
LEMMA RefreshFacts ==
  ASSUME RowInv, NEW s \in Session, Refresh(s)
  PROVE  /\ txn[s].user \in User /\ txn[s].token \in Token /\ txn[s].era \in Era
         /\ token'[txn[s].token].state = "dead"
<1>0. TypeOK /\ token \in [Token -> Rows] /\ txn[s] \in Txn
  BY DEF RowInv, TypeOK, Rows, Txn
<1>1. txn[s].user \in User /\ txn[s].token \in Token /\ txn[s].era \in Era
  BY <1>0, TxnFields DEF Refresh
<1> DEFINE k == txn[s].token
           rows == Revoked(txn[s].user)
<1>2. token[k] # NoRow /\ token[k].user = txn[s].user
  BY DEF Refresh, RowInv, HoldsRow
<1>3. rows \in [Token -> Rows] /\ rows[k].state = "dead"
  <2>1. k \in LiveTokens(txn[s].user) \/ token[k].state = "dead"
    BY <1>0, <1>1, <1>2, RowFacts DEF LiveTokens
  <2>2. k \notin LiveTokens(txn[s].user) => rows[k] = token[k]
    BY <1>0, <1>1, RevokedFacts
  <2> QED BY <1>0, <1>1, <2>1, <2>2, RevokedFacts
<1>4. Insert(rows, txn[s].user, txn[s].era)
  BY DEF Refresh
<1>5. token'[k] = rows[k]
  <2> HIDE DEF rows
  <2> QED BY <1>0, <1>1, <1>2, <1>3, <1>4, InsertFacts
<1> QED BY <1>1, <1>3, <1>5

LEMMA StepRotationInv == RowInv /\ RotationInv /\ [Next]_vars => RotationInv'
<1> SUFFICES ASSUME RowInv, RotationInv, [Next]_vars, NEW t \in Token
             PROVE  /\ token'[t].state # "dead" => exchanged'[t] = 0
                    /\ exchanged'[t] + Cardinality(Exchanging(t)') <= Cardinality(Session)
  BY DEF RotationInv
<1> DEFINE Goal == /\ token'[t].state # "dead" => exchanged'[t] = 0
                   /\ exchanged'[t] + Cardinality(Exchanging(t)') <= Cardinality(Session)
<1>0. /\ TypeOK /\ txn \in [Session -> Txn] /\ token \in [Token -> Rows]
      /\ exchanged \in [Token -> Nat] /\ exchanged[t] \in Nat
      /\ Exchanging(t) \in SUBSET Session /\ Exchanging(t)' \in SUBSET Session
  BY DEF RowInv, TypeOK, Txn, Rows, Exchanging
<1>1. /\ token[t].state # "dead" => exchanged[t] = 0
      /\ exchanged[t] + Cardinality(Exchanging(t)) <= Cardinality(Session)
  BY DEF RotationInv
<1>2. token'[t].state # "dead" => token[t].state # "dead"
  BY <1>0, TokensStay, RowFacts
<1>3. ASSUME NEW s \in Session, Refresh(s) PROVE Goal
  <2>1. /\ txn[s].op = "refresh" /\ Finish(s) /\ txn[s].token \in Token
        /\ exchanged' = [exchanged EXCEPT ![txn[s].token] = @ + 1]
    BY <1>3, RefreshFacts DEF Refresh
  <2>2. Exchanging(t)' = Exchanging(t) \ {s}
    BY <1>0, <2>1, FinishFacts DEF Exchanging
  <2>3. CASE t = txn[s].token
    <3>1. exchanged'[t] = exchanged[t] + 1 /\ s \in Exchanging(t)
      BY <1>0, <2>1, <2>3 DEF Exchanging
    <3>2. exchanged'[t] + Cardinality(Exchanging(t)') <= Cardinality(Session)
      BY <1>0, <1>1, <2>2, <3>1, UseCounted
    <3> QED BY <1>3, <2>3, <3>2, RefreshFacts
  <2>4. CASE t # txn[s].token
    <3>1. exchanged'[t] = exchanged[t]
      BY <1>0, <2>1, <2>4
    <3> QED BY <1>0, <1>1, <1>2, <2>2, <3>1, UseCounted
  <2> QED BY <2>3, <2>4
<1>4. ASSUME NEW s \in Session, NEW r \in Txn, Start(s, r), Sound(r) PROVE Goal
  <2>1. UNCHANGED <<token, exchanged>> /\ txn' = [txn EXCEPT ![s] = r]
    BY <1>4 DEF Start, database, history
  <2>2. CASE r.op = "refresh" /\ r.token = t
    <3>1. exchanged'[t] = 0
      BY <1>1, <1>4, <2>1, <2>2 DEF Sound
    <3> QED BY <1>0, <1>1, <3>1, UseCounted
  <2>3. CASE ~ (r.op = "refresh" /\ r.token = t)
    <3>1. Exchanging(t)' \subseteq Exchanging(t)
      BY <1>0, <2>1, <2>3 DEF Exchanging
    <3> QED BY <1>0, <1>1, <2>1, <3>1, UseCounted
  <2> QED BY <2>2, <2>3
<1>5. ASSUME exchanged' = exchanged, txn' = txn \/ \E s \in Session : Finish(s) PROVE Goal
  <2>1. Exchanging(t)' \subseteq Exchanging(t)
    BY <1>0, <1>5, FinishFacts DEF Exchanging
  <2> QED BY <1>0, <1>1, <1>2, <1>5, <2>1, UseCounted
<1>6. \/ \E s \in Session : Refresh(s) \/ Begin(s)
      \/ exchanged' = exchanged
  BY DEF Next, Commit, Mail, RollBack, Login, ChangePassword, Logout, DeleteAccount, SendCode,
         VerifyCode, ResetPassword, Register, SetActive, vars, database, history
<1>7. \A s \in Session : Begin(s) => \E r \in Txn : Start(s, r) /\ Sound(r)
  BY <1>0, BeginFacts
<1> QED BY <1>0, <1>3, <1>4, <1>5, <1>6, <1>7, TxnEffect

Redeeming(c) == {s \in Session : txn[s].op \in {"verify", "reset"} /\ txn[s].code = c}

RedeemInv ==
  \A c \in Code : /\ code[c].state # "dead" => redeemed[c] = 0
                  /\ redeemed[c] + Cardinality(Redeeming(c)) <= Cardinality(Session)

LEMMA StepRedeemInv == RowInv /\ RedeemInv /\ [Next]_vars => RedeemInv'
<1> SUFFICES ASSUME RowInv, RedeemInv, [Next]_vars, NEW c \in Code
             PROVE  /\ code'[c].state # "dead" => redeemed'[c] = 0
                    /\ redeemed'[c] + Cardinality(Redeeming(c)') <= Cardinality(Session)
  BY DEF RedeemInv
<1> DEFINE Goal == /\ code'[c].state # "dead" => redeemed'[c] = 0
                   /\ redeemed'[c] + Cardinality(Redeeming(c)') <= Cardinality(Session)
<1>0. /\ TypeOK /\ txn \in [Session -> Txn] /\ code \in [Code -> Codes]
      /\ redeemed \in [Code -> Nat] /\ redeemed[c] \in Nat
      /\ Redeeming(c) \in SUBSET Session /\ Redeeming(c)' \in SUBSET Session
  BY DEF RowInv, TypeOK, Txn, Codes, Redeeming
<1>1. /\ code[c].state # "dead" => redeemed[c] = 0
      /\ redeemed[c] + Cardinality(Redeeming(c)) <= Cardinality(Session)
  BY DEF RedeemInv
<1>2. code'[c].state # "dead" => code[c].state # "dead"
  BY <1>0, CodesStay, RowFacts
<1>3. ASSUME NEW s \in Session, txn[s].op \in {"verify", "reset"}, MarkUsed(txn[s].code), Finish(s)
      PROVE  Goal
  <2>1. /\ txn[s].code \in Code /\ code[txn[s].code] # NoRow
        /\ redeemed' = [redeemed EXCEPT ![txn[s].code] = @ + 1]
    BY <1>0, <1>3, TxnFields DEF RowInv, HoldsRow, MarkUsed
  <2>2. Redeeming(c)' = Redeeming(c) \ {s}
    BY <1>0, <1>3, FinishFacts DEF Redeeming
  <2>3. CASE c = txn[s].code
    <3>1. redeemed'[c] = redeemed[c] + 1 /\ s \in Redeeming(c)
      BY <1>0, <1>3, <2>1, <2>3 DEF Redeeming
    <3>2. redeemed'[c] + Cardinality(Redeeming(c)') <= Cardinality(Session)
      BY <1>0, <1>1, <2>2, <3>1, UseCounted
    <3> QED BY <1>0, <1>3, <2>1, <2>3, <3>2, CodeFacts
  <2>4. CASE c # txn[s].code
    <3>1. redeemed'[c] = redeemed[c]
      BY <1>0, <2>1, <2>4
    <3> QED BY <1>0, <1>1, <1>2, <2>2, <3>1, UseCounted
  <2> QED BY <2>3, <2>4
<1>4. ASSUME NEW s \in Session, NEW r \in Txn, Start(s, r), Sound(r) PROVE Goal
  <2>1. UNCHANGED <<code, redeemed>> /\ txn' = [txn EXCEPT ![s] = r]
    BY <1>4 DEF Start, database, history
  <2>2. CASE r.op \in {"verify", "reset"} /\ r.code = c
    <3>1. redeemed'[c] = 0
      BY <1>1, <1>4, <2>1, <2>2 DEF Sound
    <3> QED BY <1>0, <1>1, <3>1, UseCounted
  <2>3. CASE ~ (r.op \in {"verify", "reset"} /\ r.code = c)
    <3>1. Redeeming(c)' \subseteq Redeeming(c)
      BY <1>0, <2>1, <2>3 DEF Redeeming
    <3> QED BY <1>0, <1>1, <2>1, <3>1, UseCounted
  <2> QED BY <2>2, <2>3
<1>5. ASSUME redeemed' = redeemed, txn' = txn \/ \E s \in Session : Finish(s) PROVE Goal
  <2>1. Redeeming(c)' \subseteq Redeeming(c)
    BY <1>0, <1>5, FinishFacts DEF Redeeming
  <2> QED BY <1>0, <1>1, <1>2, <1>5, <2>1, UseCounted
<1> QED BY <1>0, <1>3, <1>4, <1>5, TxnEffect, CodeEffect

LEMMA InitCounts == Init => RotationInv /\ RedeemInv
<1> SUFFICES ASSUME Init PROVE RotationInv /\ RedeemInv
  OBVIOUS
<1>1. \A s \in Session : txn[s].op = "idle"
  BY DEF Init, Idle
<1>2. (\A t : Exchanging(t) = {}) /\ (\A c : Redeeming(c) = {})
  BY <1>1 DEF Exchanging, Redeeming
<1> QED BY <1>2, SessionCount, FS_EmptySet DEF Init, RotationInv, RedeemInv

(* With any number of overlapping refreshes, a token is exchanged for as   *)
(* many others as requests can overlap and no more, ever.                  *)
THEOREM TokensRotate == Spec => []RotationBounded
<1>1. RowInv /\ RotationInv => RotationBounded
  <2> SUFFICES ASSUME RowInv, RotationInv, NEW t \in Token
               PROVE  exchanged[t] <= Cardinality(Session)
    BY DEF RotationBounded
  <2>1. /\ exchanged[t] \in Nat /\ Exchanging(t) \in SUBSET Session
        /\ exchanged[t] + Cardinality(Exchanging(t)) <= Cardinality(Session)
    BY DEF RowInv, TypeOK, RotationInv, Exchanging
  <2> QED BY <2>1, SessionCount
<1>2. RowInv /\ RotationInv /\ [Next]_vars => (RowInv /\ RotationInv)'
  BY StepRowInv, StepRotationInv
<1> QED BY <1>1, <1>2, InitRowInv, InitCounts, PTL DEF Spec

(* The same of what a one-time code authorises.                            *)
THEOREM CodesAreUsedUp == Spec => []CodeUseBounded
<1>1. RowInv /\ RedeemInv => CodeUseBounded
  <2> SUFFICES ASSUME RowInv, RedeemInv, NEW c \in Code
               PROVE  redeemed[c] <= Cardinality(Session)
    BY DEF CodeUseBounded
  <2>1. /\ redeemed[c] \in Nat /\ Redeeming(c) \in SUBSET Session
        /\ redeemed[c] + Cardinality(Redeeming(c)) <= Cardinality(Session)
    BY DEF RowInv, TypeOK, RedeemInv, Redeeming
  <2> QED BY <2>1, SessionCount
<1>2. RowInv /\ RedeemInv /\ [Next]_vars => (RowInv /\ RedeemInv)'
  BY StepRowInv, StepRedeemInv
<1> QED BY <1>1, <1>2, InitRowInv, InitCounts, PTL DEF Spec

-----------------------------------------------------------------------------
(* The sessions that outlive a sign-out                                    *)

Stale(u, op) == {s \in Session : txn[s].op = op /\ txn[s].user = u /\ txn[s].era < era[u]}

(* Not inductive as it stands: a state with the most old tokens and a      *)
(* login that began before the sign-out would exceed the bound.  Such a    *)
(* login becomes one more old token; such a refresh leaves its user with   *)
(* just one, so it needs room for that and for the logins after it.        *)
OldInv ==
  \A u \in User :
    /\ Cardinality(OldTokens(u)) + Cardinality(Stale(u, "login")) <= Cardinality(Session) - 1
    /\ Stale(u, "refresh") # {} => 1 + Cardinality(Stale(u, "login")) <= Cardinality(Session) - 1

LEMMA StaleFacts ==
  ASSUME NEW u, NEW op
  PROVE  /\ Stale(u, op) \in SUBSET Session /\ Stale(u, op)' \in SUBSET Session
         /\ OldTokens(u) \in SUBSET Token /\ OldTokens(u)' \in SUBSET Token
         /\ IsFiniteSet(OldTokens(u)) /\ IsFiniteSet(OldTokens(u)')
         /\ Cardinality(OldTokens(u)) \in Nat /\ Cardinality(OldTokens(u)') \in Nat
<1>1. /\ Stale(u, op) \in SUBSET Session /\ Stale(u, op)' \in SUBSET Session
      /\ OldTokens(u) \in SUBSET Token /\ OldTokens(u)' \in SUBSET Token
  BY DEF Stale, OldTokens, LiveTokens
<1> QED BY <1>1, TokenAssumption, FS_Subset, FS_CardinalityType

OldGoal(u) ==
  /\ Cardinality(OldTokens(u)') + Cardinality(Stale(u, "login")') <= Cardinality(Session) - 1
  /\ Stale(u, "refresh")' # {} => 1 + Cardinality(Stale(u, "login")') <= Cardinality(Session) - 1

(* Nothing gets older: a refresh begins with an old token at most.         *)
LEMMA NothingOlder ==
  ASSUME OldInv, NEW u \in User,
         OldTokens(u)' \subseteq OldTokens(u),
         Stale(u, "login")' \subseteq Stale(u, "login"),
         Stale(u, "refresh")' # {} => Stale(u, "refresh") # {} \/ OldTokens(u) # {}
  PROVE  OldGoal(u)
<1>1. /\ Cardinality(OldTokens(u)') <= Cardinality(OldTokens(u))
      /\ Cardinality(Stale(u, "login")') <= Cardinality(Stale(u, "login"))
  BY StaleFacts, SessionCount, FS_Subset
<1>2. OldTokens(u) # {} => Cardinality(OldTokens(u)) >= 1
  BY StaleFacts, FS_EmptySet
<1>3. /\ Cardinality(Session) \in Nat
      /\ Cardinality(Stale(u, "login")) \in Nat /\ Cardinality(Stale(u, "login")') \in Nat
  BY StaleFacts, SessionCount
<1> QED BY <1>1, <1>2, <1>3, StaleFacts DEF OldInv, OldGoal

(* A login of before becomes an old token.                                 *)
LEMMA LoginGetsOld ==
  ASSUME OldInv, NEW u \in User, NEW s \in Stale(u, "login"), NEW t \in Token,
         OldTokens(u)' \subseteq OldTokens(u) \cup {t},
         Stale(u, "login")' = Stale(u, "login") \ {s},
         Stale(u, "refresh")' \subseteq Stale(u, "refresh")
  PROVE  OldGoal(u)
<1>1. Cardinality(Stale(u, "login")') = Cardinality(Stale(u, "login")) - 1
  BY StaleFacts, SessionCount, FS_RemoveElement
<1>2. Cardinality(OldTokens(u)') <= Cardinality(OldTokens(u)) + 1
  <2>1. /\ IsFiniteSet(OldTokens(u) \cup {t})
        /\ Cardinality(OldTokens(u) \cup {t}) <= Cardinality(OldTokens(u)) + 1
    <3>1. IsFiniteSet(OldTokens(u)) /\ Cardinality(OldTokens(u)) \in Nat
      BY StaleFacts
    <3>2. /\ IsFiniteSet(OldTokens(u) \cup {t})
          /\ Cardinality(OldTokens(u) \cup {t}) =
               IF t \in OldTokens(u) THEN Cardinality(OldTokens(u))
               ELSE Cardinality(OldTokens(u)) + 1
      BY <3>1, FS_AddElement, Zenon
    <3> QED BY <3>1, <3>2
  <2>2. OldTokens(u)' \in SUBSET (OldTokens(u) \cup {t})
    OBVIOUS
  <2>3. Cardinality(OldTokens(u)') <= Cardinality(OldTokens(u) \cup {t})
    BY <2>1, <2>2, FS_Subset
  <2>4. Cardinality(OldTokens(u) \cup {t}) \in Nat
    BY <2>1, FS_CardinalityType
  <2> QED BY <2>1, <2>3, <2>4, StaleFacts
<1>3. /\ Cardinality(Session) \in Nat
      /\ Cardinality(Stale(u, "login")) \in Nat /\ Cardinality(Stale(u, "login")') \in Nat
  BY StaleFacts, SessionCount
<1> QED BY <1>1, <1>2, <1>3, StaleFacts DEF OldInv, OldGoal

(* A refresh of before leaves one old token.                               *)
LEMMA RefreshGetsOld ==
  ASSUME OldInv, NEW u \in User, NEW t \in Token,
         Stale(u, "refresh") # {},
         OldTokens(u)' \subseteq {t},
         Stale(u, "login")' \subseteq Stale(u, "login")
  PROVE  OldGoal(u)
<1>1. Cardinality(Stale(u, "login")') <= Cardinality(Stale(u, "login"))
  BY StaleFacts, SessionCount, FS_Subset
<1>2. Cardinality(OldTokens(u)') <= 1
  <2>1. IsFiniteSet({t}) /\ Cardinality({t}) = 1
    BY FS_Singleton
  <2>2. OldTokens(u)' \in SUBSET {t}
    OBVIOUS
  <2> QED BY <2>1, <2>2, FS_Subset
<1>3. /\ Cardinality(Session) \in Nat
      /\ Cardinality(Stale(u, "login")) \in Nat /\ Cardinality(Stale(u, "login")') \in Nat
  BY StaleFacts, SessionCount
<1> QED BY <1>1, <1>2, <1>3, StaleFacts DEF OldInv, OldGoal

(* The sign-out itself: every other request may be of before.              *)
LEMMA AllGetOld ==
  ASSUME TypeOK, NEW u \in User, NEW s \in Session, Finish(s), OldTokens(u)' = {}
  PROVE  OldGoal(u)
<1>1. /\ Stale(u, "login")' \subseteq Session \ {s}
      /\ Stale(u, "refresh")' \subseteq Session \ {s}
      /\ \A r \in Stale(u, "refresh")' : Stale(u, "login")' \subseteq (Session \ {s}) \ {r}
  <2>1. txn'[s].op = "idle"
    BY FinishFacts
  <2>2. s \notin Stale(u, "login")' /\ s \notin Stale(u, "refresh")'
    BY <2>1 DEF Stale
  <2>3. \A r \in Stale(u, "refresh")' : r \notin Stale(u, "login")'
    BY DEF Stale
  <2>4. Stale(u, "login")' \subseteq Session /\ Stale(u, "refresh")' \subseteq Session
    BY StaleFacts
  <2> QED BY <2>2, <2>3, <2>4
<1>2. /\ IsFiniteSet(Session \ {s})
      /\ Cardinality(Session \ {s}) = Cardinality(Session) - 1
  BY SessionAssumption, FS_RemoveElement
<1>3. Cardinality(OldTokens(u)') = 0
  BY FS_EmptySet
<1>4. Cardinality(Stale(u, "login")') <= Cardinality(Session) - 1
  BY <1>1, <1>2, FS_Subset
<1>5. ASSUME NEW r \in Stale(u, "refresh")'
      PROVE  Cardinality(Stale(u, "login")') <= Cardinality(Session) - 2
  <2>1. /\ IsFiniteSet((Session \ {s}) \ {r})
        /\ Cardinality((Session \ {s}) \ {r}) = Cardinality(Session \ {s}) - 1
    BY <1>1, <1>2, <1>5, FS_RemoveElement
  <2>2. Cardinality(Stale(u, "login")') <= Cardinality((Session \ {s}) \ {r})
    BY <1>1, <1>5, <2>1, FS_Subset
  <2>3. Cardinality(Session) \in Nat
    BY SessionCount
  <2> QED BY <1>2, <2>1, <2>2, <2>3
<1>6. Cardinality(Session) \in Nat /\ Cardinality(Stale(u, "login")') \in Nat
  BY StaleFacts, SessionCount
<1>7. Stale(u, "refresh")' # {} => 1 + Cardinality(Stale(u, "login")') <= Cardinality(Session) - 1
  BY <1>5, <1>6
<1> QED BY <1>3, <1>4, <1>6, <1>7 DEF OldGoal

LEMMA StaleEnds ==
  ASSUME TypeOK, NEW u \in User, NEW s \in Session, Finish(s), era'[u] = era[u],
         NEW op \in {"login", "refresh"}
  PROVE  Stale(u, op)' = Stale(u, op) \ {s}
  BY FinishFacts DEF Stale

(* Where the user's era stays, only a new row of an earlier era is older.  *)
LEMMA OldAfter ==
  ASSUME TypeOK, NEW u \in User, NEW v \in User, NEW e \in Era, era'[u] = era[u],
         Insert(token, v, e) \/ Insert(Revoked(v), v, e)
  PROVE  /\ \E t \in Token : OldTokens(u)' \subseteq OldTokens(u) \cup {t}
         /\ u # v \/ ~ e < era[u] => OldTokens(u)' \subseteq OldTokens(u)
         /\ u = v /\ Insert(Revoked(v), v, e) => \E t \in Token : OldTokens(u)' \subseteq {t}
<1>0. token \in [Token -> Rows]
  BY DEF TypeOK, Rows
<1>1. ASSUME NEW rows \in [Token -> Rows], rows \in {token, Revoked(v)}, Insert(rows, v, e)
      PROVE  \E t \in Token :
               /\ token'[t].user = v /\ token'[t].era = e
               /\ \A x \in Token : x # t => token'[x] = rows[x]
  BY <1>1, InsertFacts
<1>2. Revoked(v) \in [Token -> Rows]
  BY RevokedFacts
<1>3. PICK rows \in [Token -> Rows], t \in Token :
        /\ rows \in {token, Revoked(v)}
        /\ Insert(Revoked(v), v, e) => rows = Revoked(v)
        /\ token'[t].user = v /\ token'[t].era = e
        /\ \A x \in Token : x # t => token'[x] = rows[x]
  <2>1. CASE Insert(Revoked(v), v, e)
    BY <1>1, <1>2, <2>1
  <2>2. CASE Insert(token, v, e) /\ ~ Insert(Revoked(v), v, e)
    BY <1>0, <1>1, <2>2
  <2> QED BY <2>1, <2>2
<1>4. \A x \in Token : rows[x].state = "live" => rows[x] = token[x]
  BY <1>3, RevokedFacts
<1>5. rows = Revoked(v) => \A x \in Token : rows[x].state = "live" => token[x].user # v
  <2>1. \A x \in Token : x \in LiveTokens(v) => Revoked(v)[x].state = "dead"
    BY RevokedFacts
  <2> QED BY <1>4, <2>1 DEF LiveTokens
<1>6. OldTokens(u)' \subseteq OldTokens(u) \cup {t}
  BY <1>3, <1>4 DEF OldTokens, LiveTokens
<1>7. u # v \/ ~ e < era[u] => t \notin OldTokens(u)'
  BY <1>3 DEF OldTokens, LiveTokens
<1>8. u = v /\ rows = Revoked(v) => OldTokens(u)' \subseteq {t}
  BY <1>3, <1>4, <1>5 DEF OldTokens, LiveTokens
<1> QED BY <1>3, <1>6, <1>7, <1>8

(* Who signs out everywhere, and how the token rows are left.              *)
Ends(s) ==
  /\ txn[s].user \in User
  /\ EndSessions(txn[s].user)
  /\ Finish(s)
  /\ token' = Revoked(txn[s].user) \/ Insert(Revoked(txn[s].user), txn[s].user, era'[txn[s].user])

LEMMA OldAfterEnd ==
  ASSUME TypeOK, NEW u \in User, NEW s \in Session, Ends(s)
  PROVE  OldTokens(u)' \subseteq OldTokens(u) /\ (u = txn[s].user => OldTokens(u)' = {})
<1> DEFINE v == txn[s].user
<1>1. v \in User /\ era' = [era EXCEPT ![v] = @ + 1] /\ era \in [User -> Era]
  BY DEF Ends, EndSessions, TypeOK
<1>2. era'[v] \in Era
  BY <1>1, EraFacts DEF Ends, EndSessions
<1>3. \A x \in Token : Revoked(v)[x].state = "live" => Revoked(v)[x] = token[x] /\ token[x].user # v
  <2>1. \A x \in Token : x \in LiveTokens(v) => Revoked(v)[x].state = "dead"
    BY RevokedFacts
  <2>2. \A x \in Token : x \notin LiveTokens(v) => Revoked(v)[x] = token[x]
    BY RevokedFacts
  <2> QED BY <2>1, <2>2 DEF LiveTokens
<1>4. ASSUME NEW x \in Token, x \in OldTokens(u)' PROVE token'[x] = Revoked(v)[x]
  <2>1. CASE token' = Revoked(v)
    BY <2>1
  <2>2. CASE Insert(Revoked(v), v, era'[v])
    <3>1. Revoked(v) \in [Token -> Rows]
      BY RevokedFacts
    <3>2. PICK t \in Token : /\ token'[t].user = v /\ token'[t].era = era'[v]
                             /\ \A y \in Token : y # t => token'[y] = Revoked(v)[y]
      BY <1>1, <1>2, <2>2, <3>1, InsertFacts
    <3>3. ~ era'[v] < era'[v]
      <4>1. era'[v] \in Nat
        BY <1>2, EraFacts
      <4> QED BY <4>1
    <3>4. x # t
      BY <1>4, <3>2, <3>3 DEF OldTokens, LiveTokens
    <3> QED BY <3>2, <3>4
  <2> QED BY <2>1, <2>2 DEF Ends
<1>5. ASSUME NEW x \in OldTokens(u)'
      PROVE  /\ x \in Token /\ token[x].state = "live" /\ token[x].user = u
             /\ token[x].era < era'[u] /\ u # v
  BY <1>3, <1>4 DEF OldTokens, LiveTokens
<1>6. u # v => era'[u] = era[u]
  BY <1>1
<1> QED BY <1>5, <1>6 DEF OldTokens, LiveTokens

LEMMA StepOldInv == RowInv /\ OldInv /\ [Next]_vars => OldInv'
<1> SUFFICES ASSUME RowInv, OldInv, [Next]_vars, NEW u \in User PROVE OldGoal(u)
  BY DEF OldInv, OldGoal
<1>0. TypeOK /\ txn \in [Session -> Txn] /\ era \in [User -> Era]
  BY DEF RowInv, TypeOK, Txn
<1>a. ~ era[u] < era[u]
  <2>1. era[u] \in Nat
    BY <1>0, EraFacts
  <2> QED BY <2>1
<1>1. ASSUME UNCHANGED <<token, era>>, NEW s \in Session, NEW r \in Txn, Start(s, r), Sound(r)
      PROVE  OldGoal(u)
  <2>1. /\ txn'[s] = r /\ \A q \in Session : q # s => txn'[q] = txn[q]
        /\ OldTokens(u)' = OldTokens(u)
    BY <1>0, <1>1 DEF Start, OldTokens, LiveTokens
  <2>2. r.op = "login" /\ r.user = u => ~ r.era < era[u]
    BY <1>1, <1>a DEF Sound
  <2>3. Stale(u, "login")' \subseteq Stale(u, "login")
    BY <1>1, <2>1, <2>2 DEF Stale
  <2>4. r.op = "refresh" /\ r.user = u /\ r.era < era[u] => r.token \in OldTokens(u)
    BY <1>1, TxnFields DEF Sound, OldTokens, LiveTokens
  <2>5. \A q \in Stale(u, "refresh")' : q \in Stale(u, "refresh") \/ OldTokens(u) # {}
    BY <1>1, <2>1, <2>4 DEF Stale
  <2> QED BY <2>1, <2>3, <2>5, NothingOlder
<1>2. ASSUME UNCHANGED <<token, era>>, txn' = txn \/ \E s \in Session : Finish(s) PROVE OldGoal(u)
  <2>1. OldTokens(u)' = OldTokens(u)
    BY <1>2 DEF OldTokens, LiveTokens
  <2>2. \A op \in {"login", "refresh"} : Stale(u, op)' \subseteq Stale(u, op)
    <3>1. CASE txn' = txn
      BY <1>2, <3>1 DEF Stale
    <3>2. CASE \E s \in Session : Finish(s)
      BY <1>0, <1>2, <3>2, StaleEnds
    <3> QED BY <1>2, <3>1, <3>2
  <2> QED BY <2>1, <2>2, NothingOlder
<1>3. ASSUME NEW v \in User, Register(v) PROVE OldGoal(u)
  <2>1. Insert(token, v, era[v]) /\ era[v] \in Era /\ UNCHANGED <<txn, era>>
    BY <1>0, <1>3 DEF Register, history
  <2>2. u # v \/ ~ era[v] < era[u]
    BY <1>a
  <2>3. OldTokens(u)' \subseteq OldTokens(u)
    BY <1>0, <2>1, <2>2, OldAfter
  <2>4. \A op \in {"login", "refresh"} : Stale(u, op)' = Stale(u, op)
    BY <2>1 DEF Stale
  <2> QED BY <2>3, <2>4, NothingOlder
<1>4. ASSUME NEW s \in Session, Login(s) PROVE OldGoal(u)
  <2> DEFINE v == txn[s].user
             e == txn[s].era
  <2>1. /\ txn[s].op = "login" /\ v \in User /\ e \in Era
        /\ Insert(token, v, e) /\ Finish(s) /\ era' = era
    BY <1>0, <1>4, TxnFields DEF Login, history
  <2>2. /\ Stale(u, "login")' = Stale(u, "login") \ {s}
        /\ Stale(u, "refresh")' = Stale(u, "refresh") \ {s}
    BY <1>0, <2>1, StaleEnds
  <2>3. CASE u # v \/ ~ e < era[u]
    <3>1. OldTokens(u)' \subseteq OldTokens(u)
      BY <1>0, <2>1, <2>3, OldAfter
    <3> QED BY <2>2, <3>1, NothingOlder
  <2>4. CASE u = v /\ e < era[u]
    <3>1. s \in Stale(u, "login")
      BY <2>1, <2>4 DEF Stale
    <3>2. PICK t \in Token : OldTokens(u)' \subseteq OldTokens(u) \cup {t}
      BY <1>0, <2>1, OldAfter
    <3> QED BY <2>2, <3>1, <3>2, LoginGetsOld
  <2> QED BY <2>3, <2>4
<1>5. ASSUME NEW s \in Session, Refresh(s) PROVE OldGoal(u)
  <2> DEFINE v == txn[s].user
             e == txn[s].era
  <2>1. /\ txn[s].op = "refresh" /\ v \in User /\ e \in Era
        /\ Insert(Revoked(v), v, e) /\ Finish(s) /\ era' = era
    BY <1>0, <1>5, TxnFields DEF Refresh
  <2>2. /\ Stale(u, "login")' = Stale(u, "login") \ {s}
        /\ Stale(u, "refresh")' = Stale(u, "refresh") \ {s}
    BY <1>0, <2>1, StaleEnds
  <2>3. CASE u # v \/ ~ e < era[u]
    <3>1. OldTokens(u)' \subseteq OldTokens(u)
      BY <1>0, <2>1, <2>3, OldAfter
    <3> QED BY <2>2, <3>1, NothingOlder
  <2>4. CASE u = v /\ e < era[u]
    <3>1. s \in Stale(u, "refresh")
      BY <2>1, <2>4 DEF Stale
    <3>2. PICK t \in Token : OldTokens(u)' \subseteq {t}
      BY <1>0, <2>1, <2>4, OldAfter
    <3> QED BY <2>2, <3>1, <3>2, RefreshGetsOld
  <2> QED BY <2>3, <2>4
<1>6. ASSUME NEW s \in Session, Ends(s) PROVE OldGoal(u)
  <2>1. Finish(s) /\ OldTokens(u)' \subseteq OldTokens(u)
    BY <1>0, <1>6, OldAfterEnd DEF Ends
  <2>2. CASE u = txn[s].user
    <3>1. OldTokens(u)' = {}
      BY <1>0, <1>6, <2>2, OldAfterEnd
    <3> QED BY <1>0, <2>1, <3>1, AllGetOld
  <2>3. CASE u # txn[s].user
    <3>1. era'[u] = era[u]
      BY <1>0, <1>6, <2>3 DEF Ends, EndSessions
    <3>2. \A op \in {"login", "refresh"} : Stale(u, op)' = Stale(u, op) \ {s}
      BY <1>0, <2>1, <3>1, StaleEnds
    <3> QED BY <2>1, <3>2, NothingOlder
  <2> QED BY <2>2, <2>3
<1>7. ASSUME NEW s \in Session,
             ChangePassword(s) \/ Logout(s) \/ DeleteAccount(s) \/ ResetPassword(s)
      PROVE  Ends(s)
  <2>1. txn[s].user \in User
    BY <1>0, <1>7, TxnFields DEF ChangePassword, Logout, DeleteAccount, ResetPassword
  <2> QED BY <1>7, <2>1 DEF ChangePassword, Logout, DeleteAccount, ResetPassword, Ends
<1>8. \/ UNCHANGED <<token, era>>
      \/ \E v \in User : Register(v)
      \/ \E s \in Session : \/ Login(s) \/ Refresh(s)
                            \/ ChangePassword(s) \/ Logout(s)
                            \/ DeleteAccount(s) \/ ResetPassword(s)
  <2>1. ASSUME NEW s \in Session, Begin(s) PROVE UNCHANGED <<token, era>>
    BY <1>0, <2>1, BeginFacts DEF Start, database, history
  <2> QED BY <2>1 DEF Next, Commit, Mail, RollBack, SendCode, VerifyCode, SetActive, vars,
                      database, history
<1> QED BY <1>0, <1>1, <1>2, <1>3, <1>4, <1>5, <1>6, <1>7, <1>8, TxnEffect

LEMMA InitOldInv == Init => OldInv
<1> SUFFICES ASSUME Init, NEW u \in User
             PROVE  /\ Cardinality(OldTokens(u)) + Cardinality(Stale(u, "login"))
                         <= Cardinality(Session) - 1
                    /\ Stale(u, "refresh") = {}
  BY DEF OldInv
<1>1. OldTokens(u) = {}
  BY DEF Init, NoRow, OldTokens, LiveTokens
<1>2. Stale(u, "login") = {} /\ Stale(u, "refresh") = {}
  BY DEF Init, Idle, Stale
<1>3. Cardinality(Session) \in Nat /\ Cardinality(Session) # 0
  BY SessionAssumption, SessionCount, FS_EmptySet
<1> QED BY <1>1, <1>2, <1>3, FS_EmptySet

(* However often a user signs out everywhere, and whatever the sessions of *)
(* before do, fewer of them are left than requests can overlap.            *)
THEOREM OldSessionsEnd == Spec => []OldSessionsBounded
<1>1. OldInv => OldSessionsBounded
  <2> SUFFICES ASSUME OldInv, NEW u \in User
               PROVE  Cardinality(OldTokens(u)) <= Cardinality(Session) - 1
    BY DEF OldSessionsBounded
  <2>1. Cardinality(OldTokens(u)) + Cardinality(Stale(u, "login")) <= Cardinality(Session) - 1
    BY DEF OldInv
  <2>2. Cardinality(Stale(u, "login")) \in Nat /\ Cardinality(Session) \in Nat
    BY StaleFacts, SessionCount
  <2> QED BY <2>1, <2>2, StaleFacts
<1>2. RowInv /\ OldInv /\ [Next]_vars => (RowInv /\ OldInv)'
  BY StepRowInv, StepOldInv
<1> QED BY <1>1, <1>2, InitRowInv, InitOldInv, PTL DEF Spec

-----------------------------------------------------------------------------
(* The app: ApiClient                                                      *)

-----------------------------------------------------------------------------
(* Types                                                                   *)

Rec ==
  [at : Stage, bearer : Pair \cup {None}, retry : BOOLEAN,
   leads : BOOLEAN, pair : Pair \cup {None}, todo : SUBSET Entry]

LEMMA PairFacts == MaxPair \in Nat /\ 1 \in Pair /\ Pair \subseteq Nat /\ None \notin Pair
  BY PairAssumption DEF Pair, None

LEMMA FreshFacts ==
  /\ Fresh \in Rec /\ Fresh.at = "idle" /\ ~ Fresh.leads
  /\ [Fresh EXCEPT !.at = "reading"] \in Rec
  /\ [Fresh EXCEPT !.at = "reading"].at = "reading" /\ ~ [Fresh EXCEPT !.at = "reading"].leads
  /\ [Fresh EXCEPT !.at = "clearing", !.todo = Entry] \in Rec
  /\ [Fresh EXCEPT !.at = "clearing", !.todo = Entry].at = "clearing"
  /\ ~ [Fresh EXCEPT !.at = "clearing", !.todo = Entry].leads
  BY DEF Fresh, Rec, Stage

(* What becomes of a request that is told of an error, or of a new app.    *)
Idles(x) == x \in Rec /\ ~ x.leads /\ x.at \in {"idle", "reading", "clearing"}

LEMMA AbandonFacts ==
  ASSUME ClientTypeOK, NEW r \in Request, Abandon(r) \/ Settle(r)
  PROVE  \E x : /\ Idles(x) /\ req' = [req EXCEPT ![r] = x]
                /\ r \notin Launch => x = Fresh
<1>1. CASE req' = [req EXCEPT ![r] = Fresh]
  BY <1>1, FreshFacts DEF Idles
<1>2. CASE r \in Launch /\ req' = [req EXCEPT ![r] = [Fresh EXCEPT !.at = "clearing", !.todo = Entry]]
  BY <1>2, FreshFacts DEF Idles
<1> QED BY <1>1, <1>2 DEF Abandon, Settle

LEMMA StartedFacts ==
  ASSUME NEW k
  PROVE  \A r \in Request : Idles(Started(k)[r]) /\ (r # Me => Started(k)[r] = Fresh)
  BY FreshFacts DEF Started, Idles

-----------------------------------------------------------------------------
(* The inductive invariant                                                 *)

(* Who runs the refresh holds the lock, alone; who waits for it does       *)
(* nothing else; a pair is saved by the leader or by a sign-in; and the    *)
(* device is registered only after the launch's first request.             *)
LockInv ==
  /\ SingleFlight
  /\ \A r \in Request :
       req[r].at \in {"lookup", "posted", "accepted", "missing", "denied"} => req[r].leads
  /\ \A r \in Request : req[r].at \in {"granted", "saving"} => req[r].leads \/ r \in SignIn
  /\ \A q \in queue : req[q].at = "queued"
  /\ req[Me].at # "idle" => req[Device] = Fresh

(* The newest pair is on its way to the keychain's refresh entry.          *)
Due(r) == req[r].at = "granted" \/ (req[r].at = "saving" /\ "refresh" \in req[r].todo)

(* It presents a pair or was granted one.                                  *)
Holding == {"posted", "accepted", "granted", "saving"}

(* While nothing disturbs it, the one live token is that of the newest     *)
(* pair, and the keychain holds it, or nothing, or will in a moment.       *)
FreshInv ==
  /\ \A r \in SignIn \cup SignOut : req[r].at = "idle"
  /\ live = {issued}
  /\ \A r \in Request : req[r].at \in Holding => req[r].pair = issued
  /\ key["refresh"] \in {None, issued} \/ \E r \in Request : Due(r)

(* After a sign-out that no refresh was on the server to outlast, no token *)
(* is live, and none has been found live for a refresh to exchange.        *)
OutInv ==
  signedOut /\ ~ raced => live = {} /\ \A r \in Request : req[r].at # "accepted"

IInv ==
  /\ ClientTypeOK
  /\ LockInv
  /\ undisturbed => FreshInv
  /\ OutInv

LEMMA InitIInv == ClientInit => IInv
<1> SUFFICES ASSUME ClientInit PROVE IInv
  OBVIOUS
<1>1. \A r \in Request : Idles(req[r]) /\ (r # Me => req[r] = Fresh)
  BY StartedFacts DEF ClientInit
<1>2. req \in [Request -> Rec]
  BY <1>1 DEF ClientInit, Started, Idles
<1>3. ClientTypeOK
  <2>1. key \in [Entry -> Pair \cup {None}]
    BY PairFacts DEF ClientInit
  <2>2. /\ isRefreshing = FALSE /\ undisturbed = TRUE /\ signedOut = FALSE /\ raced = FALSE
        /\ queue = {} /\ issued = 1 /\ live = {1} /\ valid = {1}
    BY DEF ClientInit
  <2>3. 1 \in 1 .. 1
    OBVIOUS
  <2> QED BY <1>2, <2>1, <2>2, <2>3, PairFacts DEF ClientTypeOK, Rec
<1>4. LockInv
  BY <1>1, KindAssumption DEF ClientInit, LockInv, SingleFlight, Idles, Request, Launch
<1>5. \A r \in SignIn \cup SignOut : req[r].at = "idle"
  BY <1>1, FreshFacts, KindAssumption DEF Launch, Request
<1>6. FreshInv
  BY <1>1, <1>5 DEF ClientInit, FreshInv, Idles, Entry, Holding
<1> QED BY <1>3, <1>4, <1>6 DEF IInv, OutInv, ClientInit

(* One request moves.                                                      *)
LEMMA LockKept ==
  ASSUME IInv, NEW r \in Request, NEW x \in Rec, req' = [req EXCEPT ![r] = x],
         x.leads => (req[r].leads \/ ~ isRefreshing) /\ isRefreshing',
         (isRefreshing => isRefreshing') \/ (req[r].leads /\ ~ x.leads),
         x.at \in {"lookup", "posted", "accepted", "missing", "denied"} => x.leads,
         x.at \in {"granted", "saving"} => x.leads \/ r \in SignIn,
         r \in Launch => req[r].at # "idle",
         req[r].at # "queued", queue' \subseteq queue \cup {r}, r \in queue' => x.at = "queued"
  PROVE  LockInv' /\ req' \in [Request -> Rec]
<1>1. req \in [Request -> Rec] /\ queue \subseteq Request
  BY DEF IInv, ClientTypeOK, Rec
<1>2. req'[r] = x /\ \A q \in Request : q # r => req'[q] = req[q]
  BY <1>1
<1>3. SingleFlight'
  BY <1>2 DEF IInv, LockInv, SingleFlight
<1>4. \A q \in queue' : req'[q].at = "queued"
  BY <1>1, <1>2 DEF IInv, LockInv
<1>5. req'[Me].at # "idle" => req'[Device] = Fresh
  <2>1. Me \in Request /\ Device \in Request /\ Me # Device
    BY KindAssumption DEF Request, Launch
  <2>2. Fresh.at = "idle" /\ (req[Me].at # "idle" => req[Device] = Fresh)
    BY FreshFacts DEF IInv, LockInv
  <2> QED BY <1>2, <2>1, <2>2 DEF Launch
<1> QED BY <1>1, <1>2, <1>3, <1>4, <1>5 DEF IInv, LockInv

LEMMA FreshKept ==
  ASSUME IInv, NEW r \in Request, NEW x \in Rec, req' = [req EXCEPT ![r] = x],
         UNCHANGED <<live, issued, key>>,
         undisturbed' => undisturbed /\ r \notin SignIn \cup SignOut,
         x.at # "granted",
         x.at = "posted" => (undisturbed' => x.pair = issued),
         x.at = "accepted" => req[r].at = "posted" /\ x.pair = req[r].pair,
         x.at = "saving" => req[r].at \in {"granted", "saving"} /\ x.pair = req[r].pair,
         undisturbed' /\ Due(r) => x.at = "saving" /\ "refresh" \in x.todo
  PROVE  undisturbed' => FreshInv'
<1> SUFFICES ASSUME undisturbed' PROVE FreshInv'
  OBVIOUS
<1>1. req \in [Request -> Rec] /\ FreshInv
  BY DEF IInv, ClientTypeOK, Rec
<1>2. req'[r] = x /\ \A q \in Request : q # r => req'[q] = req[q]
  BY <1>1
<1>3. \A q \in SignIn \cup SignOut : req'[q].at = "idle"
  BY <1>1, <1>2 DEF FreshInv, Request
<1>4. \A q \in Request : req'[q].at \in Holding => req'[q].pair = issued
  BY <1>1, <1>2 DEF FreshInv, Holding
<1>5. \A q \in Request : Due(q) => Due(q)'
  BY <1>2 DEF Due
<1> QED BY <1>1, <1>3, <1>4, <1>5 DEF FreshInv

LEMMA OutKept ==
  ASSUME IInv, NEW r \in Request, NEW x, req' = [req EXCEPT ![r] = x],
         UNCHANGED <<live, signedOut, raced>>,
         x.at = "accepted" => ~ signedOut \/ raced
  PROVE  OutInv'
<1>1. req \in [Request -> Rec] /\ OutInv
  BY DEF IInv, ClientTypeOK, Rec
<1>2. req'[r] = x /\ \A q \in Request : q # r => req'[q] = req[q]
  BY <1>1
<1> QED BY <1>1, <1>2 DEF OutInv

-----------------------------------------------------------------------------
(* The steps                                                               *)

(* The request is told of an error or has its answer.                      *)
LEMMA EndStep ==
  ASSUME IInv, NEW r \in Request, Abandon(r) \/ Settle(r),
         req[r].at \notin {"idle", "queued"},
         UNCHANGED <<key, queue, server, signedOut, raced>>,
         isRefreshing' = isRefreshing \/ (req[r].leads /\ isRefreshing' = FALSE),
         undisturbed' \in BOOLEAN, undisturbed' => undisturbed,
         undisturbed' => ~ Due(r)
  PROVE  IInv'
<1>1. PICK x : Idles(x) /\ req' = [req EXCEPT ![r] = x]
  BY AbandonFacts DEF IInv
<1>2. isRefreshing' \in BOOLEAN /\ ((isRefreshing => isRefreshing') \/ req[r].leads)
  BY DEF IInv, ClientTypeOK, Rec
<1>3. LockInv' /\ req' \in [Request -> Rec]
  BY <1>1, <1>2, LockKept DEF Idles, IInv, LockInv
<1>4. undisturbed' => r \notin SignIn \cup SignOut
  BY DEF IInv, FreshInv
<1>5. undisturbed' => FreshInv'
  BY <1>1, <1>4, FreshKept DEF Idles, server
<1>6. OutInv'
  BY <1>1, OutKept DEF Idles, server
<1> QED BY <1>2, <1>3, <1>5, <1>6 DEF IInv, ClientTypeOK, Rec, server

(* A request moves on, and the server, the keychain and the lock stay.     *)
LEMMA MoveStep ==
  ASSUME IInv, NEW r \in Request, NEW x \in Rec, req' = [req EXCEPT ![r] = x],
         UNCHANGED <<key, isRefreshing, queue, server, signedOut, raced>>,
         x.leads = req[r].leads \/ (x.at = "reading" /\ ~ x.leads),
         x.at \in {"lookup", "posted", "missing", "denied"} =>
           req[r].at \in {"lookup", "posted", "accepted", "missing", "denied"} \/ x.leads,
         x.at = "accepted" => /\ req[r].at = "posted" /\ x.pair = req[r].pair
                              /\ ~ signedOut \/ raced,
         x.at = "saving" => req[r].at \in {"granted", "saving"} /\ x.pair = req[r].pair,
         x.at # "granted",
         x.at = "posted" => (undisturbed' => x.pair = issued),
         r \in Launch => req[r].at # "idle",
         req[r].at # "queued",
         undisturbed' \in BOOLEAN,
         undisturbed' => undisturbed /\ r \notin SignIn \cup SignOut,
         undisturbed' /\ Due(r) => x.at = "saving" /\ "refresh" \in x.todo
  PROVE  IInv'
<1>1. LockInv' /\ req' \in [Request -> Rec]
  <2>1. x.leads => isRefreshing
    BY DEF IInv, LockInv, SingleFlight
  <2>2. r \notin queue
    BY DEF IInv, LockInv
  <2> QED BY <2>1, <2>2, LockKept DEF IInv, LockInv
<1>2. undisturbed' => FreshInv'
  BY FreshKept DEF server
<1>3. OutInv'
  BY OutKept DEF server
<1> QED BY <1>1, <1>2, <1>3 DEF IInv, ClientTypeOK, Rec, server

(* What EXCEPT leaves of a request.                                        *)
LEMMA Moved ==
  ASSUME ClientTypeOK, NEW r \in Request, NEW st \in Stage
  PROVE  LET x == [req[r] EXCEPT !.at = st] IN
         /\ req[r] \in Rec /\ x \in Rec /\ x.at = st
         /\ x.leads = req[r].leads /\ x.pair = req[r].pair /\ x.todo = req[r].todo
         /\ Move(r, st) => req' = [req EXCEPT ![r] = x]
  BY DEF ClientTypeOK, Rec, Move

LEMMA EndSteps ==
  ASSUME IInv, NEW r \in Request,
         Serve(r) \/ Fail(r) \/ GiveUp(r) \/ Signed(r) \/ RefreshFailed(r)
  PROVE  IInv'
<1>1. CASE Serve(r)
  <2>1. CASE Abandon(r) \/ Settle(r)
    BY <1>1, <2>1, EndStep DEF Serve, client, clientHistory, Due, IInv, ClientTypeOK
  <2>2. CASE r = Me /\ req' = [req EXCEPT ![Me] = Fresh,
                                         ![Device] = [Fresh EXCEPT !.at = "reading"]]
    <3> DEFINE y == [Fresh EXCEPT !.at = "reading"]
    <3>1. /\ UNCHANGED <<client, server, clientHistory>>
          /\ req[Me].at = "sent" /\ req[Device] = Fresh /\ Me # Device
          /\ Me \in Request /\ Device \in Request /\ Device \notin SignIn \cup SignOut
      BY <1>1, <2>2, KindAssumption DEF Serve, IInv, LockInv, Request, Launch
    <3>2. /\ req'[Me] = Fresh /\ req'[Device] = y
          /\ \A q \in Request \ {Me, Device} : req'[q] = req[q]
          /\ req' \in [Request -> Rec]
      BY <2>2, <3>1, FreshFacts DEF IInv, ClientTypeOK, Rec
    <3>3. /\ Fresh.at = "idle" /\ ~ Fresh.leads /\ y.at = "reading" /\ ~ y.leads
          /\ Me \notin queue /\ Device \notin queue
      BY <3>1, FreshFacts DEF IInv, LockInv
    <3>4. SingleFlight'
      <4>1. \A q \in Request : req'[q].leads => req[q].leads
        BY <3>2, <3>3
      <4> QED BY <3>1, <4>1 DEF IInv, LockInv, SingleFlight, client
    <3>5. LockInv'
      BY <3>1, <3>2, <3>3, <3>4 DEF IInv, LockInv, client, ClientTypeOK
    <3>6. undisturbed' => FreshInv'
      <4> SUFFICES ASSUME undisturbed' PROVE FreshInv'
        OBVIOUS
      <4>1. FreshInv /\ UNCHANGED <<key, live, issued>>
        BY <3>1 DEF IInv, client, server, clientHistory
      <4>2. \A q \in SignIn \cup SignOut : req'[q].at = "idle"
        BY <3>1, <3>2, <3>3, <4>1 DEF FreshInv, Request
      <4>3. \A q \in Request : Due(q) => Due(q)'
        BY <3>1, <3>2, <3>3 DEF Due
      <4>4. \A q \in Request : req'[q].at \in Holding =>
              req'[q].pair = issued
        BY <3>2, <3>3, <4>1 DEF FreshInv, Holding
      <4> QED BY <4>1, <4>2, <4>3, <4>4 DEF FreshInv
    <3>7. OutInv'
      BY <3>1, <3>2, <3>3 DEF IInv, OutInv, server, clientHistory
    <3> QED BY <3>1, <3>2, <3>5, <3>6, <3>7
        DEF IInv, ClientTypeOK, Rec, client, server, clientHistory
  <2> QED BY <1>1, <2>1, <2>2 DEF Serve
<1>2. CASE Fail(r)
  BY <1>2, EndStep DEF Fail, client, clientHistory, Due, IInv, ClientTypeOK
<1>3. CASE GiveUp(r)
  BY <1>3, EndStep DEF GiveUp, client, clientHistory, Due, IInv, ClientTypeOK
<1>4. CASE Signed(r)
  BY <1>4, EndStep DEF Signed, client, clientHistory, Due, IInv, ClientTypeOK
<1>5. CASE RefreshFailed(r)
  BY <1>5, EndStep DEF RefreshFailed, clientHistory, Due, IInv, ClientTypeOK
<1> QED BY <1>1, <1>2, <1>3, <1>4, <1>5

LEMMA MoveSteps ==
  ASSUME IInv, NEW r \in Request,
         Send(r) \/ Attach(r) \/ Refuse(r) \/ Accept(r) \/ Deny(r) \/ ThrowMissing(r)
         \/ Post(r) \/ BeginSave(r) \/ BeginClear(r) \/ LoseReply(r)
  PROVE  IInv'
<1>0. req[r] \in Rec /\ undisturbed \in BOOLEAN /\ ClientTypeOK
  BY DEF IInv, ClientTypeOK, Rec
<1>a. undisturbed /\ req[r].at # "idle" => r \notin SignIn \cup SignOut
  BY DEF IInv, FreshInv
<1>1. CASE Send(r)
  <2>1. r \in SignIn \cup SignOut => r \notin Call
    BY KindAssumption
  <2>2. undisturbed' = (undisturbed /\ r \in Call)
    BY <1>1 DEF Send
  <2>3. undisturbed' \in BOOLEAN /\ (undisturbed' => undisturbed /\ r \notin SignIn \cup SignOut)
    BY <2>1, <2>2
  <2> QED BY <1>1, <2>3, FreshFacts, MoveStep DEF Send, client, Due
<1>2. CASE Attach(r)
  <2> DEFINE x == [req[r] EXCEPT !.at = "sent", !.bearer = key["access"]]
  <2>1. req' = [req EXCEPT ![r] = x] /\ x \in Rec /\ x.at = "sent" /\ x.leads = req[r].leads
    BY <1>0, <1>2 DEF Attach, Rec, Stage, ClientTypeOK, Entry
  <2> QED BY <1>0, <1>a, <1>2, <2>1, MoveStep DEF Attach, client, clientHistory, Due
<1>3. CASE Refuse(r)
  <2> DEFINE x == [req[r] EXCEPT !.at = "refused", !.bearer = None]
  <2>1. req' = [req EXCEPT ![r] = x] /\ x \in Rec /\ x.at = "refused" /\ x.leads = req[r].leads
    BY <1>0, <1>3 DEF Refuse, Rec, Stage
  <2> QED BY <1>0, <1>a, <1>3, <2>1, MoveStep DEF Refuse, client, clientHistory, Due
<1>4. CASE Deny(r) \/ ThrowMissing(r)
  <2> DEFINE x == [req[r] EXCEPT !.at = "denied"]
  <2>1. x \in Rec /\ x.at = "denied" /\ x.leads = req[r].leads /\ req' = [req EXCEPT ![r] = x]
    BY <1>0, <1>4, Moved DEF Deny, ThrowMissing, Stage
  <2>2. req[r].at \in {"posted", "accepted", "missing"} /\ UNCHANGED <<client, server, clientHistory>>
    BY <1>4 DEF Deny, ThrowMissing
  <2> QED BY <1>0, <1>a, <2>1, <2>2, MoveStep DEF client, clientHistory, Due
<1>5. CASE Post(r)
  <2>1. req[r].at = "lookup" /\ req[r].leads /\ UNCHANGED <<client, server, clientHistory>>
    BY <1>5 DEF Post, IInv, LockInv
  <2>2. CASE key["refresh"] = None
    <3> DEFINE x == [req[r] EXCEPT !.at = "missing", !.todo = Entry]
    <3>1. req' = [req EXCEPT ![r] = x] /\ x \in Rec /\ x.at = "missing" /\ x.leads = req[r].leads
      BY <1>0, <1>5, <2>2 DEF Post, Rec, Stage
    <3> QED BY <1>0, <1>a, <2>1, <3>1, MoveStep DEF client, clientHistory, Due
  <2>3. CASE key["refresh"] # None
    <3> DEFINE x == [req[r] EXCEPT !.at = "posted", !.pair = key["refresh"]]
    <3>1. /\ req' = [req EXCEPT ![r] = x] /\ x \in Rec /\ x.at = "posted" /\ x.leads = req[r].leads
          /\ x.pair = key["refresh"]
      BY <1>0, <1>5, <2>3 DEF Post, Rec, Stage, ClientTypeOK, Entry
    <3>2. undisturbed => \A q \in Request : ~ Due(q)
      <4> SUFFICES ASSUME undisturbed, NEW q \in Request, Due(q) PROVE FALSE
        OBVIOUS
      <4>1. q \notin SignIn
        BY DEF IInv, FreshInv, Due
      <4>2. req[q].leads
        BY <4>1 DEF IInv, LockInv, Due
      <4>3. q = r
        BY <2>1, <4>2 DEF IInv, LockInv, SingleFlight
      <4> QED BY <2>1, <4>3 DEF Due
    <3>3. undisturbed' => x.pair = issued
      BY <2>1, <2>3, <3>1, <3>2 DEF IInv, FreshInv, clientHistory
    <3> QED BY <1>0, <1>a, <2>1, <3>1, <3>3, MoveStep DEF client, clientHistory, Due
  <2> QED BY <2>2, <2>3
<1>6. CASE BeginSave(r)
  <2> DEFINE x == [req[r] EXCEPT !.at = "saving", !.todo = Entry]
  <2>1. /\ req' = [req EXCEPT ![r] = x] /\ x \in Rec /\ x.at = "saving" /\ x.leads = req[r].leads
        /\ x.pair = req[r].pair /\ "refresh" \in x.todo
    BY <1>0, <1>6 DEF BeginSave, Rec, Stage, Entry
  <2> QED BY <1>0, <1>a, <1>6, <2>1, MoveStep DEF BeginSave, client, clientHistory, Due
<1>7. CASE BeginClear(r)
  <2> DEFINE x == [req[r] EXCEPT !.at = "clearing", !.pair = None, !.todo = Entry]
  <2>1. req' = [req EXCEPT ![r] = x] /\ x \in Rec /\ x.at = "clearing" /\ x.leads = req[r].leads
    BY <1>0, <1>7 DEF BeginClear, Rec, Stage
  <2> QED BY <1>0, <1>a, <1>7, <2>1, MoveStep DEF BeginClear, client, clientHistory, Due
<1>8. CASE LoseReply(r)
  <2>1. CASE req[r].leads
    <3> DEFINE x == [req[r] EXCEPT !.at = "denied"]
    <3>1. x \in Rec /\ x.at = "denied" /\ x.leads = req[r].leads /\ req' = [req EXCEPT ![r] = x]
      BY <1>0, <1>8, <2>1, Moved DEF LoseReply, Stage
    <3> QED BY <1>0, <1>8, <2>1, <3>1, MoveStep DEF LoseReply, client
  <2>2. CASE ~ req[r].leads
    BY <1>8, <2>2, EndStep DEF LoseReply, client
  <2> QED BY <2>1, <2>2
<1>9. CASE Accept(r)
  <2> DEFINE x == [req[r] EXCEPT !.at = "accepted"]
  <2>1. /\ x \in Rec /\ x.at = "accepted" /\ x.leads = req[r].leads /\ x.pair = req[r].pair
        /\ req' = [req EXCEPT ![r] = x]
    BY <1>0, <1>9, Moved DEF Accept, Stage
  <2>2. req[r].at = "posted" /\ UNCHANGED <<client, server, clientHistory>>
    BY <1>9 DEF Accept
  <2>3. ~ signedOut \/ raced
    BY <1>9 DEF Accept, IInv, OutInv
  <2>4. req[r].leads
    BY <2>2 DEF IInv, LockInv
  <2> QED BY <1>0, <1>a, <2>1, <2>2, <2>3, <2>4, MoveStep DEF client, clientHistory, Due
<1> QED BY <1>1, <1>2, <1>3, <1>4, <1>5, <1>6, <1>7, <1>8, <1>9

(* A 401 waits for the refresh in progress, or starts one.                 *)
LEMMA LockSteps ==
  ASSUME IInv, NEW r \in Request, Queue(r) \/ Lead(r)
  PROVE  IInv'
<1>0. req[r] \in Rec /\ ClientTypeOK
  BY DEF IInv, ClientTypeOK, Rec
<1>1. /\ req[r].at = "refused" /\ UNCHANGED <<key, server, clientHistory>>
      /\ undisturbed => r \notin SignIn \cup SignOut
  BY DEF Queue, Lead, IInv, FreshInv
<1>2. CASE Queue(r)
  <2> DEFINE x == [req[r] EXCEPT !.at = "queued", !.retry = TRUE]
  <2>1. req' = [req EXCEPT ![r] = x] /\ x \in Rec /\ x.at = "queued" /\ x.leads = req[r].leads
    BY <1>0, <1>2 DEF Queue, Rec, Stage
  <2>2. isRefreshing /\ isRefreshing' /\ queue' = queue \cup {r}
    BY <1>2 DEF Queue
  <2>3. LockInv' /\ req' \in [Request -> Rec]
    BY <1>1, <2>1, <2>2, LockKept
  <2>4. undisturbed' => FreshInv'
    BY <1>1, <2>1, FreshKept DEF server, clientHistory, Due
  <2>5. OutInv'
    BY <1>1, <2>1, OutKept DEF server, clientHistory
  <2> QED BY <1>1, <1>2, <2>2, <2>3, <2>4, <2>5 DEF Queue, IInv, ClientTypeOK, Rec, server, clientHistory
<1>3. CASE Lead(r)
  <2> DEFINE x == [req[r] EXCEPT !.at = "lookup", !.retry = TRUE, !.leads = TRUE]
  <2>1. req' = [req EXCEPT ![r] = x] /\ x \in Rec /\ x.at = "lookup" /\ x.leads
    BY <1>0, <1>3 DEF Lead, Rec, Stage
  <2>2. ~ isRefreshing /\ isRefreshing' = TRUE /\ queue' = queue /\ r \notin queue
    BY <1>1, <1>3 DEF Lead, IInv, LockInv
  <2>3. LockInv' /\ req' \in [Request -> Rec]
    BY <1>1, <2>1, <2>2, LockKept
  <2>4. undisturbed' => FreshInv'
    BY <1>1, <2>1, FreshKept DEF server, clientHistory, Due
  <2>5. OutInv'
    BY <1>1, <2>1, OutKept DEF server, clientHistory
  <2> QED BY <1>1, <1>3, <2>2, <2>3, <2>4, <2>5 DEF IInv, ClientTypeOK, Rec, server, clientHistory
<1> QED BY <1>2, <1>3

(* The server issues a pair, or takes all tokens back.                     *)
LEMMA IssueSteps ==
  ASSUME IInv, NEW r \in Request, Rotate(r) \/ ServeSignIn(r) \/ ServeSignOut(r)
  PROVE  IInv'
<1>0. req[r] \in Rec /\ ClientTypeOK
  BY DEF IInv, ClientTypeOK, Rec
<1>1. CASE Rotate(r) \/ ServeSignIn(r)
  <2> DEFINE x == [req[r] EXCEPT !.at = "granted", !.bearer = None, !.pair = issued']
  <2>1. /\ issued < MaxPair /\ issued' = issued + 1
        /\ valid' = valid \cup {issued'} /\ live' \in {{issued'}, live \cup {issued'}}
        /\ req' = [req EXCEPT ![r] = [req[r] EXCEPT !.at = "granted", !.bearer = None, !.pair = issued']]
        /\ UNCHANGED <<client, undisturbed, raced>>
    BY <1>1 DEF Rotate, ServeSignIn, Issue, clientHistory
  <2>2. issued' \in Pair /\ live' \subseteq 1 .. issued' /\ valid' \subseteq 1 .. issued'
    BY <1>0, <2>1, PairFacts DEF ClientTypeOK, Pair
  <2>3. /\ req' = [req EXCEPT ![r] = x] /\ x \in Rec /\ x.at = "granted"
        /\ x.leads = req[r].leads /\ x.pair = issued'
    BY <1>0, <2>1, <2>2 DEF Rec, Stage
  <2>4. LockInv' /\ req' \in [Request -> Rec]
    <3>1. x.leads => isRefreshing
      BY <2>3 DEF IInv, LockInv, SingleFlight
    <3>2. /\ x.leads \/ r \in SignIn
          /\ req[r].at \notin {"idle", "queued"} /\ r \notin queue
      BY <1>1, <2>3 DEF Rotate, ServeSignIn, IInv, LockInv
    <3> QED BY <2>1, <2>3, <3>1, <3>2, LockKept DEF client
  <2>5. undisturbed' => FreshInv'
    <3> SUFFICES ASSUME undisturbed PROVE FreshInv'
      BY <2>1
    <3>1. FreshInv
      BY DEF IInv
    <3>2. Rotate(r) /\ r \notin SignIn \cup SignOut /\ live' = {issued'}
      BY <1>1, <3>1 DEF FreshInv, ServeSignIn, Rotate, Issue
    <3>3. req'[r] = x /\ \A q \in Request : q # r => req'[q] = req[q]
      BY <1>0, <2>3 DEF ClientTypeOK
    <3>4. ASSUME NEW q \in Request, q # r, req[q].at \in Holding
          PROVE  FALSE
      <4>1. req[q].leads /\ req[r].leads
        BY <3>1, <3>2, <3>4 DEF IInv, LockInv, FreshInv, Rotate, Holding
      <4> QED BY <3>4, <4>1 DEF IInv, LockInv, SingleFlight
    <3>5. \A q \in Request : req'[q].at \in Holding => req'[q].pair = issued'
      BY <2>3, <3>3, <3>4
    <3>6. Due(r)'
      BY <2>3, <3>3 DEF Due
    <3>7. \A q \in SignIn \cup SignOut : req'[q].at = "idle"
      BY <3>1, <3>2, <3>3 DEF FreshInv, Request
    <3> QED BY <3>2, <3>5, <3>6, <3>7 DEF FreshInv
  <2>6. OutInv'
    BY <1>1 DEF Rotate, ServeSignIn, clientHistory, IInv, OutInv
  <2>7. signedOut' \in BOOLEAN
    BY <1>0, <1>1 DEF Rotate, ServeSignIn, clientHistory, ClientTypeOK
  <2> QED BY <1>0, <2>1, <2>2, <2>4, <2>5, <2>6, <2>7 DEF IInv, ClientTypeOK, Rec, client
<1>2. CASE ServeSignOut(r)
  <2> DEFINE x == [req[r] EXCEPT !.at = "clearing", !.bearer = None, !.todo = Entry]
  <2>1. req' = [req EXCEPT ![r] = x] /\ x \in Rec /\ x.at = "clearing" /\ x.leads = req[r].leads
    BY <1>0, <1>2 DEF ServeSignOut, Rec, Stage
  <2>2. /\ live' = {} /\ signedOut' = TRUE /\ req[r].at = "sent" /\ r \in SignOut
        /\ UNCHANGED <<client, issued, valid, undisturbed>>
    BY <1>2 DEF ServeSignOut, AfterSignOut
  <2>3. ~ undisturbed
    BY <2>2 DEF IInv, FreshInv
  <2>4. LockInv' /\ req' \in [Request -> Rec]
    <3>1. (x.leads => isRefreshing) /\ r \notin queue
      BY <2>1, <2>2 DEF IInv, LockInv, SingleFlight
    <3> QED BY <2>1, <2>2, <3>1, LockKept DEF client
  <2>5. OutInv' /\ raced' \in BOOLEAN
    <3>1. raced' = \E q \in Request : req[q].at = "accepted"
      BY <1>2 DEF ServeSignOut
    <3>2. \A q \in Request : req'[q].at = "accepted" => req[q].at = "accepted"
      BY <1>0, <2>1 DEF ClientTypeOK
    <3> QED BY <2>2, <3>1, <3>2 DEF OutInv
  <2> QED BY <1>0, <2>2, <2>3, <2>4, <2>5 DEF IInv, ClientTypeOK, Rec, client
<1> QED BY <1>1, <1>2

(* An entry of the keychain is written or deleted.                         *)
LEMMA WriteStep ==
  ASSUME IInv, NEW r \in Request, NEW e \in Entry, WriteKey(r, e)
  PROVE  IInv'
<1> DEFINE x == [req[r] EXCEPT !.todo = req[r].todo \ {e}]
<1>0. req[r] \in Rec /\ ClientTypeOK
  BY DEF IInv, ClientTypeOK, Rec
<1>1. /\ req' = [req EXCEPT ![r] = x] /\ x \in Rec /\ x.at = req[r].at
      /\ x.leads = req[r].leads /\ x.pair = req[r].pair /\ x.todo = req[r].todo \ {e}
  BY <1>0 DEF WriteKey, Rec
<1>2. /\ req[r].at \in {"saving", "missing", "clearing"} /\ e \in req[r].todo
      /\ key' = [key EXCEPT ![e] = IF req[r].at = "saving" THEN req[r].pair ELSE None]
      /\ UNCHANGED <<isRefreshing, queue, server, clientHistory>>
  BY DEF WriteKey
<1>3. LockInv' /\ req' \in [Request -> Rec]
  <2>1. (x.leads => isRefreshing) /\ r \notin queue
    BY <1>1, <1>2 DEF IInv, LockInv, SingleFlight
  <2> QED BY <1>1, <1>2, <2>1, LockKept DEF IInv, LockInv
<1>4. undisturbed' => FreshInv'
  <2> SUFFICES ASSUME undisturbed PROVE FreshInv'
    BY <1>2 DEF clientHistory
  <2>1. FreshInv /\ UNCHANGED <<live, issued>>
    BY <1>2 DEF IInv, server
  <2>2. req'[r] = x /\ \A q \in Request : q # r => req'[q] = req[q]
    BY <1>0, <1>1 DEF ClientTypeOK
  <2>3. \A q \in SignIn \cup SignOut : req'[q].at = "idle"
    BY <1>1, <2>1, <2>2 DEF FreshInv, Request
  <2>4. \A q \in Request : req'[q].at \in Holding => req'[q].pair = issued
    BY <1>1, <2>1, <2>2 DEF FreshInv
  <2>5. CASE e = "refresh"
    BY <1>0, <1>2, <2>1, <2>3, <2>4, <2>5 DEF FreshInv, ClientTypeOK, Entry, Holding
  <2>6. CASE e = "access"
    <3>1. key'["refresh"] = key["refresh"]
      BY <1>0, <1>2, <2>6 DEF ClientTypeOK, Entry
    <3>2. \A q \in Request : Due(q) => Due(q)'
      BY <1>1, <2>2, <2>6 DEF Due
    <3> QED BY <2>1, <2>3, <2>4, <3>1, <3>2 DEF FreshInv
  <2> QED BY <2>5, <2>6 DEF Entry
<1>5. key' \in [Entry -> Pair \cup {None}]
  BY <1>0, <1>2 DEF ClientTypeOK, Rec
<1>6. OutInv'
  BY <1>1, <1>2, OutKept DEF server, clientHistory
<1> QED BY <1>0, <1>2, <1>3, <1>4, <1>5, <1>6 DEF IInv, ClientTypeOK, Rec, server, clientHistory

(* The queued requests and the leader's own are sent again.                *)
LEMMA RefreshedStep ==
  ASSUME IInv, NEW r \in Request, Refreshed(r)
  PROVE  IInv'
<1>0. ClientTypeOK /\ \A q \in Request : req[q] \in Rec
  BY DEF IInv, ClientTypeOK, Rec
<1>1. /\ req[r].at = "saving" /\ req[r].leads /\ req[r].todo = {}
      /\ queue' = {} /\ isRefreshing' = FALSE /\ UNCHANGED <<key, server, clientHistory>>
      /\ req' = [q \in Request |->
                   IF q \in queue \cup {r}
                   THEN [req[q] EXCEPT !.at = "reading", !.leads = FALSE, !.pair = None]
                   ELSE req[q]]
  BY DEF Refreshed
<1>2. \A q \in queue \cup {r} : req'[q] \in Rec /\ req'[q].at = "reading" /\ ~ req'[q].leads
  <2> SUFFICES ASSUME NEW q \in queue \cup {r}
               PROVE  req'[q] \in Rec /\ req'[q].at = "reading" /\ ~ req'[q].leads
    OBVIOUS
  <2>1. q \in Request /\ req[q] \in Rec
    BY <1>0 DEF ClientTypeOK
  <2>2. req'[q] = [req[q] EXCEPT !.at = "reading", !.leads = FALSE, !.pair = None]
    BY <1>1, <2>1
  <2>3. \A x \in Rec : LET y == [x EXCEPT !.at = "reading", !.leads = FALSE, !.pair = None]
                       IN  y \in Rec /\ y.at = "reading" /\ ~ y.leads
    BY DEF Rec, Stage
  <2> QED BY <2>1, <2>2, <2>3
<1>3. \A q \in Request : q \notin queue \cup {r} => req'[q] = req[q]
  BY <1>1
<1>4. req' \in [Request -> Rec]
  BY <1>0, <1>1, <1>2, <1>3
<1>5. \A q \in Request : ~ req'[q].leads
  BY <1>1, <1>2, <1>3 DEF IInv, LockInv, SingleFlight
<1>6. LockInv'
  <2>1. req'[Me].at # "idle" => req'[Device] = Fresh
    <3>1. Me \in Request /\ Device \in Request /\ Fresh.at = "idle"
      BY FreshFacts DEF Request, Launch
    <3>2. \A q \in queue \cup {r} : req[q].at # "idle"
      BY <1>1 DEF IInv, LockInv
    <3>3. req[Me].at # "idle" => req[Device] = Fresh
      BY DEF IInv, LockInv
    <3>4. req'[Me].at # "idle" => req[Me].at # "idle"
      BY <1>3, <3>1, <3>2
    <3>5. req[Device] = Fresh => Device \notin queue \cup {r}
      BY <3>1, <3>2
    <3> QED BY <1>3, <3>1, <3>3, <3>4, <3>5
  <2>2. \A q \in Request : req'[q].at \in {"lookup", "posted", "accepted", "missing", "denied", "granted", "saving"}
           => req'[q] = req[q]
    BY <1>2, <1>3
  <2>3. \A q \in Request : req'[q].at \notin {"lookup", "posted", "accepted", "missing", "denied"}
    BY <1>5, <2>2 DEF IInv, LockInv
  <2>4. \A q \in Request : req'[q].at \in {"granted", "saving"} => q \in SignIn
    BY <1>5, <2>2 DEF IInv, LockInv
  <2> QED BY <1>1, <1>5, <2>1, <2>3, <2>4 DEF LockInv, SingleFlight
<1>7. undisturbed' => FreshInv'
  <2> SUFFICES ASSUME undisturbed PROVE FreshInv'
    BY <1>1 DEF clientHistory
  <2>1. FreshInv /\ UNCHANGED <<key, live, issued>>
    BY <1>1 DEF IInv, server
  <2>2. \A q \in SignIn \cup SignOut : q \in Request /\ q \notin queue \cup {r}
    BY <1>1, <2>1 DEF FreshInv, IInv, LockInv, Request
  <2>3. \A q \in SignIn \cup SignOut : req'[q].at = "idle"
    BY <1>3, <2>1, <2>2 DEF FreshInv
  <2>4. \A q \in Request : req'[q].at \in Holding => req'[q].pair = issued
    BY <1>2, <1>3, <2>1 DEF FreshInv, Holding
  <2>5. \A q \in Request : Due(q) => Due(q)'
    <3> SUFFICES ASSUME NEW q \in Request, Due(q) PROVE Due(q)'
      OBVIOUS
    <3>1. q # r /\ q \notin queue
      BY <1>1 DEF Due, IInv, LockInv
    <3> QED BY <1>3, <3>1 DEF Due
  <2> QED BY <2>1, <2>3, <2>4, <2>5 DEF FreshInv
<1>8. OutInv'
  BY <1>1, <1>2, <1>3 DEF IInv, OutInv, server, clientHistory
<1> QED BY <1>0, <1>1, <1>4, <1>6, <1>7, <1>8 DEF IInv, ClientTypeOK, Rec, server, clientHistory

LEMMA RestartStep ==
  ASSUME IInv, Restart
  PROVE  IInv'
<1>1. \A r \in Request : Idles(req'[r]) /\ (r # Me => req'[r] = Fresh)
  BY StartedFacts DEF Restart
<1>2. req' \in [Request -> Rec]
  BY <1>1 DEF Restart, Started, Idles
<1>3. LockInv'
  BY <1>1, KindAssumption DEF Restart, LockInv, SingleFlight, Idles, Request, Launch
<1>4. OutInv'
  BY <1>1 DEF Restart, IInv, OutInv, Idles, server
<1> QED BY <1>2, <1>3, <1>4 DEF Restart, IInv, ClientTypeOK, Rec, server

LEMMA StepIInv == IInv /\ [ClientNext]_clientVars => IInv'
<1> SUFFICES ASSUME IInv, [ClientNext]_clientVars PROVE IInv'
  OBVIOUS
<1>1. ASSUME NEW n \in Pair, Expire(n) PROVE IInv'
  BY <1>1 DEF Expire, client, clientHistory, IInv, ClientTypeOK, LockInv, SingleFlight, FreshInv, OutInv, Due
<1>2. CASE UNCHANGED clientVars
  BY <1>2 DEF clientVars, client, server, clientHistory, IInv, ClientTypeOK, LockInv, SingleFlight, FreshInv, OutInv, Due
<1> QED
  BY <1>1, <1>2, EndSteps, MoveSteps, LockSteps, IssueSteps, WriteStep, RefreshedStep, RestartStep
  DEF ClientNext, Progress, Answer

-----------------------------------------------------------------------------
(* The theorems                                                            *)

(* The types of the requests, the keychain and the server's tokens.        *)
THEOREM ClientTypeCorrect == ClientSpec => []ClientTypeOK
<1>1. IInv => ClientTypeOK
  BY DEF IInv
<1> QED BY <1>1, InitIInv, StepIInv, PTL DEF ClientSpec

(* isRefreshing is a lock, for any number of requests.                     *)
THEOREM OneRefresh == ClientSpec => []SingleFlight
<1>1. IInv => SingleFlight
  BY DEF IInv, LockInv
<1> QED BY <1>1, InitIInv, StepIInv, PTL DEF ClientSpec

(* The refresh posts the live token unless something disturbed it, for any *)
(* number of rotations.                                                    *)
THEOREM LiveTokenPresented == ClientSpec => []PresentsLiveToken
<1>1. IInv => PresentsLiveToken
  BY DEF IInv, FreshInv, Holding, PresentsLiveToken
<1> QED BY <1>1, InitIInv, StepIInv, PTL DEF ClientSpec

(* Nothing a refresh saves after a sign-out is a live token, unless it had *)
(* passed the server's check when the sign-out was committed.              *)
THEOREM SignOutIsFinal == ClientSpec => []SignOutHolds
<1>1. IInv => SignOutHolds
  BY DEF IInv, OutInv, SignOutHolds
<1> QED BY <1>1, InitIInv, StepIInv, PTL DEF ClientSpec

=============================================================================
