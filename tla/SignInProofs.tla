------------------------------ MODULE SignInProofs ------------------------------
(* Theorems about SignIn, for any number of accounts, of handlers at a     *)
(* time and of flows.                                                      *)
EXTENDS SignIn, TLAPS

-----------------------------------------------------------------------------
(* Types                                                                   *)

(* A sign-in, a registration and a reset name their account.               *)
Named ==
  \A s \in Slot : At(s, {"login", "register", "reset"}, "post") => flow[s].acct \in Account

Types == TypeOK /\ Named

Running == [at : {"sent", "read", "granted"}, token : Token]

LEMMA Tokens ==
  /\ None \notin Account /\ "error" \notin Account
  /\ NoToken \notin Token /\ NoToken.acct = None /\ NoToken.scope = "full" /\ ~ NoToken.live
  /\ NoRefresh \notin Running /\ NoRefresh.at = "none" /\ NoRefresh.token = NoToken
  /\ \A k \in Token : k.acct \in Account /\ k.scope \in {"full", "change_only"} /\ k.live \in BOOLEAN
  /\ \A r \in Running : r.at \in {"sent", "read", "granted"} /\ r.token \in Token
<1>1. None \notin Account /\ "error" \notin Account
  BY AccountAssumption DEF None
<1>2. /\ NoToken.acct = None /\ NoToken.scope = "full" /\ ~ NoToken.live
      /\ NoRefresh.at = "none" /\ NoRefresh.token = NoToken
  BY DEF NoToken, NoRefresh
<1>3. /\ \A k \in Token : k.acct \in Account /\ k.scope \in {"full", "change_only"} /\ k.live \in BOOLEAN
      /\ \A r \in Running : r.at \in {"sent", "read", "granted"} /\ r.token \in Token
  BY DEF Token, Running
<1> QED BY <1>1, <1>2, <1>3

LEMMA Issues ==
  ASSUME NEW a \in Account
  PROVE  /\ Issued(a) \in Token /\ Issued(a).acct = a /\ Issued(a).live
         /\ Issued(a).scope = "full" => account[a] # "must"
         /\ Unscoped(a) \in Token /\ Unscoped(a).acct = a /\ Unscoped(a).scope = "full"
BY DEF Issued, Unscoped, Token

(* A revoked token is the same but for its life.                           *)
LEMMA Revokes ==
  ASSUME NEW k \in Token \cup {NoToken}, NEW a \in Account
  PROVE  /\ Revoked(k, a) \in Token \cup {NoToken}
         /\ k \in Token <=> Revoked(k, a) \in Token
         /\ Revoked(k, a) = NoToken <=> k = NoToken
         /\ Revoked(k, a).acct = k.acct /\ Revoked(k, a).scope = k.scope
         /\ Revoked(k, a).live => k.live
<1>1. CASE k = NoToken
  <2>1. Revoked(k, a) = NoToken
    BY <1>1, Tokens DEF Revoked
  <2> QED BY <1>1, <2>1, Tokens
<1>2. CASE k \in Token
  <2>1. CASE k.acct = a
    <3>1. Revoked(k, a) = [k EXCEPT !.live = FALSE]
      BY <2>1 DEF Revoked
    <3>2. /\ Revoked(k, a) \in Token
          /\ Revoked(k, a).acct = k.acct /\ Revoked(k, a).scope = k.scope
          /\ ~ Revoked(k, a).live
      BY <1>2, <3>1 DEF Token
    <3> QED BY <1>2, <3>2, Tokens
  <2>2. CASE k.acct # a
    BY <1>2, <2>2, Tokens DEF Revoked
  <2> QED BY <2>1, <2>2
<1> QED BY <1>1, <1>2

LEMMA Calls ==
  /\ Idle \in Call /\ Idle.at = "idle" /\ Idle.of = None
  /\ Held \in Call /\ Held.at = "held" /\ Held.of = None
  /\ \A k \in Token \cup {NoToken} :
       /\ Sent(k) \in Call /\ Sent(k).at = "sent"
       /\ Sent(k).of = k.acct /\ Sent(k).scope = k.scope
       /\ [Sent(k) EXCEPT !.again = TRUE] \in Call
       /\ [Sent(k) EXCEPT !.again = TRUE].at = "sent"
       /\ [Sent(k) EXCEPT !.again = TRUE].of = k.acct
       /\ [Sent(k) EXCEPT !.again = TRUE].scope = k.scope
  /\ \A g \in Account \cup {"error"} :
       Answered(g) \in Call /\ Answered(g).at = "answered" /\ Answered(g).of = g
<1>1. /\ Idle \in Call /\ Idle.at = "idle" /\ Idle.of = None
      /\ Held \in Call /\ Held.at = "held" /\ Held.of = None
  BY DEF Idle, Held, Call
<1>2. ASSUME NEW k \in Token \cup {NoToken}
      PROVE  /\ Sent(k) \in Call /\ Sent(k).at = "sent"
             /\ Sent(k).of = k.acct /\ Sent(k).scope = k.scope
             /\ [Sent(k) EXCEPT !.again = TRUE] \in Call
             /\ [Sent(k) EXCEPT !.again = TRUE].at = "sent"
             /\ [Sent(k) EXCEPT !.again = TRUE].of = k.acct
             /\ [Sent(k) EXCEPT !.again = TRUE].scope = k.scope
  <2>1. k.acct \in Account \cup {None} /\ k.scope \in {"full", "change_only"}
    BY Tokens
  <2> QED BY <2>1 DEF Sent, Idle, Call
<1>3. ASSUME NEW g \in Account \cup {"error"}
      PROVE  Answered(g) \in Call /\ Answered(g).at = "answered" /\ Answered(g).of = g
  BY DEF Answered, Idle, Call
<1> QED BY <1>1, <1>2, <1>3

LEMMA Parts ==
  ASSUME Types
  PROVE  /\ key \in Token \cup {NoToken} /\ key.acct \in Account \cup {None}
         /\ refresh \in {NoRefresh} \cup Running /\ refresh.token \in Token \cup {NoToken}
         /\ refresh # NoRefresh => refresh.token \in Token
         /\ MyList \in Caller /\ Slot \subseteq Caller /\ MyList \notin Slot
         /\ \A s \in Slot : /\ flow[s] \in Flow \cup {NoFlow}
                            /\ flow[s].stage \in {"post", "ask", "me", "push", "timer"}
                            /\ flow[s].kind \in Kind \cup {None}
<1>1. key \in Token \cup {NoToken} /\ refresh \in {NoRefresh} \cup Running
  BY DEF Types, TypeOK, Running
<1>2. \A s \in Slot : flow[s] \in Flow \cup {NoFlow}
  BY DEF Types, TypeOK
<1>3. /\ NoFlow.stage = "post" /\ NoFlow.kind = None
      /\ \A f \in Flow : f.stage \in {"post", "ask", "me", "push", "timer"} /\ f.kind \in Kind
  BY DEF NoFlow, Flow
<1>4. \A s \in Slot : /\ flow[s].stage \in {"post", "ask", "me", "push", "timer"}
                      /\ flow[s].kind \in Kind \cup {None}
  BY <1>2, <1>3
<1> QED BY <1>1, <1>2, <1>4, Tokens, SlotAssumption DEF Caller

-----------------------------------------------------------------------------
(* The effect of a step on what waits: every request keeps its place but   *)
(* those the step sends, answers or ends.                                  *)

LEMMA RevokeAllTypes ==
  ASSUME Types, NEW a \in Account, RevokeAll(a)
  PROVE  /\ key' \in Token \cup {NoToken} /\ refresh' \in {NoRefresh} \cup Running
         /\ key'.acct = key.acct /\ key'.scope = key.scope /\ (key' = NoToken <=> key = NoToken)
         /\ (refresh' = NoRefresh <=> refresh = NoRefresh) /\ refresh'.at = refresh.at
         /\ refresh'.token = Revoked(refresh.token, a)
         /\ refresh'.token \in Token \cup {NoToken}
         /\ refresh'.token.acct = refresh.token.acct /\ refresh'.token.scope = refresh.token.scope
<1>1. key' = Revoked(key, a) /\ refresh' = [refresh EXCEPT !.token = Revoked(refresh.token, a)]
  BY DEF RevokeAll
<1>2. /\ key' \in Token \cup {NoToken} /\ (key' = NoToken <=> key = NoToken)
      /\ key'.acct = key.acct /\ key'.scope = key.scope
  BY <1>1, Parts, Revokes
<1>3. CASE refresh = NoRefresh
  <2>1. Revoked(NoToken, a) = NoToken
    BY Tokens DEF Revoked
  <2>2. refresh' = NoRefresh
    BY <1>1, <1>3, <2>1 DEF NoRefresh
  <2> QED BY <1>2, <1>3, <2>1, <2>2, Tokens
<1>4. CASE refresh \in Running
  <2>1. /\ Revoked(refresh.token, a) \in Token
        /\ Revoked(refresh.token, a).acct = refresh.token.acct
        /\ Revoked(refresh.token, a).scope = refresh.token.scope
    BY <1>4, Revokes, Tokens
  <2>2. refresh' \in Running /\ refresh'.at = refresh.at /\ refresh'.token = Revoked(refresh.token, a)
    BY <1>1, <1>4, <2>1 DEF Running
  <2> QED BY <1>2, <1>4, <2>1, <2>2, Tokens
<1> QED BY <1>3, <1>4, Parts

LEMMA AnswerTypes ==
  ASSUME Types, NEW c \in Caller, NEW g \in Account \cup {"error"}, Answer(c, g)
  PROVE  call' \in [Caller -> Call]
<1>1. call' = [call EXCEPT ![c] = Answered(g)] /\ Answered(g) \in Call
  BY Calls DEF Answer
<1> QED BY <1>1 DEF Types, TypeOK

LEMMA SendTypes ==
  ASSUME Types, NEW c \in Caller, NEW k \in Token \cup {NoToken}
  PROVE  [call EXCEPT ![c] = Sent(k)] \in [Caller -> Call]
<1>1. Sent(k) \in Call
  BY Calls
<1> QED BY <1>1 DEF Types, TypeOK

LEMMA EndsTypes ==
  ASSUME Types, NEW s \in Slot, Ends(s)
  PROVE  /\ flow' \in [Slot -> Flow \cup {NoFlow}] /\ call' \in [Caller -> Call] /\ Named'
         /\ flow' = [flow EXCEPT ![s] = NoFlow] /\ call' = [call EXCEPT ![s] = Idle]
<1>1. flow' = [flow EXCEPT ![s] = NoFlow] /\ call' = [call EXCEPT ![s] = Idle]
  BY DEF Ends
<1>2. call' \in [Caller -> Call]
  BY <1>1, Calls, Parts DEF Types, TypeOK
<1>3. flow' \in [Slot -> Flow \cup {NoFlow}]
  BY <1>1 DEF Types, TypeOK
<1>4. \A q \in Slot : flow'[q] = IF q = s THEN NoFlow ELSE flow[q]
  BY <1>1 DEF Types, TypeOK
<1>5. NoFlow.kind = None
  BY DEF NoFlow
<1>6. Named'
  BY <1>4, <1>5 DEF Types, Named, At, None
<1> QED BY <1>1, <1>2, <1>3, <1>6

LEMMA MovesTypes ==
  ASSUME Types, NEW s \in Slot, NEW stage \in {"ask", "push", "timer"}, flow[s].kind \in Kind,
         Moves(s, stage)
  PROVE  /\ flow' \in [Slot -> Flow \cup {NoFlow}] /\ call' \in [Caller -> Call] /\ Named'
         /\ call' = [call EXCEPT ![s] = Idle]
         /\ \A q \in Slot : q # s => flow'[q] = flow[q]
         /\ flow'[s].kind = flow[s].kind /\ flow'[s].stage = stage
<1>1. flow' = [flow EXCEPT ![s].stage = stage, ![s].acct = None] /\ call' = [call EXCEPT ![s] = Idle]
  BY DEF Moves
<1>2. call' \in [Caller -> Call]
  BY <1>1, Calls, Parts DEF Types, TypeOK
<1>3. flow[s] \in Flow
  BY Parts, Tokens DEF NoFlow, Kind, None
<1>4. flow'[s] \in Flow /\ flow'[s].kind = flow[s].kind /\ flow'[s].stage = stage
  BY <1>1, <1>3 DEF Types, TypeOK, Flow
<1>5. \A q \in Slot : q # s => flow'[q] = flow[q]
  BY <1>1 DEF Types, TypeOK
<1>6. flow' \in [Slot -> Flow \cup {NoFlow}]
  BY <1>1, <1>4, <1>5 DEF Types, TypeOK
<1>7. Named'
  BY <1>4, <1>5 DEF Types, Named, At
<1> QED BY <1>1, <1>2, <1>4, <1>5, <1>6, <1>7

(* What a step does to the requests and the flows, with the parts of the   *)
(* invariants that hang on it: a new flow, ...                             *)
LEMMA BeginTypes ==
  ASSUME Types, NEW s \in Slot, NEW kind \in Kind, NEW a \in Account \cup {None},
         kind \in {"login", "register", "reset"} => a \in Account,
         Begin(s, kind, a)
  PROVE  /\ flow' \in [Slot -> Flow \cup {NoFlow}] /\ call' \in [Caller -> Call] /\ Named'
         /\ begun' \in 0 .. MaxFlows /\ crossed' \in BOOLEAN
         /\ flow[s] = NoFlow
         /\ \A q \in Slot : q # s => flow'[q] = flow[q]
         /\ flow'[s].kind = kind /\ flow'[s].stage = "post"
         /\ call' = [call EXCEPT ![s] = Sent(IF a = None THEN key ELSE NoToken)]
<1>1. /\ flow[s] = NoFlow
      /\ flow' = [flow EXCEPT ![s] = [NoFlow EXCEPT !.kind = kind, !.acct = a]]
      /\ call' = [call EXCEPT ![s] = Sent(IF a = None THEN key ELSE NoToken)]
      /\ begun < MaxFlows /\ begun' = begun + 1
      /\ crossed' = (crossed \/ ~ Alone(s))
  BY DEF Begin, Free
<1>2. call' \in [Caller -> Call]
  <2>1. (IF a = None THEN key ELSE NoToken) \in Token \cup {NoToken}
    BY Parts
  <2> QED BY <1>1, <2>1, SendTypes, Parts
<1>3. begun' \in 0 .. MaxFlows /\ crossed' \in BOOLEAN
  BY <1>1, FlowsAssumption DEF Types, TypeOK
<1> DEFINE f == [NoFlow EXCEPT !.kind = kind, !.acct = a]
<1>4. f \in Flow /\ f.kind = kind /\ f.stage = "post" /\ f.acct = a
  BY DEF NoFlow, Flow
<1>5. flow'[s] = f /\ \A q \in Slot : q # s => flow'[q] = flow[q]
  BY <1>1 DEF Types, TypeOK
<1>6. flow' \in [Slot -> Flow \cup {NoFlow}]
  BY <1>1, <1>4 DEF Types, TypeOK
<1>7. Named'
  BY <1>4, <1>5 DEF Types, Named, At
<1> QED BY <1>1, <1>2, <1>3, <1>4, <1>5, <1>6, <1>7

(* ... the tabs that mount, ...                                            *)
LEMMA MountTypes ==
  ASSUME Types, NEW s \in Slot, NEW u, Mount(s, u)
  PROVE  /\ flow' \in [Slot -> Flow \cup {NoFlow}] /\ call' \in [Caller -> Call] /\ Named'
         /\ flow' = [flow EXCEPT ![s] = NoFlow] /\ excused' \in BOOLEAN
         /\ call'[s] = Idle /\ call'[MyList] \in {call[MyList], Sent(key)}
         /\ \A q \in Slot : q # s => call'[q] = call[q]
<1>1. flow' = [flow EXCEPT ![s] = NoFlow]
  BY DEF Mount
<1>2. \A q \in Slot : flow'[q] = IF q = s THEN NoFlow ELSE flow[q]
  BY <1>1 DEF Types, TypeOK
<1>3. flow' \in [Slot -> Flow \cup {NoFlow}] /\ Named'
  <2>1. NoFlow.kind = None
    BY DEF NoFlow
  <2> QED BY <1>1, <1>2, <2>1 DEF Types, TypeOK, Named, At, None
<1>4. PICK stale \in Staleness :
        /\ call' = [call EXCEPT ![s] = Idle,
                     ![MyList] = IF @.at = "idle" /\ Fetches(stale) THEN Sent(key) ELSE @]
        /\ excused' = IF call[MyList].at = "idle" THEN ~ stale /\ cache # u
                      ELSE excused \/ (call[MyList].at # "held" /\ call[MyList].of # u)
  BY DEF Mount
<1>5. excused' \in BOOLEAN
  BY <1>4 DEF Types, TypeOK
<1>6. call'[s] = Idle /\ \A q \in Slot : q # s => call'[q] = call[q]
  BY <1>4, Parts DEF Types, TypeOK
<1>7. call'[MyList] \in {call[MyList], Sent(key)}
  BY <1>4, Parts DEF Types, TypeOK
<1>8. Idle \in Call /\ Sent(key) \in Call
  BY Calls, Parts
<1>9. call' \in [Caller -> Call]
  BY <1>4, <1>8, Parts DEF Types, TypeOK
<1> QED BY <1>1, <1>3, <1>5, <1>6, <1>7, <1>9

(* ... a refresh that is saved: what waited is sent again, and what the    *)
(* server answers to a flow that has an effect there.                      *)
LEMMA SavedTypes ==
  ASSUME Types, RefreshSaved
  PROVE  /\ call' \in [Caller -> Call] /\ refresh.token \in Token /\ refresh \in Running
         /\ \A c \in Caller : call'[c] # call[c] =>
              call'[c].at = "sent" /\ call'[c].of = refresh.token.acct /\ call'[c].scope = refresh.token.scope
<1>1. /\ refresh.at = "granted"
      /\ call' = [c \in Caller |-> IF call[c].at = "held"
                                   THEN [Sent(refresh.token) EXCEPT !.again = TRUE] ELSE call[c]]
  BY DEF RefreshSaved
<1>2. refresh # NoRefresh
  BY <1>1, Tokens
<1>3. refresh \in Running /\ refresh.token \in Token
  BY <1>2, Parts
<1> DEFINE k == [Sent(refresh.token) EXCEPT !.again = TRUE]
<1>4. k \in Call /\ k.at = "sent" /\ k.of = refresh.token.acct /\ k.scope = refresh.token.scope
  BY <1>3, Calls
<1>5. \A c \in Caller : call'[c] = IF call[c].at = "held" THEN k ELSE call[c]
  BY <1>1
<1> HIDE DEF k
<1>6. call' \in [Caller -> Call]
  BY <1>1, <1>4 DEF Types, TypeOK, k
<1> QED BY <1>3, <1>4, <1>5, <1>6

LEMMA AcceptsTypes ==
  ASSUME Types, NEW c \in Caller, Accepts(c)
  PROVE  call[c].at = "sent" /\ call[c].of \in Account /\ Exists(call[c].of)
BY DEF Accepts

LEMMA RepliesTypes ==
  ASSUME Types, NEW c \in Caller, call[c].of \in Account, Replies(c)
  PROVE  /\ call' \in [Caller -> Call]
         /\ \E g \in {call[c].of, "error"} : call' = [call EXCEPT ![c] = Answered(g)]
<1>1. PICK g \in {call[c].of, "error"} : Answer(c, g)
  BY DEF Replies
<1> QED BY <1>1, AnswerTypes DEF Answer

LEMMA Sets ==
  /\ \A a \in Account : account \in [Account -> Status] =>
       \A st \in Status : [account EXCEPT ![a] = st] \in [Account -> Status]
  /\ "active" \in Status /\ "deleted" \in Status
  /\ {"launch", "login", "register", "reset", "change", "logout", "delete"} = Kind
BY DEF Status, Kind

LEMMA InitTypes == Init => Types
<1> SUFFICES ASSUME Init PROVE Types
  OBVIOUS
<1>1. key \in Token \cup {NoToken}
  BY Issues DEF Init
<1>2. Idle \in Call /\ Sent(key) \in Call
  BY <1>1, Calls
<1>3. call \in [Caller -> Call]
  BY <1>2 DEF Init
<1>4. PICK s \in Slot : flow = [NoFlows EXCEPT ![s].kind = "launch"]
  BY DEF Init, Launching
<1>5. [NoFlow EXCEPT !.kind = "launch"] \in Flow
  BY DEF NoFlow, Flow, Kind
<1>6. \A q \in Slot : flow[q] = IF q = s THEN [NoFlow EXCEPT !.kind = "launch"] ELSE NoFlow
  BY <1>4 DEF NoFlows
<1>7. flow \in [Slot -> Flow \cup {NoFlow}]
  BY <1>4, <1>5 DEF NoFlows
<1>8. Named
  <2>1. NoFlow.kind = None /\ [NoFlow EXCEPT !.kind = "launch"].kind = "launch"
    BY DEF NoFlow
  <2> QED BY <1>6, <2>1 DEF Named, At, None
<1>9. account \in [Account -> Status]
  BY DEF Init, Status
<1>10. begun \in 0 .. MaxFlows /\ aged \subseteq Account /\ cache \in Account \cup {None}
  BY FlowsAssumption DEF Init, NoData
<1>11. /\ refresh = NoRefresh /\ user = None /\ screen = "tabs"
       /\ crossed = FALSE /\ out = FALSE /\ excused = FALSE
  BY DEF Init
<1> QED BY <1>1, <1>3, <1>7, <1>8, <1>9, <1>10, <1>11 DEF Types, TypeOK

(* A start of the app.                                                     *)
LEMMA StartTypes ==
  ASSUME Types, Restart
  PROVE  /\ Types'
         /\ \A s \in Slot : flow'[s].kind = "launch" => flow'[s].stage = "post"
         /\ \A s \in Slot : flow'[s].kind \in {None, "launch"} /\ flow'[s].stage = "post"
         /\ \A s, q \in Slot : flow'[s] # NoFlow /\ flow'[q] # NoFlow => s = q
         /\ \A s \in Slot : call'[s] = Idle
         /\ call'[MyList] = Sent(key)
<1>1. /\ user' = None /\ screen' = "tabs" /\ flow' \in Launching
      /\ call' = [[c \in Caller |-> Idle] EXCEPT ![MyList] = Sent(key)]
      /\ refresh' = NoRefresh /\ cache' = NoData
      /\ crossed' = FALSE /\ excused' = FALSE
      /\ UNCHANGED <<account, key, begun, aged, out>>
  BY DEF Restart, Started
<1>2. Idle \in Call /\ Sent(key) \in Call
  BY Parts, Calls
<1>3. /\ call' \in [Caller -> Call] /\ call'[MyList] = Sent(key)
      /\ \A s \in Slot : call'[s] = Idle
  BY <1>1, <1>2, Parts
<1>4. PICK s \in Slot : flow' = [NoFlows EXCEPT ![s].kind = "launch"]
  BY <1>1 DEF Launching
<1>5. /\ [NoFlow EXCEPT !.kind = "launch"] \in Flow
      /\ [NoFlow EXCEPT !.kind = "launch"].kind = "launch"
      /\ [NoFlow EXCEPT !.kind = "launch"].stage = "post"
      /\ NoFlow.kind = None /\ NoFlow.stage = "post"
  BY DEF NoFlow, Flow, Kind
<1>6. \A q \in Slot : flow'[q] = IF q = s THEN [NoFlow EXCEPT !.kind = "launch"] ELSE NoFlow
  BY <1>4 DEF NoFlows
<1>7. flow' \in [Slot -> Flow \cup {NoFlow}]
  BY <1>4, <1>5 DEF NoFlows
<1>8. /\ \A q \in Slot : flow'[q].kind \in {None, "launch"} /\ flow'[q].stage = "post"
      /\ \A p, q \in Slot : flow'[p] # NoFlow /\ flow'[q] # NoFlow => p = q
  BY <1>5, <1>6
<1>9. Named'
  BY <1>8 DEF Named, At, None
<1>10. Types'
  BY <1>1, <1>3, <1>7, <1>9 DEF Types, TypeOK, NoData
<1> QED BY <1>3, <1>8, <1>10

(* Every step of a request, of a refresh, ...                              *)
LEMMA RequestTypes ==
  ASSUME Types,
         \/ \E c \in Caller : Read(c) \/ Refused(c)
         \/ \E s \in Slot : ChangedOnServer(s) \/ SignedOutOnServer(s) \/ DeletedOnServer(s)
         \/ OtherRefused \/ RefreshRead \/ RefreshCommitted \/ RefreshSaved \/ RefreshFailed
  PROVE  Types'
<1> USE DEF client, shown, lists, history
<1>1. ASSUME NEW c \in Caller, Read(c) PROVE Types'
  <2>1. Answer(c, call[c].of) /\ call[c].of \in Account
    BY <1>1 DEF Read, Accepts
  <2> QED BY <1>1, <2>1, AnswerTypes DEF Read, Types, TypeOK, Named, At
<1>2. ASSUME NEW c \in Caller, Refused(c) PROVE Types'
  <2>1. CASE refresh = NoRefresh /\ key = NoToken
    BY <1>2, <2>1, AnswerTypes DEF Refused, Types, TypeOK, Named, At
  <2>2. CASE ~ (refresh = NoRefresh /\ key = NoToken)
    <3>1. call' = [call EXCEPT ![c] = Held] /\ Held \in Call
      BY <1>2, <2>2, Calls DEF Refused
    <3>2. call' \in [Caller -> Call]
      BY <3>1 DEF Types, TypeOK
    <3>3. refresh' = IF refresh = NoRefresh THEN Posted(key) ELSE refresh
      BY <1>2, <2>2 DEF Refused
    <3>4. refresh' \in {NoRefresh} \cup Running
      BY <2>2, <3>3, Parts DEF Posted, Running
    <3> QED BY <1>2, <3>2, <3>4 DEF Refused, Types, TypeOK, Named, At, Running
  <2> QED BY <2>1, <2>2
<1>3. ASSUME NEW s \in Slot, ChangedOnServer(s) PROVE Types'
  <2>1. call[s].of \in Account /\ call' \in [Caller -> Call]
    BY <1>3, RepliesTypes, Parts DEF ChangedOnServer, Accepts
  <2>2. key' \in Token \cup {NoToken} /\ refresh' \in {NoRefresh} \cup Running
    BY <1>3, <2>1, RevokeAllTypes DEF ChangedOnServer
  <2> QED BY <1>3, <2>1, <2>2, Sets DEF ChangedOnServer, Types, TypeOK, Named, At, Running
<1>4. ASSUME NEW s \in Slot, SignedOutOnServer(s) PROVE Types'
  <2>1. call[s].of \in Account /\ call' \in [Caller -> Call]
    BY <1>4, RepliesTypes, Parts DEF SignedOutOnServer, Accepts
  <2>2. key' \in Token \cup {NoToken} /\ refresh' \in {NoRefresh} \cup Running
    BY <1>4, <2>1, RevokeAllTypes DEF SignedOutOnServer
  <2> QED BY <1>4, <2>1, <2>2 DEF SignedOutOnServer, Types, TypeOK, Named, At, Running
<1>5. ASSUME NEW s \in Slot, DeletedOnServer(s) PROVE Types'
  <2>1. call[s].of \in Account /\ call' \in [Caller -> Call]
    BY <1>5, RepliesTypes, Parts DEF DeletedOnServer, Accepts
  <2>2. key' \in Token \cup {NoToken} /\ refresh' \in {NoRefresh} \cup Running
    BY <1>5, <2>1, RevokeAllTypes DEF DeletedOnServer
  <2> QED BY <1>5, <2>1, <2>2, Sets DEF DeletedOnServer, Types, TypeOK, Named, At, Running
<1>6. CASE OtherRefused
  <2>1. refresh' \in {NoRefresh} \cup Running
    BY <1>6, Parts DEF OtherRefused, Posted, Running
  <2> QED BY <1>6, <2>1 DEF OtherRefused, Types, TypeOK, Named, At, Running
<1>7. CASE RefreshRead
  <2>1. refresh \in Running
    BY <1>7, Parts, Tokens DEF RefreshRead
  <2>2. refresh' \in {NoRefresh} \cup Running
    BY <1>7, <2>1 DEF RefreshRead, Running
  <2> QED BY <1>7, <2>2 DEF RefreshRead, Types, TypeOK, Named, At, Running
<1>8. CASE RefreshCommitted
  <2>1. refresh \in Running /\ refresh.token.acct \in Account
    BY <1>8, Parts, Tokens DEF RefreshCommitted
  <2>2. refresh' \in Running
    BY <1>8, <2>1, Issues DEF RefreshCommitted, Running
  <2>3. key' \in Token \cup {NoToken} /\ aged' \subseteq Account
    BY <1>8, <2>1, Parts, Revokes DEF RefreshCommitted, Types, TypeOK
  <2> QED BY <1>8, <2>2, <2>3 DEF RefreshCommitted, Types, TypeOK, Named, At, Running
<1>9. CASE RefreshSaved
  BY <1>9, SavedTypes DEF RefreshSaved, Types, TypeOK, Named, At
<1>10. CASE RefreshFailed
  <2>1. call' \in [Caller -> Call]
    BY <1>10, AnswerTypes DEF RefreshFailed, Types, TypeOK
  <2> QED BY <1>10, <2>1 DEF RefreshFailed, Types, TypeOK, Named, At
<1> QED BY <1>1, <1>2, <1>3, <1>4, <1>5, <1>6, <1>7, <1>8, <1>9, <1>10

(* ... of a flow's beginning, ...                                          *)
LEMMA BeginningTypes ==
  ASSUME Types, NEW s \in Slot,
         \/ SubmitLogin(s) \/ SubmitRegistration(s) \/ SubmitReset(s)
         \/ ChangePassword(s) \/ SignOutOrDelete(s)
  PROVE  /\ Types'
         /\ \E kind \in Kind, a \in Account \cup {None} :
              /\ Begin(s, kind, a)
              /\ kind \in {"login", "register", "reset"} => a \in Account /\ screen = "login"
              /\ kind \in {"change", "logout", "delete"} => a = None
              /\ kind # "launch"
<1>1. PICK kind \in Kind, a \in Account \cup {None} :
        /\ Begin(s, kind, a)
        /\ kind \in {"login", "register", "reset"} => a \in Account /\ screen = "login"
        /\ kind \in {"change", "logout", "delete"} => a = None
        /\ kind # "launch"
  BY Sets DEF SubmitLogin, SubmitRegistration, SubmitReset, Submit, ChangePassword, SignOutOrDelete
<1>2. /\ flow' \in [Slot -> Flow \cup {NoFlow}] /\ call' \in [Caller -> Call] /\ Named'
      /\ begun' \in 0 .. MaxFlows /\ crossed' \in BOOLEAN
  BY <1>1, BeginTypes
<1>3. UNCHANGED <<account, key, refresh, shown, lists, aged, out>>
  BY <1>1 DEF Begin
<1>4. Types'
  BY <1>2, <1>3 DEF Types, TypeOK, shown, lists
<1> QED BY <1>1, <1>4

LEMMA KindOf ==
  ASSUME NEW s \in Slot, NEW kinds \in SUBSET Kind, NEW stage, At(s, kinds, stage)
  PROVE  flow[s].kind \in Kind /\ flow[s].stage = stage /\ flow[s].kind # None
BY DEF At, Kind, None

(* ... of what it does with its answers, ...                               *)
LEMMA HandlerTypes ==
  ASSUME Types, NEW s \in Slot,
         \/ SignedIn(s) \/ RegistrationLost(s) \/ ResetDone(s) \/ TimerFires(s)
         \/ PasswordChanged(s) \/ Refusal(s) \/ SignedOut(s) \/ AccountDeleted(s)
  PROVE  Types'
<1> USE DEF shown, lists, history
<1>1. CASE SignedIn(s)
  <2> DEFINE a == flow[s].acct
  <2>1. /\ At(s, {"login", "register"}, "post") /\ Moves(s, "ask")
        /\ account' = account \/ account' = [account EXCEPT ![a] = "active"]
        /\ key' = Issued(a) /\ crossed' = (crossed \/ (refresh # NoRefresh /\ refresh.token.acct # Issued(a).acct))
        /\ out' = FALSE
        /\ UNCHANGED <<refresh, shown, begun, lists, aged>>
    BY <1>1 DEF SignedIn, Save
  <2>2. a \in Account /\ flow[s].kind \in Kind
    BY <2>1 DEF Types, Named, At, Kind
  <2>3. flow' \in [Slot -> Flow \cup {NoFlow}] /\ call' \in [Caller -> Call] /\ Named'
    BY <2>1, <2>2, MovesTypes
  <2>4. account' \in [Account -> Status] /\ key' \in Token \cup {NoToken}
    BY <2>1, <2>2, Sets, Issues DEF Types, TypeOK
  <2> HIDE DEF a
  <2> QED BY <2>1, <2>3, <2>4 DEF Types, TypeOK
<1>2. CASE RegistrationLost(s)
  <2>1. flow[s].acct \in Account
    BY <1>2 DEF RegistrationLost, Types, Named, At
  <2>2. flow' \in [Slot -> Flow \cup {NoFlow}] /\ call' \in [Caller -> Call] /\ Named'
    BY <1>2, EndsTypes DEF RegistrationLost
  <2> QED BY <1>2, <2>1, <2>2, Sets DEF RegistrationLost, Types, TypeOK
<1>3. CASE ResetDone(s)
  <2>1. flow[s].acct \in Account /\ flow[s].kind \in Kind
    BY <1>3 DEF ResetDone, Types, Named, At, Kind
  <2>2. flow' \in [Slot -> Flow \cup {NoFlow}] /\ call' \in [Caller -> Call] /\ Named'
    BY <1>3, <2>1, EndsTypes, MovesTypes DEF ResetDone
  <2>3. key' \in Token \cup {NoToken} /\ refresh' \in {NoRefresh} \cup Running
    BY <1>3, <2>1, RevokeAllTypes DEF ResetDone
  <2> QED BY <1>3, <2>1, <2>2, <2>3, Sets DEF ResetDone, Types, TypeOK, Running
<1>4. CASE TimerFires(s)
  BY <1>4, EndsTypes DEF TimerFires, Types, TypeOK
<1>5. CASE PasswordChanged(s)
  <2>1. call[s].of \in Account /\ flow[s].kind \in Kind
    BY <1>5 DEF PasswordChanged, Served, At, Kind
  <2>2. flow' \in [Slot -> Flow \cup {NoFlow}] /\ call' \in [Caller -> Call] /\ Named'
    BY <1>5, <2>1, MovesTypes DEF PasswordChanged
  <2>3. key' \in Token \cup {NoToken} /\ crossed' \in BOOLEAN
    BY <1>5, <2>1, Issues DEF PasswordChanged, Save, Types, TypeOK
  <2> QED BY <1>5, <2>2, <2>3 DEF PasswordChanged, Types, TypeOK
<1>6. CASE Refusal(s)
  BY <1>6, EndsTypes DEF Refusal, Types, TypeOK
<1>7. CASE SignedOut(s)
  <2>1. flow' \in [Slot -> Flow \cup {NoFlow}] /\ call' \in [Caller -> Call] /\ Named'
    BY <1>7, EndsTypes DEF SignedOut
  <2>2. key' \in Token \cup {NoToken} /\ out' \in BOOLEAN
    BY <1>7 DEF SignedOut, Types, TypeOK
  <2> QED BY <1>7, <2>1, <2>2 DEF SignedOut, ClearAuth, Types, TypeOK
<1>8. CASE AccountDeleted(s)
  <2>1. flow' \in [Slot -> Flow \cup {NoFlow}] /\ call' \in [Caller -> Call] /\ Named'
    BY <1>8, EndsTypes DEF AccountDeleted
  <2>2. out' \in BOOLEAN
    BY <1>8 DEF AccountDeleted
  <2> QED BY <1>8, <2>1, <2>2 DEF AccountDeleted, ClearAuth, Types, TypeOK
<1> QED BY <1>1, <1>2, <1>3, <1>4, <1>5, <1>6, <1>7, <1>8

LEMMA FetchMeTypes ==
  ASSUME Types, NEW s \in Slot, FetchMe(s)
  PROVE  /\ flow' \in [Slot -> Flow \cup {NoFlow}] /\ call' \in [Caller -> Call] /\ Named'
         /\ call' = [call EXCEPT ![s] = Sent(key)]
         /\ \A q \in Slot : q # s => flow'[q] = flow[q]
         /\ flow'[s].kind = flow[s].kind /\ flow'[s].stage = "me" /\ flow[s].kind \in Kind
<1>1. At(s, Kind, "ask") /\ flow' = [flow EXCEPT ![s].stage = "me"] /\ call' = [call EXCEPT ![s] = Sent(key)]
  BY DEF FetchMe, Ask
<1>2. flow[s].kind \in Kind
  BY <1>1 DEF At
<1>3. flow[s] \in Flow
  BY <1>2, Parts DEF NoFlow, Kind, None
<1>4. flow'[s] \in Flow /\ flow'[s].kind = flow[s].kind /\ flow'[s].stage = "me"
  BY <1>1, <1>3 DEF Types, TypeOK, Flow
<1>5. \A q \in Slot : q # s => flow'[q] = flow[q]
  BY <1>1 DEF Types, TypeOK
<1>6. flow' \in [Slot -> Flow \cup {NoFlow}]
  BY <1>1, <1>4, <1>5 DEF Types, TypeOK
<1>7. call' \in [Caller -> Call]
  BY <1>1, SendTypes, Parts
<1>8. Named'
  BY <1>4, <1>5 DEF Types, Named, At
<1> QED BY <1>1, <1>2, <1>4, <1>5, <1>6, <1>7, <1>8

LEMMA LandingTypes ==
  ASSUME Types, NEW s \in Slot,
         \/ Launch(s) \/ FetchMe(s) \/ Welcome(s) \/ NotWelcome(s)
         \/ LaunchDone(s) \/ LaunchFailed(s)
  PROVE  Types'
<1> USE DEF shown, lists, history
<1>1. CASE Launch(s)
  <2>1. flow[s].kind \in Kind
    BY <1>1 DEF Launch, At, Kind
  <2>2. flow' \in [Slot -> Flow \cup {NoFlow}] /\ call' \in [Caller -> Call] /\ Named'
    BY <1>1, <2>1, EndsTypes, MovesTypes DEF Launch
  <2> QED BY <1>1, <2>2 DEF Launch, Types, TypeOK
<1>2. CASE FetchMe(s)
  BY <1>2, FetchMeTypes DEF FetchMe, Types, TypeOK
<1>3. CASE Welcome(s)
  <2>1. At(s, Kind, "me") /\ call[s].of \in Account /\ user' = call[s].of
    BY <1>3 DEF Welcome, Served
  <2>2. CASE flow[s].kind = "launch"
    <3>1. flow' \in [Slot -> Flow \cup {NoFlow}] /\ call' \in [Caller -> Call] /\ Named'
      BY <1>3, <2>1, <2>2, MovesTypes DEF Welcome, At
    <3> QED BY <1>3, <2>1, <2>2, <3>1 DEF Welcome, Types, TypeOK
  <2>3. CASE flow[s].kind # "launch"
    <3>1. Mount(s, call[s].of)
      BY <1>3, <2>3 DEF Welcome
    <3>2. /\ flow' \in [Slot -> Flow \cup {NoFlow}] /\ call' \in [Caller -> Call] /\ Named'
          /\ excused' \in BOOLEAN /\ screen' = "tabs" /\ cache' = cache
      BY <3>1, MountTypes DEF Mount
    <3> QED BY <1>3, <2>1, <3>2 DEF Welcome, Types, TypeOK
  <2> QED BY <2>2, <2>3
<1>4. CASE NotWelcome(s)
  BY <1>4, EndsTypes DEF NotWelcome, Types, TypeOK
<1>5. CASE LaunchDone(s)
  <2>1. /\ flow' \in [Slot -> Flow \cup {NoFlow}] /\ call' \in [Caller -> Call] /\ Named'
        /\ excused' \in BOOLEAN /\ screen' = "tabs" /\ cache' = cache
    BY <1>5, MountTypes DEF LaunchDone, Mount
  <2> QED BY <1>5, <2>1 DEF LaunchDone, Types, TypeOK
<1>6. CASE LaunchFailed(s)
  BY <1>6, EndsTypes DEF LaunchFailed, ClearAuth, Types, TypeOK
<1> QED BY <1>1, <1>2, <1>3, <1>4, <1>5, <1>6

(* ... and of the list.                                                    *)
LEMMA ListStepTypes ==
  ASSUME Types, PullToRefresh \/ FetchReceived \/ FetchFailed
  PROVE  Types' /\ call' \in {[call EXCEPT ![MyList] = Sent(key)], [call EXCEPT ![MyList] = Idle]}
<1> USE DEF shown, lists, history
<1>1. Idle \in Call /\ MyList \in Caller /\ [call EXCEPT ![MyList] = Sent(key)] \in [Caller -> Call]
  BY SendTypes, Parts, Calls
<1>2. [call EXCEPT ![MyList] = Idle] \in [Caller -> Call]
  BY <1>1 DEF Types, TypeOK
<1>3. CASE PullToRefresh
  BY <1>1, <1>3 DEF PullToRefresh, Ask, Types, TypeOK, Named, At
<1>4. CASE FetchReceived
  BY <1>2, <1>4 DEF FetchReceived, Served, Types, TypeOK, Named, At
<1>5. CASE FetchFailed
  <2>1. call' \in {[call EXCEPT ![MyList] = Sent(key)], [call EXCEPT ![MyList] = Idle]}
    BY <1>5 DEF FetchFailed, Ask
  <2>2. excused' \in BOOLEAN
    BY <1>5 DEF FetchFailed, Types, TypeOK
  <2> QED BY <1>1, <1>2, <1>5, <2>1, <2>2 DEF FetchFailed, Types, TypeOK, Named, At
<1> QED BY <1>3, <1>4, <1>5

LEMMA StepTypes == Types /\ [Next]_vars => Types'
<1> SUFFICES ASSUME Types, [Next]_vars PROVE Types'
  OBVIOUS
<1>1. CASE UNCHANGED vars
  BY <1>1 DEF vars, client, shown, lists, history, Types, TypeOK, Named, At
<1>2. CASE Next
  BY <1>2, RequestTypes, BeginningTypes, HandlerTypes, LandingTypes, ListStepTypes, StartTypes DEF Next
<1> QED BY <1>1, <1>2

(* Users, tokens, requests, refreshes and flows keep their types.          *)
THEOREM TypeCorrect == Spec => []TypeOK
<1>1. Init => Types
  BY InitTypes
<1>2. Types /\ [Next]_vars => Types'
  BY StepTypes
<1>3. Types => TypeOK
  BY DEF Types
<1> QED BY <1>1, <1>2, <1>3, PTL DEF Spec

-----------------------------------------------------------------------------
(* What a step can do to an account, a request, a token                    *)

(* No account is restored, and none has to change its password again.      *)
LEMMA AccountSteps ==
  ASSUME Types, [Next]_vars
  PROVE  /\ \A a \in Account : account'[a] = "must" => account[a] = "must"
         /\ \A a \in Account : account[a] = "deleted" => account'[a] = "deleted"
         /\ aged \subseteq aged'
<1> DEFINE Good == /\ \A a \in Account : account'[a] = "must" => account[a] = "must"
                   /\ \A a \in Account : account[a] = "deleted" => account'[a] = "deleted"
                   /\ aged \subseteq aged'
<1> SUFFICES Good
  OBVIOUS
<1> USE DEF history, lists, shown, client
<1>1. ASSUME NEW s \in Slot, ChangedOnServer(s) PROVE Good
  <2>1. /\ Exists(call[s].of) /\ account' = [account EXCEPT ![call[s].of] = "active"]
        /\ aged' = aged
    BY <1>1 DEF ChangedOnServer, Accepts
  <2> QED BY <2>1 DEF Exists, Types, TypeOK
<1>2. ASSUME NEW s \in Slot, DeletedOnServer(s) PROVE Good
  <2>1. account' = [account EXCEPT ![call[s].of] = "deleted"] /\ aged' = aged
    BY <1>2 DEF DeletedOnServer
  <2> QED BY <2>1 DEF Types, TypeOK
<1>3. ASSUME NEW s \in Slot, SignedIn(s) \/ RegistrationLost(s) PROVE Good
  <2>1. /\ aged' = aged
        /\ account' = account \/ (/\ account[flow[s].acct] = "absent"
                                  /\ account' = [account EXCEPT ![flow[s].acct] = "active"])
    BY <1>3 DEF SignedIn, RegistrationLost
  <2> QED BY <2>1 DEF Types, TypeOK
<1>4. ASSUME NEW s \in Slot, ResetDone(s) PROVE Good
  <2>1. /\ Exists(flow[s].acct) /\ account' = [account EXCEPT ![flow[s].acct] = "active"]
        /\ aged' = aged
    BY <1>4 DEF ResetDone
  <2> QED BY <2>1 DEF Exists, Types, TypeOK
<1>5. CASE RefreshCommitted
  BY <1>5 DEF RefreshCommitted
<1>6. CASE UNCHANGED vars
  BY <1>6 DEF vars
<1>7. ASSUME NEW s \in Slot,
             \/ SignedOutOnServer(s) \/ TimerFires(s) \/ PasswordChanged(s) \/ Refusal(s)
             \/ SignedOut(s) \/ AccountDeleted(s) \/ Launch(s) \/ FetchMe(s) \/ Welcome(s)
             \/ NotWelcome(s) \/ LaunchDone(s) \/ LaunchFailed(s)
      PROVE  Good
  <2>1. account' = account /\ aged' = aged
    BY <1>7 DEF SignedOutOnServer, TimerFires, PasswordChanged, Refusal, SignedOut, AccountDeleted,
                Launch, FetchMe, Welcome, NotWelcome, LaunchDone, LaunchFailed
  <2> QED BY <2>1
<1>8. ASSUME NEW s \in Slot,
             \/ SubmitLogin(s) \/ SubmitRegistration(s) \/ SubmitReset(s)
             \/ ChangePassword(s) \/ SignOutOrDelete(s)
      PROVE  Good
  <2>1. account' = account /\ aged' = aged
    BY <1>8, BeginningTypes DEF Begin
  <2> QED BY <2>1
<1>9. ASSUME \/ \E c \in Caller : Read(c) \/ Refused(c)
             \/ OtherRefused \/ RefreshRead \/ RefreshSaved \/ RefreshFailed
             \/ PullToRefresh \/ FetchReceived \/ FetchFailed \/ Restart
      PROVE  Good
  <2>1. account' = account /\ aged' = aged
    BY <1>9 DEF Read, Refused, OtherRefused, RefreshRead, RefreshSaved, RefreshFailed,
                PullToRefresh, FetchReceived, FetchFailed, Restart
  <2> QED BY <2>1
<1> QED BY <1>1, <1>2, <1>3, <1>4, <1>5, <1>6, <1>7, <1>8, <1>9 DEF Next

(* The server answers c: what it asked was let in.                         *)
Answers(c) ==
  \/ Read(c)
  \/ c \in Slot /\ (ChangedOnServer(c) \/ SignedOutOnServer(c) \/ DeletedOnServer(c))

(* A request stays, is sent with the token of the keychain or, again, with *)
(* that of a refresh, is answered for the account it was let in as, or     *)
(* stands for no account.                                                  *)
CallStep(c) ==
  \/ call'[c] = call[c]
  \/ call'[c].of \notin Account
  \/ /\ call'[c].at = "sent" /\ key \in Token
     /\ call'[c].of = key.acct /\ call'[c].scope = key.scope
  \/ /\ call'[c].at = "sent" /\ RefreshSaved /\ refresh.token \in Token
     /\ call'[c].of = refresh.token.acct /\ call'[c].scope = refresh.token.scope
  \/ call'[c].at = "answered" /\ call'[c].of = call[c].of /\ Answers(c)

LEMMA ResentCall ==
  ASSUME Types, NEW c \in Caller, NEW d \in Caller, NEW k \in {key, NoToken},
         call' = [call EXCEPT ![c] = Sent(k)]
  PROVE  CallStep(d)
<1>1. CASE d # c
  BY <1>1 DEF CallStep, Types, TypeOK
<1>2. CASE d = c
  <2>1. call'[d] = Sent(k)
    BY <1>2 DEF Types, TypeOK
  <2>2. k \in Token \cup {NoToken}
    BY Parts
  <2>3. call'[d].at = "sent" /\ call'[d].of = k.acct /\ call'[d].scope = k.scope
    BY <2>1, <2>2, Calls
  <2> QED BY <2>2, <2>3, Tokens DEF CallStep
<1> QED BY <1>1, <1>2

LEMMA ClosedCall ==
  ASSUME Types, NEW c \in Caller, NEW d \in Caller, NEW v \in {Idle, Held, Answered("error")},
         call' = [call EXCEPT ![c] = v]
  PROVE  CallStep(d)
<1>1. CASE d # c
  BY <1>1 DEF CallStep, Types, TypeOK
<1>2. CASE d = c
  <2>1. call'[d] = v /\ v.of \notin Account
    BY <1>2, Calls, Tokens DEF Types, TypeOK
  <2> QED BY <2>1 DEF CallStep
<1> QED BY <1>1, <1>2

LEMMA AnsweredCall ==
  ASSUME Types, NEW c \in Caller, NEW d \in Caller, Answers(c)
  PROVE  CallStep(d)
<1>1. call[c].of \in Account /\ \E g \in {call[c].of, "error"} : call' = [call EXCEPT ![c] = Answered(g)]
  BY DEF Answers, Read, ChangedOnServer, SignedOutOnServer, DeletedOnServer, Accepts, Replies, Answer
<1>2. CASE call' = [call EXCEPT ![c] = Answered("error")]
  BY <1>2, ClosedCall
<1>3. CASE call' = [call EXCEPT ![c] = Answered(call[c].of)]
  <2>1. CASE d # c
    BY <1>3, <2>1 DEF CallStep, Types, TypeOK
  <2>2. CASE d = c
    <3>1. call'[d] = Answered(call[c].of)
      BY <1>3, <2>2 DEF Types, TypeOK
    <3> QED BY <1>1, <2>2, <3>1, Calls DEF CallStep
  <2> QED BY <2>1, <2>2
<1> QED BY <1>1, <1>2, <1>3

LEMMA CallSteps ==
  ASSUME Types, [Next]_vars, NEW d \in Caller
  PROVE  CallStep(d)
<1> USE DEF client, shown, lists, history
<1>0. Slot \subseteq Caller /\ MyList \in Caller
  BY Parts
<1>1. ASSUME NEW c \in Caller, Answers(c) PROVE CallStep(d)
  BY <1>1, AnsweredCall
<1>2. ASSUME NEW c \in Caller, Refused(c) PROVE CallStep(d)
  <2>1. call' = [call EXCEPT ![c] = Held] \/ call' = [call EXCEPT ![c] = Answered("error")]
    BY <1>2 DEF Refused, Answer
  <2> QED BY <2>1, ClosedCall
<1>3. CASE RefreshSaved
  BY <1>3, SavedTypes DEF CallStep
<1>4. CASE RefreshFailed
  <2>1. call' = call \/ \E c \in Caller : call' = [call EXCEPT ![c] = Answered("error")]
    BY <1>4 DEF RefreshFailed, Answer
  <2>2. CASE call' = call
    BY <2>2 DEF CallStep
  <2> QED BY <2>1, <2>2, ClosedCall
<1>5. CASE OtherRefused \/ RefreshRead \/ RefreshCommitted \/ UNCHANGED vars
  <2>1. call' = call
    BY <1>5 DEF OtherRefused, RefreshRead, RefreshCommitted, vars
  <2> QED BY <2>1 DEF CallStep
<1>6. ASSUME NEW s \in Slot,
             \/ SubmitLogin(s) \/ SubmitRegistration(s) \/ SubmitReset(s)
             \/ ChangePassword(s) \/ SignOutOrDelete(s)
      PROVE  CallStep(d)
  <2>1. PICK a \in Account \cup {None} : call' = [call EXCEPT ![s] = Sent(IF a = None THEN key ELSE NoToken)]
    BY <1>6, BeginningTypes DEF Begin
  <2>2. CASE a = None
    <3>1. call' = [call EXCEPT ![s] = Sent(key)]
      BY <2>1, <2>2
    <3> QED BY <1>0, <3>1, ResentCall
  <2>3. CASE a # None
    <3>1. call' = [call EXCEPT ![s] = Sent(NoToken)]
      BY <2>1, <2>3
    <3> QED BY <1>0, <3>1, ResentCall
  <2> QED BY <2>2, <2>3
<1>7. ASSUME NEW s \in Slot,
             \/ SignedIn(s) \/ RegistrationLost(s) \/ ResetDone(s) \/ TimerFires(s)
             \/ PasswordChanged(s) \/ Refusal(s) \/ SignedOut(s) \/ AccountDeleted(s)
             \/ Launch(s) \/ NotWelcome(s) \/ LaunchFailed(s)
      PROVE  CallStep(d)
  <2>1. call' = [call EXCEPT ![s] = Idle]
    BY <1>7 DEF SignedIn, RegistrationLost, ResetDone, TimerFires, PasswordChanged, Refusal,
                SignedOut, AccountDeleted, Launch, NotWelcome, LaunchFailed, Ends, Moves
  <2> QED BY <1>0, <2>1, ClosedCall
<1>8. ASSUME NEW s \in Slot, FetchMe(s) PROVE CallStep(d)
  BY <1>0, <1>8, ResentCall DEF FetchMe, Ask
<1>9. ASSUME NEW s \in Slot, Welcome(s) \/ LaunchDone(s) PROVE CallStep(d)
  <2>1. CASE call' = [call EXCEPT ![s] = Idle]
    BY <1>0, <2>1, ClosedCall
  <2>2. ASSUME NEW u, Mount(s, u) PROVE CallStep(d)
    <3>1. /\ call'[s] = Idle /\ call'[MyList] \in {call[MyList], Sent(key)}
          /\ \A q \in Slot : q # s => call'[q] = call[q]
      BY <2>2, MountTypes
    <3>2. Idle.of \notin Account
      BY Calls, Tokens
    <3>3. CASE call'[d] = Sent(key)
      <4>1. call'[d].at = "sent" /\ call'[d].of = key.acct /\ call'[d].scope = key.scope
        BY <3>3, Calls, Parts
      <4> QED BY <4>1, Parts, Tokens DEF CallStep
    <3> QED BY <3>1, <3>2, <3>3 DEF CallStep, Caller
  <2> QED BY <1>9, <2>1, <2>2 DEF Welcome, LaunchDone, Moves
<1>10. CASE PullToRefresh \/ FetchReceived \/ FetchFailed
  <2>1. call' \in {[call EXCEPT ![MyList] = Sent(key)], [call EXCEPT ![MyList] = Idle]}
    BY <1>10, ListStepTypes
  <2> QED BY <1>0, <2>1, ResentCall, ClosedCall
<1>11. CASE Restart
  <2>1. /\ \A s \in Slot : call'[s] = Idle
        /\ call'[MyList] = Sent(key)
    BY <1>11, StartTypes
  <2>2. CASE d \in Slot
    BY <2>1, <2>2, Calls, Tokens DEF CallStep
  <2>3. CASE d = MyList
    <3>1. call'[d].at = "sent" /\ call'[d].of = key.acct /\ call'[d].scope = key.scope
      BY <2>1, <2>3, Calls, Parts
    <3> QED BY <3>1, Parts, Tokens DEF CallStep
  <2> QED BY <2>2, <2>3 DEF Caller
<1> QED BY <1>0, <1>1, <1>2, <1>3, <1>4, <1>5, <1>6, <1>7, <1>8, <1>9, <1>10, <1>11
        DEF Next, Answers

(* The keychain loses its token, keeps it or sees it revoked, or gets one  *)
(* from a sign-in, a change of the password or a refresh.                  *)
KeyStep ==
  \/ key' = NoToken
  \/ /\ key'.acct = key.acct /\ key'.scope = key.scope
     /\ key' = NoToken <=> key = NoToken
  \/ \E s \in Slot : SignedIn(s) /\ flow[s].acct \in Account /\ key' = Issued(flow[s].acct)
  \/ \E s \in Slot : PasswordChanged(s) /\ call[s].of \in Account /\ key' = Unscoped(call[s].of)
  \/ RefreshSaved /\ refresh.token \in Token /\ key' = refresh.token

(* So does the refresh: it ends, goes on, starts, or has a new token.      *)
RefreshStep ==
  \/ refresh' = NoRefresh
  \/ /\ refresh'.token.acct = refresh.token.acct /\ refresh'.token.scope = refresh.token.scope
     /\ refresh'.token.live => refresh.token.live
     /\ refresh' = NoRefresh <=> refresh = NoRefresh
     /\ refresh'.at = refresh.at \/ RefreshRead
  \/ refresh = NoRefresh /\ key \in Token /\ refresh' = Posted(key)
  \/ /\ RefreshCommitted /\ refresh.token \in Token /\ refresh' \in Running
     /\ refresh'.token = Unscoped(refresh.token.acct)

UserStep ==
  \/ user' = user \/ user' = None
  \/ \E s \in Slot : Welcome(s) /\ call[s].of \in Account /\ user' = call[s].of

LEMMA RevokeSteps ==
  ASSUME Types, NEW a \in Account, RevokeAll(a)
  PROVE  KeyStep /\ RefreshStep
<1>1. refresh'.token.live => refresh.token.live
  BY RevokeAllTypes, Parts, Revokes
<1> QED BY <1>1, RevokeAllTypes DEF KeyStep, RefreshStep

LEMMA Kept ==
  ASSUME Types, UNCHANGED <<key, refresh>>
  PROVE  KeyStep /\ RefreshStep
BY DEF KeyStep, RefreshStep

LEMMA TokenSteps ==
  ASSUME Types, [Next]_vars
  PROVE  KeyStep /\ RefreshStep /\ UserStep
<1> USE DEF client, shown, lists, history
<1>1. ASSUME NEW s \in Slot, ChangedOnServer(s) \/ SignedOutOnServer(s) \/ DeletedOnServer(s)
      PROVE  KeyStep /\ RefreshStep /\ UserStep
  <2>1. call[s].of \in Account /\ RevokeAll(call[s].of) /\ user' = user
    BY <1>1 DEF ChangedOnServer, SignedOutOnServer, DeletedOnServer, Accepts
  <2> QED BY <2>1, RevokeSteps DEF UserStep
<1>2. ASSUME NEW s \in Slot, ResetDone(s) PROVE KeyStep /\ RefreshStep /\ UserStep
  <2>1. flow[s].acct \in Account /\ RevokeAll(flow[s].acct) /\ user' = user
    BY <1>2 DEF ResetDone, Types, Named, At
  <2> QED BY <2>1, RevokeSteps DEF UserStep
<1>3. ASSUME NEW c \in Caller, Refused(c) PROVE KeyStep /\ RefreshStep /\ UserStep
  <2>1. UNCHANGED <<key, user>>
    BY <1>3 DEF Refused
  <2>2. UNCHANGED refresh \/ (refresh = NoRefresh /\ key # NoToken /\ refresh' = Posted(key))
    BY <1>3 DEF Refused
  <2>3. CASE UNCHANGED refresh
    BY <2>1, <2>3, Kept DEF UserStep
  <2>4. CASE refresh = NoRefresh /\ key # NoToken /\ refresh' = Posted(key)
    BY <2>1, <2>4, Parts DEF KeyStep, RefreshStep, UserStep
  <2> QED BY <2>2, <2>3, <2>4
<1>4. CASE OtherRefused
  BY <1>4, Parts DEF OtherRefused, KeyStep, RefreshStep, UserStep
<1>5. CASE RefreshRead
  <2>1. refresh \in Running /\ refresh' = [refresh EXCEPT !.at = "read"] /\ UNCHANGED <<key, user>>
    BY <1>5, Parts, Tokens DEF RefreshRead
  <2>2. refresh' \in Running /\ refresh'.token = refresh.token
    BY <2>1 DEF Running
  <2>3. refresh' # NoRefresh /\ refresh # NoRefresh
    BY <2>1, <2>2, Tokens
  <2> QED BY <1>5, <2>1, <2>2, <2>3 DEF KeyStep, RefreshStep, UserStep
<1>6. CASE RefreshCommitted
  <2>1. refresh \in Running /\ refresh.token.acct \in Account /\ refresh.token \in Token
    BY <1>6, Parts, Tokens DEF RefreshCommitted
  <2>2. refresh' \in Running /\ refresh'.token = Unscoped(refresh.token.acct)
    BY <1>6, <2>1, Issues DEF RefreshCommitted, Running
  <2>3. key' = Revoked(key, refresh.token.acct) /\ user' = user
    BY <1>6 DEF RefreshCommitted
  <2>4. /\ key'.acct = key.acct /\ key'.scope = key.scope /\ (key' = NoToken <=> key = NoToken)
    BY <2>1, <2>3, Parts, Revokes
  <2> QED BY <1>6, <2>1, <2>2, <2>3, <2>4 DEF KeyStep, RefreshStep, UserStep
<1>7. CASE RefreshSaved
  BY <1>7, SavedTypes DEF RefreshSaved, KeyStep, RefreshStep, UserStep
<1>8. CASE RefreshFailed
  BY <1>8 DEF RefreshFailed, KeyStep, RefreshStep, UserStep
<1>9. ASSUME NEW s \in Slot, SignedIn(s) PROVE KeyStep /\ RefreshStep /\ UserStep
  <2>1. key' = Issued(flow[s].acct) /\ UNCHANGED <<refresh, user>>
    BY <1>9 DEF SignedIn, Save
  <2>2. flow[s].acct \in Account
    BY <1>9 DEF SignedIn, Types, Named, At
  <2>3. RefreshStep
    BY <2>1 DEF RefreshStep
  <2> QED BY <1>9, <2>1, <2>2, <2>3 DEF KeyStep, UserStep
<1>10. ASSUME NEW s \in Slot, PasswordChanged(s) PROVE KeyStep /\ RefreshStep /\ UserStep
  <2>1. key' = Unscoped(call[s].of) /\ UNCHANGED <<refresh, user>> /\ call[s].of \in Account
    BY <1>10 DEF PasswordChanged, Save, Served
  <2>2. RefreshStep
    BY <2>1 DEF RefreshStep
  <2> QED BY <1>10, <2>1, <2>2 DEF KeyStep, UserStep
<1>11. ASSUME NEW s \in Slot,
              \/ SubmitLogin(s) \/ SubmitRegistration(s) \/ SubmitReset(s)
              \/ ChangePassword(s) \/ SignOutOrDelete(s)
       PROVE  KeyStep /\ RefreshStep /\ UserStep
  <2>1. UNCHANGED <<key, refresh, user>>
    BY <1>11, BeginningTypes DEF Begin
  <2> QED BY <2>1, Kept DEF UserStep
<1>12. ASSUME NEW s \in Slot,
              \/ RegistrationLost(s) \/ TimerFires(s) \/ Refusal(s) \/ SignedOut(s) \/ AccountDeleted(s)
              \/ Launch(s) \/ FetchMe(s) \/ NotWelcome(s) \/ LaunchDone(s) \/ LaunchFailed(s)
       PROVE  KeyStep /\ RefreshStep /\ UserStep
  <2>1. /\ refresh' = refresh /\ (key' = key \/ key' = NoToken)
        /\ user' = user \/ user' = None
    BY <1>12 DEF RegistrationLost, TimerFires, Refusal, SignedOut, AccountDeleted, ClearAuth,
                 Launch, FetchMe, NotWelcome, LaunchDone, LaunchFailed
  <2> QED BY <2>1 DEF KeyStep, RefreshStep, UserStep
<1>13. ASSUME NEW s \in Slot, Welcome(s) PROVE KeyStep /\ RefreshStep /\ UserStep
  <2>1. UNCHANGED <<key, refresh>> /\ call[s].of \in Account /\ user' = call[s].of
    BY <1>13 DEF Welcome, Served
  <2> QED BY <1>13, <2>1, Kept DEF UserStep
<1>14. ASSUME \/ \E c \in Caller : Read(c)
              \/ PullToRefresh \/ FetchReceived \/ FetchFailed
              \/ UNCHANGED vars
       PROVE  KeyStep /\ RefreshStep /\ UserStep
  <2>1. UNCHANGED <<key, refresh, user>>
    BY <1>14 DEF Read, PullToRefresh, FetchReceived, FetchFailed, vars
  <2> QED BY <2>1, Kept DEF UserStep
<1>15. CASE Restart
  BY <1>15 DEF Restart, Started, KeyStep, RefreshStep, UserStep
<1> QED BY <1>1, <1>2, <1>3, <1>4, <1>5, <1>6, <1>7, <1>8, <1>9, <1>10, <1>11, <1>12, <1>13,
           <1>14, <1>15 DEF Next

-----------------------------------------------------------------------------
(* What a step can do to a flow, the screen and the histories              *)

(* The request of a flow that begins, goes on or ends: none, or one with   *)
(* the token of the keychain.                                              *)
FromKey(s) ==
  \/ call'[s].of \notin Account
  \/ call'[s].at = "sent" /\ key \in Token /\ call'[s].of = key.acct

Begun(s) ==
  /\ Free(s) /\ flow'[s].kind # "launch" /\ flow'[s].stage = "post"
  /\ flow'[s].kind \in {"login", "register", "reset"} => screen = "login"
  /\ \A q \in Slot : q # s => flow'[q] = flow[q]
  /\ user' = user /\ call'[s].at = "sent"
  /\ crossed' = (crossed \/ ~ Alone(s))

(* A flow stays, ends, goes on or, but at the start of the app, begins.    *)
FlowStep(s) ==
  \/ flow'[s] = flow[s]
  \/ FromKey(s) /\ flow'[s] = NoFlow
  \/ /\ FromKey(s) /\ ~ Free(s)
     /\ flow'[s].kind = flow[s].kind /\ flow'[s].stage \in {"ask", "me", "push", "timer"}
  \/ FromKey(s) /\ Begun(s)

LEMMA EndedFlow ==
  ASSUME Types, NEW s \in Slot, NEW d \in Slot,
         flow' = [flow EXCEPT ![s] = NoFlow], call'[s] = Idle
  PROVE  FlowStep(d)
<1>1. flow'[d] = IF d = s THEN NoFlow ELSE flow[d]
  BY DEF Types, TypeOK
<1>2. call'[s].of \notin Account
  BY Calls, Tokens
<1> QED BY <1>1, <1>2 DEF FlowStep, FromKey

LEMMA MovedFlow ==
  ASSUME Types, NEW s \in Slot, NEW d \in Slot, NEW stage \in {"ask", "push", "timer"},
         flow[s].kind \in Kind, Moves(s, stage)
  PROVE  FlowStep(d)
<1>1. /\ call' = [call EXCEPT ![s] = Idle]
      /\ \A q \in Slot : q # s => flow'[q] = flow[q]
      /\ flow'[s].kind = flow[s].kind /\ flow'[s].stage = stage
  BY MovesTypes
<1>2. call'[s].of \notin Account
  BY <1>1, Calls, Tokens, Parts DEF Types, TypeOK
<1>3. ~ Free(s)
  BY DEF Free, NoFlow, Kind, None
<1> QED BY <1>1, <1>2, <1>3 DEF FlowStep, FromKey

LEMMA FlowSteps ==
  ASSUME Types, [Next]_vars, ~ Restart, NEW d \in Slot
  PROVE  FlowStep(d)
<1> USE DEF client, shown, lists, history
<1>1. ASSUME NEW s \in Slot,
             \/ RegistrationLost(s) \/ TimerFires(s) \/ Refusal(s) \/ SignedOut(s)
             \/ AccountDeleted(s) \/ NotWelcome(s) \/ LaunchFailed(s)
             \/ (ResetDone(s) \/ Launch(s)) /\ Ends(s)
      PROVE  FlowStep(d)
  <2>1. Ends(s)
    BY <1>1 DEF RegistrationLost, TimerFires, Refusal, SignedOut, AccountDeleted, NotWelcome,
                LaunchFailed
  <2>2. flow' = [flow EXCEPT ![s] = NoFlow] /\ call'[s] = Idle
    BY <2>1, Parts DEF Ends, Types, TypeOK
  <2> QED BY <2>2, EndedFlow
<1>2. ASSUME NEW s \in Slot, NEW stage \in {"ask", "push", "timer"}, Moves(s, stage),
             \/ SignedIn(s) \/ PasswordChanged(s) \/ Welcome(s) \/ ResetDone(s) \/ Launch(s)
      PROVE  FlowStep(d)
  <2>1. flow[s].kind \in Kind
    BY <1>2 DEF SignedIn, PasswordChanged, Welcome, ResetDone, Launch, At, Kind
  <2> QED BY <1>2, <2>1, MovedFlow
<1>3. ASSUME NEW s \in Slot, NEW u, Mount(s, u) PROVE FlowStep(d)
  BY <1>3, MountTypes, EndedFlow
<1>4. ASSUME NEW s \in Slot, FetchMe(s) PROVE FlowStep(d)
  <2>1. /\ call' = [call EXCEPT ![s] = Sent(key)]
        /\ \A q \in Slot : q # s => flow'[q] = flow[q]
        /\ flow'[s].kind = flow[s].kind /\ flow'[s].stage = "me" /\ flow[s].kind \in Kind
    BY <1>4, FetchMeTypes
  <2>2. call'[s] = Sent(key)
    BY <2>1, Parts DEF Types, TypeOK
  <2> HIDE DEF client
  <2>3. call'[s].at = "sent" /\ call'[s].of = key.acct
    <3>1. key \in Token \cup {NoToken}
      BY Parts
    <3>2. Sent(key).at = "sent" /\ Sent(key).of = key.acct
      BY <3>1, Calls
    <3> QED BY <2>2, <3>2
  <2>4. FromKey(s)
    BY <2>3, Parts, Tokens DEF FromKey
  <2>5. ~ Free(s)
    BY <2>1 DEF Free, NoFlow, Kind, None
  <2> QED BY <2>1, <2>4, <2>5 DEF FlowStep
<1>5. ASSUME NEW s \in Slot,
             \/ SubmitLogin(s) \/ SubmitRegistration(s) \/ SubmitReset(s)
             \/ ChangePassword(s) \/ SignOutOrDelete(s)
      PROVE  FlowStep(d)
  <2>1. PICK kind \in Kind, a \in Account \cup {None} :
          /\ Begin(s, kind, a)
          /\ kind \in {"login", "register", "reset"} => a \in Account /\ screen = "login"
          /\ kind \in {"change", "logout", "delete"} => a = None
          /\ kind # "launch"
    BY <1>5, BeginningTypes
  <2>2. /\ flow[s] = NoFlow
        /\ \A q \in Slot : q # s => flow'[q] = flow[q]
        /\ flow'[s].kind = kind /\ flow'[s].stage = "post"
        /\ call' = [call EXCEPT ![s] = Sent(IF a = None THEN key ELSE NoToken)]
    BY <2>1, BeginTypes
  <2> DEFINE k == IF a = None THEN key ELSE NoToken
  <2>3. k \in Token \cup {NoToken} /\ k \in {key, NoToken}
    BY Parts
  <2>4. call'[s] = Sent(k)
    BY <2>2, Parts DEF Types, TypeOK
  <2> HIDE DEF k
  <2>5. call'[s].at = "sent" /\ call'[s].of = k.acct
    BY <2>3, <2>4, Calls
  <2>6. FromKey(s)
    BY <2>3, <2>5, Tokens DEF FromKey
  <2>7. Begun(s)
    BY <2>1, <2>2, <2>5 DEF Begun, Begin, Free
  <2> QED BY <2>2, <2>6, <2>7 DEF FlowStep
<1>6. ASSUME \/ \E c \in Caller : Read(c) \/ Refused(c)
             \/ \E s \in Slot : ChangedOnServer(s) \/ SignedOutOnServer(s) \/ DeletedOnServer(s)
             \/ OtherRefused \/ RefreshRead \/ RefreshCommitted \/ RefreshSaved \/ RefreshFailed
             \/ PullToRefresh \/ FetchReceived \/ FetchFailed \/ UNCHANGED vars
      PROVE  FlowStep(d)
  <2>1. flow' = flow
    BY <1>6 DEF Read, Refused, ChangedOnServer, SignedOutOnServer, DeletedOnServer, OtherRefused,
                RefreshRead, RefreshCommitted, RefreshSaved, RefreshFailed, PullToRefresh,
                FetchReceived, FetchFailed, vars
  <2> QED BY <2>1 DEF FlowStep
<1>7. ASSUME NEW s \in Slot,
             \/ SignedIn(s) \/ PasswordChanged(s) \/ Welcome(s) \/ LaunchDone(s)
             \/ ResetDone(s) \/ Launch(s)
      PROVE  FlowStep(d)
  <2>1. CASE SignedIn(s) \/ PasswordChanged(s)
    BY <1>2, <2>1 DEF SignedIn, PasswordChanged
  <2>2. CASE Welcome(s) \/ LaunchDone(s)
    BY <1>2, <1>3, <2>2 DEF Welcome, LaunchDone
  <2>3. CASE ResetDone(s) \/ Launch(s)
    BY <1>1, <1>2, <2>3 DEF ResetDone, Launch
  <2> QED BY <1>7, <2>1, <2>2, <2>3
<1> QED BY <1>1, <1>4, <1>5, <1>6, <1>7 DEF Next

(* The screen stays, gives way to the tabs, or to another as a flow ends.  *)
ScreenStep ==
  \/ screen' = screen \/ screen' = "tabs"
  \/ \E s \in Slot :
       /\ ~ Free(s) /\ flow'[s] = NoFlow
       /\ screen' = "login" =>
            \/ user' = None
            \/ user' = user /\ (flow[s].kind = "reset" \/ At(s, {"launch"}, "post"))

LEMMA ScreenSteps ==
  ASSUME Types, [Next]_vars
  PROVE  ScreenStep
<1> USE DEF client, shown, lists, history
<1>1. ASSUME NEW s \in Slot,
             TimerFires(s) \/ SignedOut(s) \/ AccountDeleted(s) \/ LaunchFailed(s) \/ NotWelcome(s)
      PROVE  ScreenStep
  <2>1. Ends(s) /\ flow[s].kind \in Kind
    BY <1>1 DEF TimerFires, SignedOut, AccountDeleted, LaunchFailed, NotWelcome, At, Kind
  <2>2. flow'[s] = NoFlow /\ ~ Free(s)
    BY <2>1 DEF Ends, Types, TypeOK, Free, NoFlow, Kind, None
  <2>3. \/ user' = None
        \/ user' = user /\ flow[s].kind = "reset"
        \/ screen' \in {screen, "change"}
    BY <1>1 DEF TimerFires, SignedOut, AccountDeleted, LaunchFailed, NotWelcome, ClearAuth, At
  <2> QED BY <2>2, <2>3 DEF ScreenStep
<1>2. ASSUME NEW s \in Slot, Launch(s) PROVE ScreenStep
  <2>1. CASE UNCHANGED screen
    BY <2>1 DEF ScreenStep
  <2>2. CASE Ends(s)
    <3>1. flow'[s] = NoFlow /\ ~ Free(s)
      BY <1>2, <2>2 DEF Launch, Ends, At, Types, TypeOK, Free, NoFlow, None
    <3> QED BY <1>2, <3>1 DEF Launch, ScreenStep
  <2> QED BY <1>2, <2>1, <2>2 DEF Launch
<1>3. ASSUME NEW s \in Slot,
             \/ SubmitLogin(s) \/ SubmitRegistration(s) \/ SubmitReset(s)
             \/ ChangePassword(s) \/ SignOutOrDelete(s)
      PROVE  ScreenStep
  <2>1. PICK kind \in Kind, a \in Account \cup {None} : Begin(s, kind, a)
    BY <1>3, BeginningTypes
  <2>2. screen' = screen
    BY <2>1 DEF Begin
  <2> QED BY <2>2 DEF ScreenStep
<1>4. ASSUME NEW s \in Slot,
             \/ ChangedOnServer(s) \/ SignedOutOnServer(s) \/ DeletedOnServer(s)
             \/ SignedIn(s) \/ RegistrationLost(s) \/ ResetDone(s) \/ PasswordChanged(s)
             \/ Refusal(s) \/ FetchMe(s) \/ Welcome(s) \/ LaunchDone(s)
      PROVE  ScreenStep
  BY <1>4 DEF ChangedOnServer, SignedOutOnServer, DeletedOnServer, SignedIn, RegistrationLost,
              ResetDone, PasswordChanged, Refusal, FetchMe, Welcome, LaunchDone, Mount, ScreenStep
<1>5. ASSUME \/ \E c \in Caller : Read(c) \/ Refused(c)
             \/ OtherRefused \/ RefreshRead \/ RefreshCommitted \/ RefreshSaved \/ RefreshFailed
             \/ PullToRefresh \/ FetchReceived \/ FetchFailed \/ Restart \/ UNCHANGED vars
      PROVE  ScreenStep
  BY <1>5 DEF Read, Refused, OtherRefused, RefreshRead, RefreshCommitted, RefreshSaved, RefreshFailed,
              PullToRefresh, FetchReceived, FetchFailed, Restart, Started, vars, ScreenStep
<1> QED BY <1>1, <1>2, <1>3, <1>4, <1>5 DEF Next

(* That flows overlapped is forgotten only by a start; the session counts  *)
(* as ended only since a sign-out or a deletion, and until a sign-in.      *)
LEMMA HistorySteps ==
  ASSUME Types, [Next]_vars
  PROVE  /\ ~ crossed' => ~ crossed \/ Restart
         /\ out' => \/ out /\ \A s \in Slot : ~ SignedIn(s)
                    \/ \E s \in Slot : SignedOut(s) /\ Served(s) /\ key' = NoToken /\ ~ Runs(s)
                    \/ \E s \in Slot :
                         /\ AccountDeleted(s) /\ Alone(s)
                         /\ \A k \in {key, refresh.token} : k.acct \in {None, call[s].of}
<1> DEFINE Crosses == ~ crossed' => ~ crossed \/ Restart
           Ends1 == \E s \in Slot : SignedOut(s) /\ Served(s) /\ key' = NoToken /\ ~ Runs(s)
           Ends2 == \E s \in Slot :
                      /\ AccountDeleted(s) /\ Alone(s)
                      /\ \A k \in {key, refresh.token} : k.acct \in {None, call[s].of}
           Goes == \A s \in Slot : ~ SignedIn(s)
           Leaves == out' => (out /\ Goes) \/ Ends1 \/ Ends2
<1> SUFFICES Crosses /\ Leaves
  OBVIOUS
<1> USE DEF client, shown, lists, history
<1>1. ASSUME NEW s \in Slot, SignedIn(s) PROVE Crosses /\ out' = FALSE
  BY <1>1 DEF SignedIn, Save
<1>2. CASE \E s \in Slot : SignedIn(s)
  BY <1>1, <1>2
<1>3. CASE Goes
  <2> HIDE DEF Goes
  <2>1. ASSUME NEW s \in Slot, PasswordChanged(s) PROVE Crosses /\ out' = out
    BY <2>1 DEF PasswordChanged, Save
  <2>2. ASSUME NEW s \in Slot, SignedOut(s) PROVE Crosses /\ (out' = out \/ Ends1 \/ ~ out')
    BY <2>2 DEF SignedOut
  <2>3. ASSUME NEW s \in Slot, AccountDeleted(s) PROVE Crosses /\ (Ends2 \/ ~ out')
    BY <2>3 DEF AccountDeleted
  <2>4. ASSUME NEW s \in Slot,
               \/ SubmitLogin(s) \/ SubmitRegistration(s) \/ SubmitReset(s)
               \/ ChangePassword(s) \/ SignOutOrDelete(s)
        PROVE  Crosses /\ out' = out
    <3>1. PICK kind \in Kind, a \in Account \cup {None} : Begin(s, kind, a)
      BY <2>4, BeginningTypes
    <3> QED BY <3>1 DEF Begin
  <2>5. ASSUME NEW s \in Slot,
               \/ ChangedOnServer(s) \/ SignedOutOnServer(s) \/ DeletedOnServer(s)
               \/ RegistrationLost(s) \/ ResetDone(s) \/ TimerFires(s) \/ Refusal(s)
               \/ Launch(s) \/ FetchMe(s) \/ Welcome(s) \/ NotWelcome(s)
               \/ LaunchDone(s) \/ LaunchFailed(s)
        PROVE  crossed' = crossed /\ out' = out
    BY <2>5 DEF ChangedOnServer, SignedOutOnServer, DeletedOnServer, RegistrationLost, ResetDone,
                TimerFires, Refusal, Launch, FetchMe, Welcome, NotWelcome, LaunchDone, LaunchFailed
  <2>6. ASSUME \/ \E c \in Caller : Read(c) \/ Refused(c)
               \/ OtherRefused \/ RefreshRead \/ RefreshCommitted \/ RefreshSaved \/ RefreshFailed
               \/ PullToRefresh \/ FetchReceived \/ FetchFailed \/ UNCHANGED vars
        PROVE  crossed' = crossed /\ out' = out
    BY <2>6 DEF Read, Refused, OtherRefused, RefreshRead, RefreshCommitted, RefreshSaved,
                RefreshFailed, PullToRefresh, FetchReceived, FetchFailed, vars
  <2>7. CASE Restart
    BY <1>3, <2>7 DEF Restart
  <2> HIDE DEF Ends1, Ends2
  <2>8. CASE \E s \in Slot : PasswordChanged(s) \/ SignedOut(s) \/ AccountDeleted(s)
    BY <1>3, <2>1, <2>2, <2>3, <2>8
  <2>9. CASE ~ \E s \in Slot : PasswordChanged(s) \/ SignedOut(s) \/ AccountDeleted(s)
    <3>1. \/ crossed' = crossed /\ out' = out
          \/ Crosses /\ out' = out
          \/ Restart
      BY <1>3, <2>4, <2>5, <2>6, <2>9 DEF Next, Goes
    <3> QED BY <1>3, <2>7, <3>1
  <2> QED BY <2>8, <2>9
<1> QED BY <1>2, <1>3

-----------------------------------------------------------------------------
(* A user who must change the password                                     *)

(* Whom only the change of the password lets in.                           *)
Restricted(a) == account[a] = "must" /\ a \notin aged
RestrictedNext(a) == account'[a] = "must" /\ a \notin aged'

(* Inductive: no token that opens every call, no request that carries one  *)
(* or was let in, and no user of the store is of such a one.               *)
KeyInv == key \in Token /\ key.scope = "full" => ~ Restricted(key.acct)
RefreshInv == refresh.token \in Token /\ refresh.token.scope = "full" => ~ Restricted(refresh.token.acct)
CallInv ==
  \A c \in Caller : call[c].of \in Account /\ (call[c].at = "answered" \/ call[c].scope = "full")
                      => ~ Restricted(call[c].of)
UserInv == user \in Account => ~ Restricted(user)

IInv == Types /\ KeyInv /\ RefreshInv /\ CallInv /\ UserInv

LEMMA InitIInv == Init => IInv
<1> SUFFICES ASSUME Init PROVE IInv
  OBVIOUS
<1>1. Types
  BY InitTypes
<1>2. KeyInv
  BY Issues, Tokens DEF Init, KeyInv, Restricted
<1>3. refresh = NoRefresh /\ user = None /\ \A c \in Caller : call[c] \in {Idle, Sent(key)}
  BY DEF Init
<1>4. RefreshInv /\ UserInv
  BY <1>3, Tokens DEF RefreshInv, UserInv
<1>5. CallInv
  <2> SUFFICES ASSUME NEW c \in Caller, call[c].of \in Account,
                      call[c].at = "answered" \/ call[c].scope = "full"
               PROVE  ~ Restricted(call[c].of)
    BY DEF CallInv
  <2>1. call[c] = Sent(key)
    BY <1>3, Calls, Tokens
  <2>2. call[c].at = "sent" /\ call[c].of = key.acct /\ call[c].scope = key.scope
    BY <1>1, <2>1, Calls, Parts
  <2> QED BY <1>1, <1>2, <2>2, Parts, Tokens DEF KeyInv
<1> QED BY <1>1, <1>2, <1>4, <1>5 DEF IInv

LEMMA NextIInv == IInv /\ [Next]_vars => IInv'
<1> SUFFICES ASSUME IInv, [Next]_vars PROVE IInv'
  OBVIOUS
<1>0. Types /\ Types'
  BY StepTypes DEF IInv
<1>1. \A a \in Account : RestrictedNext(a) => Restricted(a)
  BY <1>0, AccountSteps DEF Restricted, RestrictedNext
<1>2. key' \in Token /\ key'.scope = "full" => ~ RestrictedNext(key'.acct)
  <2> SUFFICES ASSUME key' \in Token, key'.scope = "full" PROVE ~ RestrictedNext(key'.acct)
    OBVIOUS
  <2>0. key'.acct \in Account /\ key' # NoToken
    BY Tokens
  <2>1. CASE key'.acct = key.acct /\ key'.scope = key.scope /\ (key' = NoToken <=> key = NoToken)
    BY <1>0, <1>1, <2>0, <2>1, Parts DEF IInv, KeyInv
  <2>2. ASSUME NEW s \in Slot, SignedIn(s), flow[s].acct \in Account, key' = Issued(flow[s].acct)
        PROVE  ~ RestrictedNext(key'.acct)
    <3>1. key'.acct = flow[s].acct /\ account[flow[s].acct] # "must"
      BY <2>2, Issues
    <3> QED BY <1>1, <2>2, <3>1 DEF Restricted
  <2>3. ASSUME NEW s \in Slot, PasswordChanged(s), call[s].of \in Account, key' = Unscoped(call[s].of)
        PROVE  ~ RestrictedNext(key'.acct)
    <3>1. key'.acct = call[s].of /\ call[s].at = "answered" /\ s \in Caller
      BY <1>0, <2>3, Issues, Parts DEF PasswordChanged, Served
    <3> QED BY <1>1, <2>3, <3>1 DEF IInv, CallInv
  <2>4. CASE refresh.token \in Token /\ key' = refresh.token
    BY <1>1, <2>0, <2>4 DEF IInv, RefreshInv
  <2> QED BY <1>0, <2>0, <2>1, <2>2, <2>3, <2>4, TokenSteps DEF KeyStep
<1>3. refresh'.token \in Token /\ refresh'.token.scope = "full" => ~ RestrictedNext(refresh'.token.acct)
  <2> SUFFICES ASSUME refresh'.token \in Token, refresh'.token.scope = "full"
               PROVE  ~ RestrictedNext(refresh'.token.acct)
    OBVIOUS
  <2>0. refresh'.token.acct \in Account /\ refresh' # NoRefresh
    BY Tokens
  <2>1. CASE /\ refresh'.token.acct = refresh.token.acct /\ refresh'.token.scope = refresh.token.scope
             /\ refresh' = NoRefresh <=> refresh = NoRefresh
    BY <1>0, <1>1, <2>0, <2>1, Parts DEF IInv, RefreshInv
  <2>2. CASE key \in Token /\ refresh' = Posted(key)
    <3>1. refresh'.token = key
      BY <2>2 DEF Posted
    <3> QED BY <1>1, <2>0, <2>2, <3>1 DEF IInv, KeyInv
  <2>3. CASE /\ RefreshCommitted /\ refresh.token \in Token
             /\ refresh'.token = Unscoped(refresh.token.acct)
    <3>1. refresh'.token.acct = refresh.token.acct /\ refresh.token.acct \in Account
      BY <2>3, Issues, Tokens
    <3>2. CASE refresh.token.scope = "full"
      BY <1>1, <2>3, <3>1, <3>2 DEF IInv, RefreshInv
    <3>3. CASE refresh.token.scope = "change_only"
      BY <2>3, <3>1, <3>3 DEF RefreshCommitted, RestrictedNext
    <3> QED BY <2>3, <3>2, <3>3, Tokens
  <2> QED BY <1>0, <2>0, <2>1, <2>2, <2>3, TokenSteps DEF RefreshStep
<1>4. CallInv'
  <2> SUFFICES ASSUME NEW c \in Caller, call'[c].of \in Account,
                      call'[c].at = "answered" \/ call'[c].scope = "full"
               PROVE  ~ RestrictedNext(call'[c].of)
    BY DEF CallInv, Restricted, RestrictedNext
  <2>1. CASE call'[c] = call[c]
    BY <1>1, <2>1 DEF IInv, CallInv
  <2>2. CASE call'[c].at = "sent" /\ key \in Token /\ call'[c].of = key.acct /\ call'[c].scope = key.scope
    BY <1>1, <2>2 DEF IInv, KeyInv
  <2>3. CASE /\ call'[c].at = "sent" /\ refresh.token \in Token
             /\ call'[c].of = refresh.token.acct /\ call'[c].scope = refresh.token.scope
    BY <1>1, <2>3 DEF IInv, RefreshInv
  <2>4. CASE call'[c].at = "answered" /\ call'[c].of = call[c].of /\ Answers(c)
    <3>1. CASE c \in Slot /\ ChangedOnServer(c)
      <4>1. account'[call[c].of] = "active"
        BY <1>0, <3>1, <2>4 DEF ChangedOnServer, Types, TypeOK
      <4> QED BY <2>4, <4>1 DEF RestrictedNext
    <3>2. CASE Accepts(c) /\ Wants(c) # "change"
      BY <1>1, <2>4, <3>2 DEF Accepts, Allowed, IInv, CallInv
    <3> QED BY <2>4, <3>1, <3>2 DEF Answers, Read, SignedOutOnServer, DeletedOnServer
  <2> QED BY <1>0, <2>1, <2>2, <2>3, <2>4, CallSteps DEF CallStep
<1>5. user' \in Account => ~ RestrictedNext(user')
  <2> SUFFICES ASSUME user' \in Account PROVE ~ RestrictedNext(user')
    OBVIOUS
  <2>1. CASE user' = user
    BY <1>1, <2>1 DEF IInv, UserInv
  <2>2. ASSUME NEW s \in Slot, Welcome(s), user' = call[s].of PROVE ~ RestrictedNext(user')
    <3>1. call[s].at = "answered" /\ s \in Caller
      BY <1>0, <2>2, Parts DEF Welcome, Served
    <3> QED BY <1>1, <2>2, <3>1 DEF IInv, CallInv
  <2> QED BY <1>0, <2>1, <2>2, TokenSteps, Tokens DEF UserStep
<1>6. KeyInv' /\ RefreshInv' /\ UserInv'
  BY <1>2, <1>3, <1>5 DEF KeyInv, RefreshInv, UserInv, Restricted, RestrictedNext
<1> QED BY <1>0, <1>4, <1>6 DEF IInv

(* Whoever must change the password is not let in before, but by a refresh *)
(* that lost the restriction, whatever flows and requests overlap.         *)
THEOREM RestrictionHolds == Spec => []ForcedUserChanges
<1>1. Init => IInv
  BY InitIInv
<1>2. IInv /\ [Next]_vars => IInv'
  BY NextIInv
<1>3. IInv => ForcedUserChanges
  BY Parts DEF IInv, UserInv, Restricted, ForcedUserChanges, Types, TypeOK
<1> QED BY <1>1, <1>2, <1>3, PTL DEF Spec

-----------------------------------------------------------------------------
(* One account is in play                                                  *)

(* Whom the token, the refresh, the user of the store and the requests of  *)
(* the flows are of.                                                       *)
InPlay ==
  {x \in Account : \/ x = key.acct \/ x = refresh.token.acct \/ x = user
                   \/ \E s \in Slot : Signed(s) /\ call[s].of = x}

LEMMA Plays ==
  ASSUME Types, NEW s \in Slot, call[s].of \in Account,
         \/ At(s, Kind, "me") \/ At(s, {"change", "logout", "delete"}, "post")
  PROVE  Signed(s) /\ call[s].of \in InPlay
<1>1. Signed(s)
  BY Parts DEF At, Signed, Wants
<1> QED BY <1>1 DEF InPlay

(* Only a sign-in brings another account into play.                        *)
LEMMA PlayShrinks ==
  ASSUME Types, [Next]_vars, ~ Restart, \A s \in Slot : ~ SignedIn(s)
  PROVE  InPlay' \subseteq InPlay
<1> SUFFICES ASSUME NEW x \in Account, x \in InPlay' PROVE x \in InPlay
  BY DEF InPlay
<1>0. KeyStep /\ RefreshStep /\ UserStep
  BY TokenSteps
<1>1. CASE x = key'.acct
  <2>1. ASSUME NEW s \in Slot, PasswordChanged(s), call[s].of \in Account, key' = Unscoped(call[s].of)
        PROVE  x \in InPlay
    <3>1. At(s, {"change", "logout", "delete"}, "post")
      BY <2>1 DEF PasswordChanged, At
    <3>2. x = call[s].of
      BY <1>1, <2>1, Issues
    <3> QED BY <2>1, <3>1, <3>2, Plays
  <2>2. CASE key' = NoToken
    BY <1>1, <2>2, Tokens
  <2>3. CASE key'.acct = key.acct
    BY <1>1, <2>3 DEF InPlay
  <2>4. CASE key' = refresh.token
    BY <1>1, <2>4 DEF InPlay
  <2> QED BY <1>0, <2>1, <2>2, <2>3, <2>4 DEF KeyStep
<1>2. CASE x = refresh'.token.acct
  <2>1. CASE refresh' = NoRefresh
    BY <1>2, <2>1, Tokens
  <2>2. CASE refresh'.token.acct = refresh.token.acct
    BY <1>2, <2>2 DEF InPlay
  <2>3. CASE refresh' = Posted(key)
    <3>1. refresh'.token = key
      BY <2>3 DEF Posted
    <3> QED BY <1>2, <3>1 DEF InPlay
  <2>4. CASE refresh.token \in Token /\ refresh'.token = Unscoped(refresh.token.acct)
    <3>1. refresh'.token.acct = refresh.token.acct
      BY <2>4, Issues, Tokens
    <3> QED BY <1>2, <3>1 DEF InPlay
  <2> QED BY <1>0, <2>1, <2>2, <2>3, <2>4 DEF RefreshStep
<1>3. CASE x = user'
  <2>1. ASSUME NEW s \in Slot, Welcome(s), call[s].of \in Account, user' = call[s].of
        PROVE  x \in InPlay
    BY <1>3, <2>1, Plays DEF Welcome
  <2>2. CASE user' = user
    BY <1>3, <2>2 DEF InPlay
  <2> QED BY <1>0, <1>3, <2>1, <2>2, Tokens DEF UserStep
<1>4. ASSUME NEW s \in Slot, Signed(s)', call'[s].of = x PROVE x \in InPlay
  <2>1. FlowStep(s) /\ CallStep(s)
    BY FlowSteps, CallSteps, Parts
  <2>2. CASE flow'[s] = flow[s]
    <3>1. Signed(s)
      BY <1>4, <2>2 DEF Signed, Wants
    <3> QED BY <1>4, <2>1, <3>1 DEF CallStep, InPlay
  <2>3. CASE FromKey(s)
    BY <1>4, <2>3 DEF FromKey, InPlay
  <2> QED BY <2>1, <2>2, <2>3 DEF FlowStep
<1> QED BY <1>1, <1>2, <1>3, <1>4 DEF InPlay

(* Inductive: while no flows overlap, no two accounts are in play, and     *)
(* where a flow or the sign-in screen may sign another one in, or the      *)
(* launch has not asked yet, nobody is shown.                              *)
One == \A s, q \in Slot : ~ Free(s) /\ ~ Free(q) => s = q
Places ==
  /\ screen = "login" => user = None
  /\ \A s \in Slot : flow[s].kind \in {"login", "register", "reset"} => user = None
  /\ \A s \in Slot : flow[s].kind = "launch" => screen = "tabs"
  /\ \A s \in Slot : At(s, {"launch"}, "post") => user = None
Same == \A x, y \in InPlay : x = y

PlayInv == Types /\ (~ crossed => One /\ Places /\ Same)

LEMMA FreeKind ==
  ASSUME Types, NEW s \in Slot
  PROVE  flow[s].kind \in Kind => ~ Free(s)
BY DEF Free, NoFlow, Kind, None

LEMMA AfterStart ==
  ASSUME Types, Restart
  PROVE  (One /\ Places /\ Same)' /\ InPlay' \subseteq {key'.acct}
<1>1. /\ user' = None /\ screen' = "tabs" /\ refresh' = NoRefresh /\ key' = key
  BY DEF Restart, Started
<1>2. /\ \A s \in Slot : flow'[s].kind \in {None, "launch"}
      /\ \A s, q \in Slot : flow'[s] # NoFlow /\ flow'[q] # NoFlow => s = q
      /\ \A s \in Slot : call'[s] = Idle
  BY StartTypes
<1>3. InPlay' \subseteq {key'.acct}
  BY <1>1, <1>2, Tokens, Calls DEF InPlay
<1>4. One' /\ Places'
  BY <1>1, <1>2 DEF One, Places, Free, At, None
<1> QED BY <1>3, <1>4 DEF Same

(* Where a sign-in may end, only its own account comes into play.          *)
LEMMA AfterSignIn ==
  ASSUME PlayInv, ~ crossed, ~ crossed', NEW s \in Slot, SignedIn(s)
  PROVE  Same'
<1>0. Types /\ One /\ Places
  BY DEF PlayInv
<1> DEFINE a == flow[s].acct
<1>1. /\ At(s, {"login", "register"}, "post") /\ key' = Issued(a) /\ Moves(s, "ask")
      /\ crossed' = (crossed \/ (refresh # NoRefresh /\ refresh.token.acct # Issued(a).acct))
      /\ UNCHANGED <<refresh, user>>
  BY DEF SignedIn, Save, shown
<1>2. a \in Account /\ flow[s].kind \in Kind /\ flow[s].kind \in {"login", "register", "reset"}
  BY <1>0, <1>1 DEF Types, Named, At, Kind
<1>3. user' = None /\ key'.acct = a
  BY <1>0, <1>1, <1>2, Issues DEF Places
<1>4. refresh' = NoRefresh \/ refresh'.token.acct = a
  BY <1>1, <1>2, Issues
<1>5. \A q \in Slot : ~ (Signed(q)' /\ call'[q].of \in Account)
  <2> SUFFICES ASSUME NEW q \in Slot, Signed(q)', call'[q].of \in Account PROVE FALSE
    OBVIOUS
  <2>1. CASE q = s
    <3>1. call'[q] = Idle
      BY <1>0, <1>1, <2>1, Parts DEF Moves, Types, TypeOK
    <3> QED BY <3>1, Calls, Tokens
  <2>2. CASE q # s
    <3>1. flow'[q] = flow[q]
      BY <1>0, <1>1, <1>2, <2>2, MovesTypes
    <3>2. flow[q] = NoFlow
      BY <1>0, <1>2, <2>2, FreeKind DEF One, Free
    <3>3. Wants(q)' = None
      BY <1>0, <3>1, <3>2, Parts DEF Wants, NoFlow
    <3> QED BY <3>3 DEF Signed, None
  <2> QED BY <2>1, <2>2
<1> HIDE DEF a
<1> QED BY <1>3, <1>4, <1>5, Tokens DEF Same, InPlay

LEMMA InitPlayInv == Init => PlayInv
<1> SUFFICES ASSUME Init PROVE PlayInv
  OBVIOUS
<1>1. Types
  BY InitTypes
<1>2. PICK s \in Slot : flow = [NoFlows EXCEPT ![s].kind = "launch"]
  BY DEF Init, Launching
<1>3. \A q \in Slot : flow[q] = IF q = s THEN [NoFlow EXCEPT !.kind = "launch"] ELSE NoFlow
  BY <1>2 DEF NoFlows
<1>4. \A q \in Slot : flow[q].kind \in {None, "launch"} /\ (flow[q] # NoFlow => q = s)
  BY <1>3 DEF NoFlow
<1>5. user = None /\ screen = "tabs" /\ refresh = NoRefresh /\ \A q \in Slot : call[q] = Idle
  BY Parts, <1>1 DEF Init
<1>6. One /\ Places
  BY <1>4, <1>5 DEF One, Places, Free, At, None
<1>7. Same
  BY <1>5, Tokens, Calls DEF Same, InPlay
<1> QED BY <1>1, <1>6, <1>7 DEF PlayInv

LEMMA NextOne ==
  ASSUME Types, [Next]_vars, ~ Restart, ~ crossed', ~ crossed, One
  PROVE  One'
<1> SUFFICES ASSUME NEW s \in Slot, NEW q \in Slot, ~ Free(s)', ~ Free(q)', s # q PROVE FALSE
  BY DEF One
<1>1. FlowStep(s) /\ FlowStep(q)
  BY FlowSteps
<1>2. CASE Begun(s) \/ Begun(q)
  BY <1>2 DEF Begun, Alone, Free
<1>3. CASE ~ Begun(s) /\ ~ Begun(q)
  BY <1>1, <1>3 DEF FlowStep, Free, One
<1> QED BY <1>2, <1>3

LEMMA NextPlaces ==
  ASSUME PlayInv, [Next]_vars, ~ Restart, ~ crossed', ~ crossed
  PROVE  Places'
<1>0. Types /\ One /\ Places /\ UserStep /\ ScreenStep /\ \A s \in Slot : FlowStep(s)
  BY TokenSteps, ScreenSteps, FlowSteps DEF PlayInv
<1> DEFINE Shows(s) == Welcome(s) /\ call[s].of \in Account /\ user' = call[s].of
<1>1. ASSUME NEW s \in Slot, Shows(s)
      PROVE  /\ flow[s].stage = "me" /\ ~ Free(s)
             /\ \/ /\ flow[s].kind = "launch" /\ screen' = "tabs" /\ screen = "tabs"
                   /\ flow'[s].kind = "launch" /\ flow'[s].stage = "push"
                \/ flow[s].kind # "launch" /\ screen' = "tabs" /\ flow'[s] = NoFlow
  <2>1. At(s, Kind, "me")
    BY <1>1 DEF Welcome
  <2>2. flow[s].stage = "me" /\ flow[s].kind \in Kind /\ ~ Free(s)
    BY <1>0, <2>1, FreeKind DEF At
  <2>3. CASE flow[s].kind = "launch"
    <3>1. Moves(s, "push") /\ screen' = screen
      BY <1>1, <2>3 DEF Welcome
    <3>2. flow'[s].kind = "launch" /\ flow'[s].stage = "push"
      BY <1>0, <2>2, <2>3, <3>1, MovesTypes
    <3> QED BY <1>0, <2>2, <2>3, <3>1, <3>2 DEF Places
  <2>4. CASE flow[s].kind # "launch"
    <3>1. Mount(s, call[s].of)
      BY <1>1, <2>4 DEF Welcome
    <3>2. screen' = "tabs" /\ flow'[s] = NoFlow
      BY <1>0, <3>1 DEF Mount, Types, TypeOK
    <3> QED BY <2>2, <2>4, <3>2
  <2> QED BY <2>3, <2>4
<1> HIDE DEF Shows
<1>2. user' = None \/ user' = user \/ \E s \in Slot : Shows(s)
  BY <1>0 DEF UserStep, Shows
<1>3. screen' = "login" => user' = None
  <2> SUFFICES ASSUME screen' = "login" PROVE user' = None
    OBVIOUS
  <2>1. user' = None \/ user' = user
    BY <1>1, <1>2
  <2>2. CASE screen' = screen
    BY <1>0, <2>1, <2>2 DEF Places
  <2>3. CASE screen' # screen
    <3>1. PICK s \in Slot : \/ user' = None
                            \/ user' = user /\ (flow[s].kind = "reset" \/ At(s, {"launch"}, "post"))
      BY <1>0, <2>3 DEF ScreenStep
    <3> QED BY <1>0, <3>1 DEF Places
  <2> QED BY <2>2, <2>3
<1>4. ASSUME NEW q \in Slot, flow'[q].kind \in {"login", "register", "reset"} PROVE user' = None
  <2>1. CASE Begun(q)
    BY <1>0, <1>4, <2>1 DEF Begun, Places
  <2>2. CASE ~ Begun(q)
    <3>1. flow'[q].kind = flow[q].kind
      BY <1>0, <1>4, <2>2 DEF FlowStep, NoFlow, None
    <3>2. user = None /\ ~ Free(q)
      BY <1>0, <1>4, <3>1, FreeKind DEF Places, Kind
    <3>3. ASSUME NEW s \in Slot, Shows(s) PROVE FALSE
      <4>1. s = q
        BY <1>0, <1>1, <3>2, <3>3 DEF One
      <4> QED BY <1>1, <1>4, <3>1, <3>3, <4>1 DEF NoFlow, None
    <3> QED BY <1>2, <3>2, <3>3
  <2> QED BY <2>1, <2>2
<1>5. ASSUME NEW q \in Slot, flow'[q].kind = "launch"
      PROVE  screen' = "tabs" /\ (flow'[q].stage = "post" => user' = None)
  <2>1. /\ flow'[q].kind = flow[q].kind /\ ~ Free(q)
        /\ flow'[q].stage = "post" => flow'[q] = flow[q]
    BY <1>0, <1>5, FreeKind DEF FlowStep, Begun, NoFlow, None, Kind
  <2>2. screen = "tabs" /\ (flow'[q].stage = "post" => user = None)
    BY <1>0, <1>5, <2>1 DEF Places, At
  <2>3. ASSUME NEW s \in Slot, ~ Free(s), flow'[s] = NoFlow PROVE FALSE
    <3>1. s = q
      BY <1>0, <2>1, <2>3 DEF One
    <3> QED BY <1>5, <2>3, <3>1 DEF NoFlow, None
  <2>4. screen' = "tabs"
    BY <1>0, <2>2, <2>3 DEF ScreenStep
  <2>5. ASSUME NEW s \in Slot, Shows(s), flow'[q].stage = "post" PROVE FALSE
    <3>1. s = q
      BY <1>0, <1>1, <2>1, <2>5 DEF One
    <3> QED BY <1>1, <1>5, <2>1, <2>5, <3>1
  <2> QED BY <1>2, <2>2, <2>4, <2>5
<1> QED BY <1>3, <1>4, <1>5 DEF Places, At

LEMMA NextPlayInv == PlayInv /\ [Next]_vars => PlayInv'
<1> SUFFICES ASSUME PlayInv, [Next]_vars PROVE PlayInv'
  OBVIOUS
<1>0. Types /\ Types'
  BY StepTypes DEF PlayInv
<1>1. CASE Restart
  BY <1>0, <1>1, AfterStart DEF PlayInv
<1>2. CASE ~ Restart /\ ~ crossed'
  <2>1. ~ crossed /\ One /\ Places /\ Same
    BY <1>0, <1>2, HistorySteps DEF PlayInv
  <2>2. One' /\ Places'
    BY <1>0, <1>2, <2>1, NextOne, NextPlaces
  <2>3. Same'
    <3>1. CASE \E s \in Slot : SignedIn(s)
      BY <1>2, <2>1, <3>1, AfterSignIn
    <3>2. CASE \A s \in Slot : ~ SignedIn(s)
      <4>1. InPlay' \subseteq InPlay
        BY <1>0, <1>2, <3>2, PlayShrinks
      <4> QED BY <2>1, <4>1 DEF Same
    <3> QED BY <3>1, <3>2
  <2> QED BY <1>0, <2>2, <2>3 DEF PlayInv
<1>3. CASE crossed'
  BY <1>0, <1>3 DEF PlayInv
<1> QED BY <1>1, <1>2, <1>3

(* The calls of the app are of the account it shows, across restarts, but  *)
(* for the two histories that crossed records.                             *)
THEOREM ShownIsCalled == Spec => []UserHoldsKey
<1>1. Init => PlayInv
  BY InitPlayInv
<1>2. PlayInv /\ [Next]_vars => PlayInv'
  BY NextPlayInv
<1>3. PlayInv => UserHoldsKey
  <2> SUFFICES ASSUME PlayInv, ~ crossed, key # NoToken, user # None PROVE user = key.acct
    BY DEF UserHoldsKey
  <2>1. user \in Account /\ key.acct \in Account
    BY Parts, Tokens DEF PlayInv, Types, TypeOK
  <2>2. user \in InPlay /\ key.acct \in InPlay
    BY <2>1 DEF InPlay
  <2> QED BY <2>2 DEF PlayInv, Same
<1> QED BY <1>1, <1>2, <1>3, PTL DEF Spec

-----------------------------------------------------------------------------
(* The cached list is of that account                                      *)

(* Where the tabs show data, or will once the launch is done.              *)
Tabs == (user # None /\ screen = "tabs") \/ \E s \in Slot : flow[s].kind = "launch"

(* Inductive: what the list has at rest, and whom a fetch of it is sent or *)
(* answered for, is all that is in play.                                   *)
CacheFits == call[MyList].at = "idle" => cache = NoData \/ InPlay \subseteq {cache}
FetchFits ==
  call[MyList].at \in {"sent", "answered"} /\ call[MyList].of \in Account
    => InPlay \subseteq {call[MyList].of}

DataInv == PlayInv /\ (~ crossed /\ ~ excused /\ Tabs => CacheFits /\ FetchFits)

(* The tabs mount, or something happens to the list.                       *)
Mounts(s) == (Welcome(s) /\ flow[s].kind # "launch") \/ LaunchDone(s)
ListStep == PullToRefresh \/ FetchReceived \/ FetchFailed

LEMMA OtherLists ==
  ASSUME Types, [Next]_vars, ~ Restart, ~ ListStep, \A s \in Slot : ~ Mounts(s)
  PROVE  /\ UNCHANGED lists /\ (screen' = "tabs" => screen = "tabs")
         /\ call'[MyList] = call[MyList] \/ call'[MyList].at # "idle"
<1> DEFINE Still == /\ UNCHANGED lists /\ (screen' = "tabs" => screen = "tabs")
                    /\ call'[MyList] = call[MyList] \/ call'[MyList].at # "idle"
<1> SUFFICES Still
  OBVIOUS
<1> USE DEF client, shown, history
<1>0. Slot \subseteq Caller /\ MyList \in Caller /\ MyList \notin Slot /\ call \in [Caller -> Call]
  BY Parts DEF Types, TypeOK
<1>1. ASSUME NEW s \in Slot,
             \/ SignedIn(s) \/ RegistrationLost(s) \/ ResetDone(s) \/ TimerFires(s)
             \/ PasswordChanged(s) \/ Refusal(s) \/ SignedOut(s) \/ AccountDeleted(s)
             \/ Launch(s) \/ NotWelcome(s) \/ LaunchFailed(s) \/ FetchMe(s)
             \/ Welcome(s) /\ flow[s].kind = "launch"
      PROVE  Still
  <2>1. \/ call' = [call EXCEPT ![s] = Idle]
        \/ call' = [call EXCEPT ![s] = Sent(key)]
    BY <1>1 DEF SignedIn, RegistrationLost, ResetDone, TimerFires, PasswordChanged, Refusal,
                SignedOut, AccountDeleted, Launch, NotWelcome, LaunchFailed, FetchMe, Welcome,
                Ends, Moves, Ask
  <2>2. call'[MyList] = call[MyList]
    BY <1>0, <2>1
  <2>3. UNCHANGED lists /\ (screen' = "tabs" => screen = "tabs")
    BY <1>1 DEF SignedIn, RegistrationLost, ResetDone, TimerFires, PasswordChanged, Refusal,
                SignedOut, AccountDeleted, Launch, NotWelcome, LaunchFailed, FetchMe, Welcome
  <2> QED BY <2>2, <2>3
<1>2. ASSUME NEW s \in Slot,
             \/ SubmitLogin(s) \/ SubmitRegistration(s) \/ SubmitReset(s)
             \/ ChangePassword(s) \/ SignOutOrDelete(s)
      PROVE  Still
  <2>1. PICK kind \in Kind, a \in Account \cup {None} : Begin(s, kind, a)
    BY <1>2, BeginningTypes
  <2>2. call'[MyList] = call[MyList]
    BY <1>0, <2>1 DEF Begin
  <2>3. UNCHANGED <<shown, lists>>
    BY <2>1 DEF Begin
  <2> QED BY <2>2, <2>3
<1>3. ASSUME NEW c \in Caller,
             \/ Read(c) \/ Refused(c)
             \/ c \in Slot /\ (ChangedOnServer(c) \/ SignedOutOnServer(c) \/ DeletedOnServer(c))
      PROVE  Still
  <2>1. \/ \E g \in {call[c].of, "error"} : Answer(c, g)
        \/ call' = [call EXCEPT ![c] = Held]
    BY <1>3 DEF Read, Refused, ChangedOnServer, SignedOutOnServer, DeletedOnServer, Replies
  <2>2. call[c].of \in Account \/ Answer(c, "error") \/ call' = [call EXCEPT ![c] = Held]
    BY <1>3 DEF Read, Refused, ChangedOnServer, SignedOutOnServer, DeletedOnServer, Accepts
  <2>3. \/ call' = [call EXCEPT ![c] = Held]
        \/ \E g \in Account \cup {"error"} : call' = [call EXCEPT ![c] = Answered(g)]
    BY <2>1, <2>2 DEF Answer
  <2>4. call'[MyList] = call[MyList] \/ call'[MyList].at # "idle"
    BY <1>0, <2>3, Calls
  <2>5. UNCHANGED <<shown, lists>>
    BY <1>3 DEF Read, Refused, ChangedOnServer, SignedOutOnServer, DeletedOnServer
  <2> QED BY <2>4, <2>5
<1>4. CASE RefreshSaved
  <2>1. call'[MyList] = call[MyList] \/ call'[MyList].at # "idle"
    BY <1>0, <1>4, SavedTypes
  <2> QED BY <1>4, <2>1 DEF RefreshSaved
<1>5. CASE RefreshFailed
  <2>1. call' = call \/ \E c \in Caller : call' = [call EXCEPT ![c] = Answered("error")]
    BY <1>5 DEF RefreshFailed, Answer
  <2>2. call'[MyList] = call[MyList] \/ call'[MyList].at # "idle"
    BY <1>0, <2>1, Calls
  <2> QED BY <1>5, <2>2 DEF RefreshFailed
<1>6. CASE OtherRefused \/ RefreshRead \/ RefreshCommitted \/ UNCHANGED vars
  BY <1>6 DEF OtherRefused, RefreshRead, RefreshCommitted, vars
<1> QED BY <1>0, <1>1, <1>2, <1>3, <1>4, <1>5, <1>6 DEF Next, ListStep, Mounts

(* A new fetch has the token in play.                                      *)
LEMMA NewFetchFits ==
  ASSUME Types, Same, InPlay' \subseteq InPlay, call'[MyList] = Sent(key)
  PROVE  CacheFits' /\ FetchFits'
<1>1. call'[MyList].at = "sent" /\ call'[MyList].of = key.acct
  BY Parts, Calls
<1>2. key.acct \in Account => InPlay \subseteq {key.acct}
  BY DEF Same, InPlay
<1> QED BY <1>1, <1>2 DEF CacheFits, FetchFits

LEMMA NextTabs ==
  ASSUME Types, [Next]_vars, ~ Restart, \A s \in Slot : ~ Mounts(s),
         screen' = "tabs" => screen = "tabs"
  PROVE  Tabs' => Tabs
<1>1. ASSUME NEW s \in Slot, flow'[s].kind = "launch" PROVE Tabs
  <2>1. flow[s].kind = "launch"
    BY <1>1, FlowSteps DEF FlowStep, Begun, NoFlow, None
  <2> QED BY <2>1 DEF Tabs
<1>2. ASSUME user' # None, screen' = "tabs" PROVE Tabs
  <2>1. CASE user' = user
    BY <1>2, <2>1 DEF Tabs
  <2>2. ASSUME NEW s \in Slot, Welcome(s) PROVE Tabs
    BY <2>2 DEF Mounts, Tabs
  <2> QED BY <1>2, <2>1, <2>2, TokenSteps DEF UserStep
<1> QED BY <1>1, <1>2 DEF Tabs

LEMMA MountFits ==
  ASSUME Types, Same, InPlay' \subseteq InPlay, NEW s \in Slot, NEW u \in InPlay,
         Mount(s, u), ~ excused'
  PROVE  CacheFits' /\ FetchFits'
<1>1. PICK stale \in Staleness :
        /\ call' = [call EXCEPT ![s] = Idle,
                     ![MyList] = IF @.at = "idle" /\ Fetches(stale) THEN Sent(key) ELSE @]
        /\ excused' = IF call[MyList].at = "idle" THEN ~ stale /\ cache # u
                      ELSE excused \/ (call[MyList].at # "held" /\ call[MyList].of # u)
  BY DEF Mount
<1>2. cache' = cache /\ InPlay' \subseteq {u}
  BY DEF Mount, Same
<1>3. call'[MyList] = IF call[MyList].at = "idle" /\ stale THEN Sent(key) ELSE call[MyList]
  BY <1>1, Parts DEF Fetches, Types, TypeOK
<1>4. CASE call[MyList].at = "idle" /\ stale
  BY <1>3, <1>4, NewFetchFits
<1>5. CASE call[MyList].at = "idle" /\ ~ stale
  <2>1. cache = u /\ call'[MyList] = call[MyList]
    BY <1>1, <1>3, <1>5
  <2> QED BY <1>2, <1>5, <2>1 DEF CacheFits, FetchFits
<1>6. CASE call[MyList].at # "idle"
  <2>1. call'[MyList] = call[MyList] /\ (call[MyList].at = "held" \/ call[MyList].of = u)
    BY <1>1, <1>3, <1>6
  <2> QED BY <1>2, <1>6, <2>1 DEF CacheFits, FetchFits
<1> QED BY <1>4, <1>5, <1>6

LEMMA InitDataInv == Init => DataInv
<1> SUFFICES ASSUME Init PROVE DataInv
  OBVIOUS
<1>1. PlayInv /\ Types
  BY InitPlayInv DEF PlayInv
<1>2. call[MyList] = Sent(key)
  BY <1>1, Parts DEF Init
<1>3. call[MyList].at = "sent" /\ call[MyList].of = key.acct
  BY <1>1, <1>2, Parts, Calls
<1>4. Same /\ (key.acct \in Account => InPlay \subseteq {key.acct})
  BY <1>1 DEF Init, PlayInv, Same, InPlay
<1> QED BY <1>1, <1>3, <1>4 DEF DataInv, CacheFits, FetchFits

LEMMA NextDataInv == DataInv /\ [Next]_vars => DataInv'
<1> SUFFICES ASSUME DataInv, [Next]_vars PROVE DataInv'
  OBVIOUS
<1>0. PlayInv /\ PlayInv' /\ Types
  BY NextPlayInv DEF DataInv, PlayInv
<1> SUFFICES ASSUME ~ crossed', ~ excused', Tabs' PROVE CacheFits' /\ FetchFits'
  BY <1>0 DEF DataInv
<1>1. CASE Restart
  <2>1. call'[MyList] = Sent(key) /\ key' = key
    BY <1>0, <1>1, StartTypes DEF Restart
  <2>2. call'[MyList].at = "sent" /\ call'[MyList].of = key'.acct
    BY <1>0, <2>1, Parts, Calls
  <2> QED BY <1>0, <1>1, <2>2, AfterStart DEF CacheFits, FetchFits
<1>2. CASE ~ Restart
  <2>0. ~ crossed /\ One /\ Places /\ Same
    BY <1>0, <1>2, HistorySteps DEF PlayInv
  <2>1. ASSUME NEW s \in Slot, SignedIn(s) PROVE FALSE
    <3>1. /\ flow[s].kind \in {"login", "register"} /\ user' = user /\ Moves(s, "ask")
      BY <2>1 DEF SignedIn, At, shown
    <3>2. flow[s].kind \in Kind /\ user' = None
      BY <2>0, <3>1 DEF Places, Kind
    <3>3. \A q \in Slot : q # s => flow[q] = NoFlow
      BY <1>0, <2>0, <3>2, FreeKind DEF One, Free
    <3>4. \A q \in Slot : flow'[q].kind # "launch"
      BY <1>0, <3>1, <3>2, <3>3, MovesTypes DEF NoFlow, None
    <3> QED BY <3>2, <3>4 DEF Tabs
  <2>2. InPlay' \subseteq InPlay
    BY <1>0, <1>2, <2>1, PlayShrinks
  <2>3. ASSUME NEW s \in Slot, Mounts(s) PROVE CacheFits' /\ FetchFits'
    <3>1. CASE Welcome(s)
      <4>1. Mount(s, call[s].of) /\ call[s].of \in InPlay
        BY <1>0, <2>3, <3>1, Plays DEF Mounts, Welcome, Served, LaunchDone, At
      <4> QED BY <1>0, <2>0, <2>2, <4>1, MountFits
    <3>2. CASE LaunchDone(s)
      <4>1. Mount(s, user) /\ flow[s].kind = "launch" /\ user' = user
        BY <3>2 DEF LaunchDone, At
      <4>2. flow'[s] = NoFlow /\ \A q \in Slot : q # s => flow'[q] = NoFlow
        <5>1. \A q \in Slot : q # s => flow[q] = NoFlow
          BY <1>0, <2>0, <4>1, FreeKind DEF One, Free, Kind
        <5> QED BY <1>0, <4>1, <5>1 DEF Mount, PlayInv, Types, TypeOK
      <4>3. user # None
        BY <4>1, <4>2 DEF Tabs, NoFlow, None
      <4>4. user \in InPlay
        BY <1>0, <4>3 DEF InPlay, Types, TypeOK
      <4> QED BY <1>0, <2>0, <2>2, <4>1, <4>4, MountFits
    <3> QED BY <2>3, <3>1, <3>2 DEF Mounts
  <2>4. CASE \A s \in Slot : ~ Mounts(s)
    <3>1. CASE PullToRefresh
      <4>1. call'[MyList] = Sent(key)
        BY <1>0, <3>1, Parts DEF PullToRefresh, Ask, Types, TypeOK
      <4> QED BY <1>0, <2>0, <2>2, <4>1, NewFetchFits
    <3>2. CASE FetchFailed
      <4>1. call' = Ask(MyList)
        BY <3>2 DEF FetchFailed
      <4>2. call'[MyList] = Sent(key)
        BY <1>0, <4>1, Parts DEF Ask, Types, TypeOK
      <4> QED BY <1>0, <2>0, <2>2, <4>2, NewFetchFits
    <3>3. CASE FetchReceived
      <4>1. /\ call[MyList].at = "answered" /\ call[MyList].of \in Account
            /\ cache' = call[MyList].of /\ UNCHANGED <<crossed, excused, shown, flow>>
        BY <3>3 DEF FetchReceived, Served, history
      <4>2. Tabs
        BY <4>1 DEF Tabs, shown
      <4>3. InPlay \subseteq {cache'}
        BY <2>0, <4>1, <4>2 DEF DataInv, FetchFits
      <4>4. call'[MyList].at = "idle"
        BY <1>0, <3>3, Parts, Calls DEF FetchReceived, Types, TypeOK
      <4> QED BY <2>2, <4>3, <4>4 DEF CacheFits, FetchFits
    <3>4. CASE ~ ListStep
      <4>1. /\ UNCHANGED lists /\ (screen' = "tabs" => screen = "tabs")
            /\ call'[MyList] = call[MyList] \/ call'[MyList].at # "idle"
        BY <1>0, <1>2, <2>4, <3>4, OtherLists
      <4>2. Tabs
        BY <1>0, <1>2, <2>4, <4>1, NextTabs
      <4>3. CacheFits /\ FetchFits
        BY <2>0, <4>1, <4>2 DEF DataInv, lists
      <4>4. CacheFits'
        BY <2>2, <4>1, <4>3 DEF CacheFits, lists
      <4>5. CallStep(MyList)
        BY <1>0, CallSteps, Parts
      <4>6. FetchFits'
        <5>1. CASE call'[MyList] = call[MyList]
          BY <2>2, <4>3, <5>1 DEF FetchFits
        <5>2. CASE call'[MyList].of = key.acct \/ call'[MyList].of = refresh.token.acct
          BY <2>0, <2>2, <5>2 DEF FetchFits, Same, InPlay
        <5>3. CASE call'[MyList].of = call[MyList].of /\ Answers(MyList)
          <6>1. call[MyList].at = "sent" /\ call[MyList].of \in Account
            BY <1>0, <5>3, Parts DEF Answers, Read, Accepts
          <6> QED BY <2>2, <4>3, <5>3, <6>1 DEF FetchFits
        <5> QED BY <4>5, <5>1, <5>2, <5>3 DEF CallStep, FetchFits
      <4> QED BY <4>4, <4>6
    <3> QED BY <3>1, <3>2, <3>3, <3>4 DEF ListStep
  <2> QED BY <2>3, <2>4
<1> QED BY <1>1, <1>2

(* The tabs at rest show the user's own list, with the exceptions that     *)
(* crossed and excused record.                                             *)
THEOREM TabsAreOwn == Spec => []DataIsOwners
<1>1. Init => DataInv
  BY InitDataInv
<1>2. DataInv /\ [Next]_vars => DataInv'
  BY NextDataInv
<1>3. DataInv => DataIsOwners
  <2> SUFFICES ASSUME DataInv, screen = "tabs", user # None, call[MyList].at = "idle",
                      ~ crossed, ~ excused
               PROVE  cache \in {None, user}
    BY DEF DataIsOwners
  <2>1. cache = NoData \/ InPlay \subseteq {cache}
    BY DEF DataInv, Tabs, CacheFits
  <2>2. user \in InPlay
    BY DEF DataInv, PlayInv, Types, TypeOK, InPlay
  <2> QED BY <2>1, <2>2 DEF NoData
<1> QED BY <1>1, <1>2, <1>3, PTL DEF Spec

-----------------------------------------------------------------------------
(* Signed out until the next sign-in                                       *)

(* A token that opens nothing: none, or one of a deleted account.          *)
Barren(k) == k.acct \in Account => account[k.acct] = "deleted"

(* Inductive: an answered deletion was committed; once the session was     *)
(* ended, no token, no refresh and no request that could bring a user back *)
(* is anything but barren or, sent after the revocation, refused.          *)
Gone ==
  \A s \in Slot :
    At(s, {"delete"}, "post") /\ call[s].at = "answered" /\ call[s].of \in Account
      => account[call[s].of] = "deleted"
Spent == Barren(refresh.token) \/ (refresh.at = "sent" /\ ~ refresh.token.live)
Refusable ==
  \A s \in Slot :
    Wants(s) \in {"read", "change"} /\ call[s].of \in Account
      => account[call[s].of] = "deleted" /\ call[s].at = "sent"

OutInv == Types /\ Gone /\ (out => user = None /\ Barren(key) /\ Spent /\ Refusable)

LEMMA InitOutInv == Init => OutInv
<1> SUFFICES ASSUME Init PROVE OutInv
  OBVIOUS
<1>1. Types
  BY InitTypes
<1>2. \A s \in Slot : call[s] = Idle
  BY <1>1, Parts DEF Init
<1>3. Gone /\ ~ out
  BY <1>2, Calls, Tokens DEF Gone, Init
<1> QED BY <1>1, <1>3 DEF OutInv

LEMMA NextGone ==
  ASSUME Types, Gone, [Next]_vars
  PROVE  Gone'
<1> SUFFICES ASSUME NEW s \in Slot, flow'[s].kind = "delete", flow'[s].stage = "post",
                    call'[s].at = "answered", NEW a \in Account, call'[s].of = a
             PROVE  account'[a] = "deleted"
  BY DEF Gone, At
<1>1. CASE Restart
  BY <1>1, StartTypes DEF None
<1>2. CASE ~ Restart
  <2>1. CallStep(s) /\ FlowStep(s)
    BY <1>2, CallSteps, FlowSteps, Parts
  <2>2. flow'[s] = flow[s]
    BY <2>1 DEF FlowStep, FromKey, Begun, NoFlow, None
  <2>3. CASE call'[s] = call[s]
    BY <2>2, <2>3, AccountSteps DEF Gone, At
  <2>4. CASE call'[s].of = call[s].of /\ Answers(s)
    <3>1. Wants(s) = "delete"
      BY <2>2, Parts DEF Wants
    <3>2. DeletedOnServer(s)
      BY <2>4, <3>1 DEF Answers, Read, ChangedOnServer, SignedOutOnServer
    <3> QED BY <2>4, <3>2 DEF DeletedOnServer, Types, TypeOK
  <2> QED BY <2>1, <2>3, <2>4 DEF CallStep
<1> QED BY <1>1, <1>2

(* The step that ends the session.                                         *)
LEMMA Ending ==
  ASSUME Types, Gone, [Next]_vars, NEW s \in Slot,
         \/ SignedOut(s) /\ key' = NoToken /\ ~ Runs(s)
         \/ AccountDeleted(s) /\ Alone(s)
              /\ \A k \in {key, refresh.token} : k.acct \in {None, call[s].of}
  PROVE  (user = None /\ Barren(key) /\ Spent /\ Refusable)'
<1> DEFINE a == call[s].of
<1>1. /\ Ends(s) /\ user' = None /\ UNCHANGED <<account, refresh>>
      /\ Alone(s)
  BY DEF SignedOut, AccountDeleted, ClearAuth, Runs
<1>2. Refusable'
  <2>1. \A q \in Slot : flow'[q] = NoFlow
    BY <1>1 DEF Ends, Alone, Free, Types, TypeOK
  <2>2. \A q \in Slot : Wants(q)' = None
    BY <2>1, Parts DEF Wants, NoFlow
  <2> QED BY <2>2 DEF Refusable, None
<1>3. Barren(key)' /\ Spent'
  <2>1. CASE SignedOut(s) /\ key' = NoToken /\ ~ Runs(s)
    <3>1. Barren(key)'
      BY <2>1, Tokens DEF Barren
    <3>2. refresh = NoRefresh \/ (refresh.at = "sent" /\ ~ refresh.token.live)
      BY <2>1, Parts, Tokens DEF Runs
    <3> QED BY <1>1, <3>1, <3>2, Tokens DEF Spent, Barren
  <2>2. CASE AccountDeleted(s) /\ \A k \in {key, refresh.token} : k.acct \in {None, call[s].of}
    <3>1. account[call[s].of] = "deleted" /\ key' = key
      BY <2>2 DEF AccountDeleted, Served, Gone
    <3> QED BY <1>1, <2>2, <3>1, Tokens DEF Spent, Barren
  <2> QED BY <2>1, <2>2
<1> QED BY <1>1, <1>2, <1>3

(* Every other keeps it so.                                                *)
LEMMA Staying ==
  ASSUME Types, [Next]_vars, \A s \in Slot : ~ SignedIn(s),
         user = None, Barren(key), Spent, Refusable
  PROVE  (user = None /\ Barren(key) /\ Spent /\ Refusable)'
<1>0. /\ KeyStep /\ RefreshStep /\ UserStep
      /\ \A a \in Account : account[a] = "deleted" => account'[a] = "deleted"
  BY TokenSteps, AccountSteps
<1> DEFINE Dead(x) == x \in Account => account'[x] = "deleted"
<1>1. Dead(key.acct) /\ (Barren(refresh.token) => Dead(refresh.token.acct))
  BY <1>0 DEF Barren
<1>2. Dead(key'.acct)
  <2>1. ASSUME NEW s \in Slot, PasswordChanged(s), call[s].of \in Account PROVE FALSE
    <3>1. Wants(s) = "change" /\ call[s].at = "answered"
      BY <2>1, Parts DEF PasswordChanged, At, Wants, Served
    <3> QED BY <2>1, <3>1 DEF Refusable
  <2>2. CASE key' = NoToken
    BY <2>2, Tokens
  <2>3. CASE key'.acct = key.acct
    BY <1>1, <2>3
  <2>4. CASE RefreshSaved /\ key' = refresh.token
    <3>1. Barren(refresh.token)
      BY <2>4 DEF RefreshSaved, Spent
    <3> QED BY <1>1, <2>4, <3>1
  <2> QED BY <1>0, <2>1, <2>2, <2>3, <2>4 DEF KeyStep
<1>3. Dead(refresh'.token.acct) \/ (refresh'.at = "sent" /\ ~ refresh'.token.live)
  <2>1. CASE refresh' = NoRefresh
    BY <2>1, Tokens
  <2>2. CASE /\ refresh'.token.acct = refresh.token.acct
             /\ refresh'.token.live => refresh.token.live
             /\ refresh'.at = refresh.at \/ RefreshRead
    <3>1. CASE Barren(refresh.token)
      BY <1>1, <2>2, <3>1
    <3>2. CASE refresh.at = "sent" /\ ~ refresh.token.live
      BY <2>2, <3>2 DEF RefreshRead
    <3> QED BY <3>1, <3>2 DEF Spent
  <2>3. CASE refresh' = Posted(key)
    <3>1. refresh'.token = key
      BY <2>3 DEF Posted
    <3> QED BY <1>1, <3>1
  <2>4. CASE /\ RefreshCommitted /\ refresh.token \in Token
             /\ refresh'.token = Unscoped(refresh.token.acct)
    <3>1. Barren(refresh.token) /\ refresh'.token.acct = refresh.token.acct
      BY <2>4, Issues, Tokens DEF RefreshCommitted, Spent
    <3> QED BY <1>1, <3>1
  <2> QED BY <1>0, <2>1, <2>2, <2>3, <2>4 DEF RefreshStep
<1>4. user' = None
  <2>1. ASSUME NEW s \in Slot, Welcome(s), call[s].of \in Account PROVE FALSE
    <3>1. Wants(s) = "read" /\ call[s].at = "answered"
      BY <2>1 DEF Welcome, At, Wants, Served
    <3> QED BY <2>1, <3>1 DEF Refusable
  <2> QED BY <1>0, <2>1 DEF UserStep
<1>5. ASSUME NEW s \in Slot, Wants(s)' \in {"read", "change"}, call'[s].of \in Account
      PROVE  Dead(call'[s].of) /\ call'[s].at = "sent"
  <2>1. CASE Restart
    BY <1>5, <2>1, StartTypes, Calls, Tokens
  <2>2. CASE ~ Restart
    <3>1. CallStep(s) /\ FlowStep(s)
      BY <2>2, CallSteps, FlowSteps, Parts
    <3>2. CASE FromKey(s)
      BY <1>1, <1>5, <3>2 DEF FromKey
    <3>3. CASE flow'[s] = flow[s]
      <4>1. Wants(s) \in {"read", "change"}
        BY <1>5, <3>3 DEF Wants
      <4>2. CASE call'[s] = call[s]
        BY <1>0, <1>5, <4>1, <4>2 DEF Refusable
      <4>3. CASE call'[s].at = "sent" /\ call'[s].of = key.acct
        BY <1>1, <4>3
      <4>4. CASE call'[s].at = "sent" /\ RefreshSaved /\ call'[s].of = refresh.token.acct
        <5>1. Barren(refresh.token)
          BY <4>4 DEF RefreshSaved, Spent
        <5> QED BY <1>1, <4>4, <5>1
      <4>5. CASE call'[s].of = call[s].of /\ Answers(s)
        <5>1. Exists(call[s].of)
          BY <4>5 DEF Answers, Read, ChangedOnServer, SignedOutOnServer, DeletedOnServer, Accepts
        <5> QED BY <1>5, <4>1, <4>5, <5>1 DEF Refusable, Exists
      <4> QED BY <1>5, <3>1, <4>2, <4>3, <4>4, <4>5 DEF CallStep
    <3> QED BY <3>1, <3>2, <3>3 DEF FlowStep
  <2> QED BY <2>1, <2>2
<1> QED BY <1>2, <1>3, <1>4, <1>5 DEF Barren, Spent, Refusable

LEMMA NextOutInv == OutInv /\ [Next]_vars => OutInv'
<1> SUFFICES ASSUME OutInv, [Next]_vars PROVE OutInv'
  OBVIOUS
<1>1. Types' /\ Gone'
  BY StepTypes, NextGone DEF OutInv
<1>2. ASSUME out' PROVE (user = None /\ Barren(key) /\ Spent /\ Refusable)'
  <2>1. CASE out /\ \A s \in Slot : ~ SignedIn(s)
    BY <2>1, Staying DEF OutInv
  <2>2. CASE ~ (out /\ \A s \in Slot : ~ SignedIn(s))
    BY <1>2, <2>2, HistorySteps, Ending DEF OutInv
  <2> QED BY <2>1, <2>2
<1> QED BY <1>1, <1>2 DEF OutInv

(* Nobody is shown as signed in between the end of a session and the next  *)
(* sign-in, across restarts and whatever refresh is under way, but for the *)
(* endings that out does not record.                                       *)
THEOREM SignedOutForGood == Spec => []SignedOutStaysOut
<1>1. Init => OutInv
  BY InitOutInv
<1>2. OutInv /\ [Next]_vars => OutInv'
  BY NextOutInv
<1>3. OutInv => SignedOutStaysOut
  BY DEF OutInv, SignedOutStaysOut
<1> QED BY <1>1, <1>2, <1>3, PTL DEF Spec

=============================================================================
