----------------------------- MODULE JoinHistory -----------------------------
(***************************************************************************)
(* Membership with a history variable: for each join in progress, the      *)
(* holdings versions that were current at an instant, since the request    *)
(* began, at which the database allowed that join.  It says in terms of    *)
(* real time what a join that commits is entitled to rely on.              *)
(***************************************************************************)
EXTENDS Membership

VARIABLE seen   \* seen[s]: the versions at the admissible instants of s

hvars == <<vars, seen>>

(* The tables allow the join t right now, all its conditions together.     *)
AllowedNow(t) ==
  /\ status[t.portfolio] = "active"
  /\ open[t.user, t.portfolio] = 0
  /\ t.user \in entitled
  /\ t.funded => t.user \in linked

VersionsNow(t) == IF AllowedNow(t) THEN {holdings[t.portfolio]} ELSE {}

HInit == Init /\ seen = [s \in Session |-> {}]

Record(s) ==
  IF txn'[s].op # "join" THEN {}
  ELSE VersionsNow(txn[s])' \cup (IF txn[s].op = "join" THEN seen[s] ELSE {})

HNext == Next /\ seen' = [s \in Session |-> Record(s)]

HSpec == HInit /\ [][HNext]_hvars

(* The join t is the one the step from this state commits for session s.   *)
Commits(s, up) ==
  /\ txn[s].op = "join"
  /\ txn'[s] = Idle
  /\ up = <<txn[s].user, txn[s].portfolio>>

(* A membership is only created by a join for which there was one instant  *)
(* while it ran at which the portfolio was active, the user entitled, not  *)
(* a member, and the connection usable, all at once: the handler's four    *)
(* SELECTs never mix two states of the database.                           *)
JoinsWereAllowed ==
  [][\A up \in Pair :
       open'[up] > open[up] =>
         \E s \in Session : Commits(s, up) /\ seen[s] # {}]_hvars

(* A batch of buys is for the holdings of such an instant, not for those   *)
(* of another moment of the request.                                       *)
BuysMatchAllowedJoin ==
  [][\A b \in Batch :
       trades'[b] > trades[b] =>
         \E s \in Session : Commits(s, <<b[1], b[2]>>) /\ b[3] \in seen[s]]_hvars

=============================================================================
