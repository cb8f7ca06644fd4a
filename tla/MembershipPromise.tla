-------------------------- MODULE MembershipPromise --------------------------
(***************************************************************************)
(* What the membership API promises its callers, one atomic step per call: *)
(* a user is in a portfolio or is not, only an active portfolio can be     *)
(* joined and only by a user who is not in it, leaving undoes joining, a   *)
(* toggle flips the flag, and deleting a portfolio empties it for good.    *)
(***************************************************************************)
EXTENDS Integers

CONSTANTS User, Portfolio

VARIABLES
  status,   \* as in Membership
  member    \* member[u, p]: 1 while u is in p, else 0

vars == <<status, member>>

Init ==
  /\ status = [p \in Portfolio |-> "unborn"]
  /\ member = [up \in User \X Portfolio |-> 0]

Create(p) ==
  /\ status[p] = "unborn"
  /\ status' = [status EXCEPT ![p] = "active"]
  /\ UNCHANGED member

Toggle(p) ==
  /\ \/ status[p] = "active" /\ status' = [status EXCEPT ![p] = "inactive"]
     \/ status[p] = "inactive" /\ status' = [status EXCEPT ![p] = "active"]
  /\ UNCHANGED member

Delete(p) ==
  /\ status[p] \in {"active", "inactive"}
  /\ status' = [status EXCEPT ![p] = "deleted"]
  /\ member' = [up \in User \X Portfolio |-> IF up[2] = p THEN 0 ELSE member[up]]

Join(u, p) ==
  /\ status[p] = "active"
  /\ member[u, p] = 0
  /\ member' = [member EXCEPT ![<<u, p>>] = 1]
  /\ UNCHANGED status

Leave(u, p) ==
  /\ member[u, p] = 1
  /\ member' = [member EXCEPT ![<<u, p>>] = 0]
  /\ UNCHANGED status

Next ==
  \E p \in Portfolio :
    \/ Create(p) \/ Toggle(p) \/ Delete(p)
    \/ \E u \in User : Join(u, p) \/ Leave(u, p)

Spec == Init /\ [][Next]_vars

=============================================================================
