------------------------------ MODULE AdminUsers ------------------------------
(***************************************************************************)
(* The administration of the users: the screen of one administrator with   *)
(* its edit sheet, over update_user and delete_user, which the other       *)
(* administrators call as well; a user can also delete the own account.    *)
(*                                                                         *)
(* A request reads in one snapshot and writes at its commit; the ORM       *)
(* writes the columns that differ from what it read.  The texts, is_active *)
(* and subscription_exempt are treated alike: text stands for them.  The   *)
(* screen does not go away here, and paging is PagedList's.                *)
(***************************************************************************)
EXTENDS Integers, FiniteSets

CONSTANTS
  User, Me,      \* Me: the administrator whose screen this is
  Text,
  MaxCommits     \* bound on the changes

ASSUME UserAssumption == IsFiniteSet(User) /\ Me \in User
ASSUME TextAssumption == Text # {}
ASSUME CommitsAssumption == MaxCommits \in Nat

VARIABLES
  users,         \* the table
  request,       \* updateMutation and deleteMutation
  listed,        \* the rows the list shows
  isSiteAdmin,   \* of currentUser, as the app learned it
  editing,       \* the row the sheet was opened with
  draft,         \* the draft fields of the sheet
  alert,         \* whom the Alert asks about
  commits,
  excused        \* history: a site administrator went by a way nothing counts

vars == <<users, request, listed, isSiteAdmin, editing, draft, alert, commits, excused>>
sheet == <<editing, draft, alert>>
table == <<users, commits, excused>>

-----------------------------------------------------------------------------
(* State                                                                   *)

Role == {"user", "admin", "ultimate_admin"}
Row == [role : Role, text : Text, live : BOOLEAN]

Nobody == "nobody"
Keep == "keep"

Someone == User \cup {Nobody}
Fields == {"role", "text"}

(* What a PATCH names; the password is told by the user in whose sheet it  *)
(* was typed.  edited: the fields the administrator changed.               *)
Payload == [role : Role \cup {Keep}, text : Text \cup {Keep}, password : Someone]
Request ==
  [op : {"update", "delete"}, target : User, payload : Payload, edited : SUBSET Fields,
   stage : {"sent", "begun", "committed"}, seen : Row, late : BOOLEAN]

NoRow == [role |-> "user", text |-> CHOOSE t \in Text : TRUE, live |-> FALSE]
NoEdit == [id |-> Nobody, row |-> NoRow]
NoPayload == [role |-> Keep, text |-> Keep, password |-> Nobody]
NoRequest == [op |-> "none"]
Request0(op, target) ==
  [op |-> op, target |-> target, payload |-> NoPayload, edited |-> {},
   stage |-> "sent", seen |-> NoRow, late |-> FALSE]
NoDraft == [role |-> "user", text |-> NoRow.text, password |-> Nobody]

TypeOK ==
  /\ users \in [User -> Row] /\ listed \in [User -> Row]
  /\ request \in [{"update", "delete"} -> {NoRequest} \cup Request]
  /\ isSiteAdmin \in BOOLEAN
  /\ editing \in [id : Someone, row : Row]
  /\ draft \in [role : Role, text : Text, password : Someone]
  /\ alert \in Someone
  /\ commits \in 0 .. MaxCommits
  /\ excused \in BOOLEAN

SiteAdmins == {u \in User : users[u].live /\ users[u].role = "ultimate_admin"}

Init ==
  /\ users \in [User -> {[NoRow EXCEPT !.role = r, !.live = TRUE] : r \in Role}]
  /\ users[Me].role # "user" /\ SiteAdmins # {}
  /\ isSiteAdmin = (users[Me].role = "ultimate_admin")
  /\ request = [op \in {"update", "delete"} |-> NoRequest]
  /\ listed = users
  /\ editing = NoEdit
  /\ draft = NoDraft
  /\ alert = Nobody
  /\ commits = 0
  /\ excused = FALSE

-----------------------------------------------------------------------------
(* Server                                                                  *)

(* require_role, and the checks of update_user on the roles.               *)
MayUpdate(actor, target, payload) ==
  /\ users[actor].live /\ users[target].live
  /\ \/ users[actor].role = "ultimate_admin"
     \/ /\ users[actor].role = "admin"
        /\ users[target].role # "ultimate_admin"
        /\ payload.role # "ultimate_admin"

(* Mutant: the last one may go.                                            *)
MayDeleteLast(actor, target) ==
  users[actor].live /\ users[target].live /\ users[actor].role = "ultimate_admin"

(* Deleting a site administrator asks for more than one.                   *)
MayDelete(actor, target) ==
  /\ users[actor].live /\ users[target].live
  /\ users[actor].role = "ultimate_admin"
  /\ users[target].role = "ultimate_admin" => Cardinality(SiteAdmins) > 1

(* The ORM writes the columns whose value differs from the one it read.    *)
(* What a deleted row holds is never read again: it is NoRow.              *)
Written(row, seen, payload) ==
  IF ~ row.live THEN row ELSE
  [row EXCEPT !.role = IF payload.role \in {Keep, seen.role} THEN @ ELSE payload.role,
              !.text = IF payload.text \in {Keep, seen.text} THEN @ ELSE payload.text]

Demotes(target, payload) ==
  target \in SiteAdmins /\ payload.role \notin {Keep, "ultimate_admin"}

Change(after, excuse) ==
  /\ commits < MaxCommits /\ commits' = commits + 1
  /\ users' = after
  /\ excused' = (excused \/ excuse)

Begin(op) ==
  LET r == request[op] IN
  /\ r # NoRequest /\ r.stage = "sent"
  /\ IF op = "update" THEN MayUpdate(Me, r.target, r.payload) ELSE MayDelete(Me, r.target)
  /\ request' = [request EXCEPT ![op] = [r EXCEPT !.stage = "begun", !.seen = users[r.target]]]
  /\ UNCHANGED <<table, listed, isSiteAdmin, sheet>>

(* Any other request has seen less than it should have, if it has begun.   *)
Overtaken(r) ==
  IF r # NoRequest /\ r.stage = "begun" THEN [r EXCEPT !.late = r.op = "delete"] ELSE r

Commit(op) ==
  LET r == request[op] IN
  /\ r # NoRequest /\ r.stage = "begun"
  /\ IF op = "update"
     THEN Change([users EXCEPT ![r.target] = Written(@, r.seen, r.payload)],
                 Demotes(r.target, r.payload))
     ELSE Change([users EXCEPT ![r.target] = NoRow], r.late)
  /\ request' = [o \in DOMAIN request |->
       IF o = op
       THEN [Request0(op, Me) EXCEPT !.stage = "committed"]
       ELSE Overtaken(request[o])]
  /\ UNCHANGED <<listed, isSiteAdmin, sheet>>

OneField ==
  {[NoPayload EXCEPT !.role = r] : r \in Role} \cup {[NoPayload EXCEPT !.text = t] : t \in Text}

(* Another administrator's request, or a user deleting the own account.    *)
ServeOther ==
  /\ \E actor, u \in User :
       \/ \E p \in OneField :
            MayUpdate(actor, u, p)
            /\ Change([users EXCEPT ![u] = Written(@, @, p)], Demotes(u, p))
       \/ MayDelete(actor, u) /\ Change([users EXCEPT ![u] = NoRow], FALSE)
       \/ users[u].live /\ Change([users EXCEPT ![u] = NoRow], u \in SiteAdmins)
  /\ users' # users
  /\ request' = [o \in DOMAIN request |-> Overtaken(request[o])]
  /\ UNCHANGED <<listed, isSiteAdmin, sheet>>

-----------------------------------------------------------------------------
(* Screen                                                                  *)

(* The list is fetched again, after an own change or for another reason.   *)
Refetch ==
  /\ listed' = users
  /\ UNCHANGED <<table, request, isSiteAdmin, sheet>>

(* Mutant: the password typed into the sheet before stays.                 *)
DraftButPassword(row) == [role |-> row.role, text |-> row.text, password |-> draft.password]

(* openEdit: the fields of the row, and no password.                       *)
DraftOf(row) == [role |-> row.role, text |-> row.text, password |-> Nobody]

OpenEdit ==
  /\ editing = NoEdit /\ alert = Nobody
  /\ \E u \in User :
       /\ listed[u].live
       /\ isSiteAdmin \/ listed[u].role # "ultimate_admin"
       /\ editing' = [id |-> u, row |-> listed[u]]
       /\ draft' = DraftOf(listed[u])
  /\ UNCHANGED <<table, request, listed, isSiteAdmin, alert>>

Editable == editing # NoEdit /\ alert = Nobody

(* roleOptions, the texts and the switches, and the new password.  What is *)
(* typed while an update is in progress is not read before its answer, so  *)
(* it is typed after it here.                                              *)
Edit ==
  /\ Editable /\ request["update"] = NoRequest
  /\ \/ \E r \in Role : (isSiteAdmin \/ r # "ultimate_admin") /\ draft' = [draft EXCEPT !.role = r]
     \/ \E t \in Text : draft' = [draft EXCEPT !.text = t]
     \/ draft' = [draft EXCEPT !.password = editing.id]
  /\ UNCHANGED <<table, request, listed, isSiteAdmin, editing, alert>>

(* Mutant: what was not edited is sent as well.                            *)
PayloadOfAll == draft

(* The fields that differ from the row the sheet was opened with.          *)
PayloadOf ==
  [role |-> IF draft.role = editing.row.role THEN Keep ELSE draft.role,
   text |-> IF draft.text = editing.row.text THEN Keep ELSE draft.text,
   password |-> draft.password]

Send(r) == request' = [request EXCEPT ![r.op] = r]

(* The drafts outlive the sheet; openEdit is to reset them.  Of those it   *)
(* always overwrites only the type is kept.                                *)
Left == [NoDraft EXCEPT !.password = draft.password]

HandleSave ==
  /\ Editable /\ request["update"] = NoRequest
  /\ IF PayloadOf = NoPayload
     THEN editing' = NoEdit /\ UNCHANGED request
     ELSE /\ Send([Request0("update", editing.id) EXCEPT
                    !.payload = PayloadOf,
                    !.edited = {f \in Fields : draft[f] # editing.row[f]}])
          /\ UNCHANGED editing
  /\ draft' = IF PayloadOf = NoPayload THEN Left ELSE draft
  /\ UNCHANGED <<table, listed, isSiteAdmin, alert>>

(* The overlay beside the sheet, or the back button of the system.         *)
Dismiss ==
  /\ Editable
  /\ editing' = NoEdit
  /\ draft' = Left
  /\ UNCHANGED <<table, request, listed, isSiteAdmin, alert>>

AskDelete ==
  /\ Editable /\ isSiteAdmin /\ editing.id # Me /\ request["delete"] = NoRequest
  /\ alert' = editing.id
  /\ UNCHANGED <<table, request, listed, isSiteAdmin, editing, draft>>

AnswerDelete ==
  /\ alert # Nobody
  /\ alert' = Nobody
  /\ UNCHANGED request \/ Send(Request0("delete", alert))
  /\ UNCHANGED <<table, listed, isSiteAdmin, editing, draft>>

(* setEditing(null) closes whatever sheet is open by now; the invalidation *)
(* of the list ends in a Refetch.                                          *)
Succeed(op) ==
  /\ request[op] # NoRequest /\ request[op].stage = "committed"
  /\ request' = [request EXCEPT ![op] = NoRequest]
  /\ editing' = NoEdit
  /\ draft' = Left
  /\ UNCHANGED <<table, listed, isSiteAdmin, alert>>

(* Refused, rolled back or timed out: a toast.  What the server commits    *)
(* for a request given up is among what the others do.                     *)
Fail(op) ==
  /\ request[op] # NoRequest
  /\ request' = [request EXCEPT ![op] = NoRequest]
  /\ UNCHANGED <<table, listed, isSiteAdmin, sheet>>

Next ==
  \/ Refetch \/ OpenEdit \/ Edit \/ HandleSave \/ Dismiss \/ AskDelete \/ AnswerDelete
  \/ ServeOther
  \/ \E op \in {"update", "delete"} : Begin(op) \/ Commit(op) \/ Succeed(op) \/ Fail(op)

Spec == Init /\ [][Next]_vars

-----------------------------------------------------------------------------
(* Properties                                                              *)

(* "Cannot delete the last site admin account": none is left only after a  *)
(* demotion, an own account deleted, or deletions that overlapped.         *)
LastSiteAdminStays == ~ excused => SiteAdmins # {}

(* "Leave blank to keep unchanged": a password is only ever sent to the    *)
(* user in whose sheet it was typed, though the drafts outlive the sheet.  *)
PasswordReachesItsUser ==
  \A op \in DOMAIN request :
    request[op] # NoRequest => request[op].payload.password \in {Nobody, request[op].target}

(* A save, however old the row its sheet was opened with, changes no field *)
(* the administrator did not edit, and so undoes no change another made    *)
(* meanwhile.                                                              *)
EditsKept ==
  [][Commit("update") =>
       LET r == request["update"] IN
       \A f \in Fields \ r.edited : users'[r.target][f] = users[r.target][f]]_vars

=============================================================================
