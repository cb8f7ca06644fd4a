---------------------------- MODULE AdminListProofs ----------------------------
(* Theorems about AdminUsers, for any set of users and any texts, and      *)
(* about PagedList, the list of its screen and the others, for any size of *)
(* a page and of the table.                                                *)
EXTENDS AdminUsers, PagedList, FiniteSetTheorems, TLAPS

-----------------------------------------------------------------------------
(* The screen and its sheet: AdminUsers                                    *)

-----------------------------------------------------------------------------
(* Types                                                                   *)

LEMMA TextExists == NoRow.text \in Text /\ NoRow \in Row
<1>1. (CHOOSE t \in Text : TRUE) \in Text
  BY TextAssumption
<1> QED BY <1>1 DEF NoRow, Row, Role

LEMMA InitType == Init => TypeOK
<1> SUFFICES ASSUME Init PROVE TypeOK
  OBVIOUS
<1>1. \A r \in Role : [NoRow EXCEPT !.role = r, !.live = TRUE] \in Row
  <2> SUFFICES ASSUME NEW r \in Role PROVE [NoRow EXCEPT !.role = r, !.live = TRUE] \in Row
    OBVIOUS
  <2>1. [NoRow EXCEPT !.role = r] \in Row
    BY TextExists DEF Row
  <2>2. \A row \in Row : [row EXCEPT !.live = TRUE] \in Row
    BY DEF Row
  <2>3. [NoRow EXCEPT !.role = r, !.live = TRUE] = [[NoRow EXCEPT !.role = r] EXCEPT !.live = TRUE]
    OBVIOUS
  <2> QED BY <2>1, <2>2, <2>3
<1>2. users \in [User -> Row] /\ listed \in [User -> Row]
  <2>1. {[NoRow EXCEPT !.role = r, !.live = TRUE] : r \in Role} \subseteq Row
    BY <1>1
  <2> QED BY <2>1 DEF Init
<1>3. request \in [{"update", "delete"} -> {NoRequest} \cup Request]
  BY DEF Init
<1>4. editing \in [id : Someone, row : Row]
  BY TextExists DEF Init, NoEdit, Someone
<1>5. draft \in [role : Role, text : Text, password : Someone]
  BY TextExists DEF Init, NoDraft, Role, Someone
<1>6. isSiteAdmin \in BOOLEAN
  BY Zenon DEF Init
<1>7. alert \in Someone /\ commits \in 0 .. MaxCommits
  <2>1. alert = Nobody /\ commits = 0
    BY DEF Init
  <2> QED BY <2>1, CommitsAssumption DEF Someone
<1>8. excused \in BOOLEAN
  BY DEF Init
<1> QED BY <1>2, <1>3, <1>4, <1>5, <1>6, <1>7, <1>8 DEF TypeOK

(* An update writes a row, whatever the payload and the row it had seen.   *)
LEMMA WrittenRow ==
  ASSUME NEW row \in Row, NEW seen, NEW payload \in Payload
  PROVE  Written(row, seen, payload) \in Row
  BY DEF Written, Row, Payload, Keep

LEMMA OvertakenType ==
  ASSUME NEW r \in {NoRequest} \cup Request
  PROVE  /\ Overtaken(r) \in {NoRequest} \cup Request
         /\ r = NoRequest => Overtaken(r) = NoRequest
         /\ r # NoRequest => /\ Overtaken(r).payload = r.payload
                             /\ Overtaken(r).target = r.target
<1>1. CASE r = NoRequest
  BY <1>1 DEF Overtaken
<1>2. CASE r \in Request /\ r # NoRequest
  <2>1. Overtaken(r) \in {r, [r EXCEPT !.late = r.op = "delete"]}
    BY <1>2 DEF Overtaken
  <2>2. [r EXCEPT !.late = r.op = "delete"] \in Request
    BY <1>2 DEF Request
  <2>3. /\ [r EXCEPT !.late = r.op = "delete"].payload = r.payload
        /\ [r EXCEPT !.late = r.op = "delete"].target = r.target
    BY <1>2 DEF Request
  <2> QED BY <1>2, <2>1, <2>2, <2>3
<1> QED BY <1>1, <1>2

LEMMA FreshRequest ==
  ASSUME NEW op \in {"update", "delete"}, NEW u \in User
  PROVE  /\ Request0(op, u) \in Request
         /\ Request0(op, u).payload = NoPayload /\ Request0(op, u).target = u
  BY TextExists DEF Request0, Request, Payload, NoPayload, Someone

-----------------------------------------------------------------------------
(* The password of the sheet                                               *)

(* Inductive: what stands in the draft while a sheet is open is nothing,   *)
(* or was typed for the user of that sheet.                                *)
DraftInv == editing # NoEdit => editing.id \in User /\ draft.password \in {Nobody, editing.id}

IInv == TypeOK /\ DraftInv /\ PasswordReachesItsUser

LEMMA InitIInv == Init => IInv
<1> SUFFICES ASSUME Init PROVE IInv
  OBVIOUS
<1>1. DraftInv /\ PasswordReachesItsUser
  BY DEF Init, DraftInv, PasswordReachesItsUser
<1> QED BY <1>1, InitType DEF IInv

(* The requests of the screen stay as they are, but for one.               *)
LEMMA RequestChanges ==
  ASSUME IInv, NEW op \in {"update", "delete"}, NEW r \in {NoRequest} \cup Request,
         r # NoRequest => r.payload.password \in {Nobody, r.target},
         request' = [request EXCEPT ![op] = r]
  PROVE  /\ request' \in [{"update", "delete"} -> {NoRequest} \cup Request]
         /\ PasswordReachesItsUser'
  BY DEF IInv, TypeOK, PasswordReachesItsUser

LEMMA ServerSteps ==
  ASSUME IInv, NEW op \in {"update", "delete"}, Begin(op) \/ Commit(op) \/ Succeed(op) \/ Fail(op)
  PROVE  IInv'
<1> DEFINE r == request[op]
<1>1. r \in Request /\ r.payload.password \in {Nobody, r.target}
  BY DEF Begin, Commit, Succeed, Fail, IInv, TypeOK, PasswordReachesItsUser
<1>2. CASE Begin(op)
  <2> DEFINE b == [r EXCEPT !.stage = "begun", !.seen = users[r.target]]
  <2>1. users[r.target] \in Row
    BY <1>1 DEF IInv, TypeOK, Request
  <2>2. b \in Request /\ b.payload = r.payload /\ b.target = r.target
    BY <1>1, <2>1 DEF Request
  <2>3. request' = [request EXCEPT ![op] = b] /\ UNCHANGED <<table, listed, isSiteAdmin, sheet>>
    BY <1>2 DEF Begin
  <2>4. /\ request' \in [{"update", "delete"} -> {NoRequest} \cup Request]
        /\ PasswordReachesItsUser'
    BY <1>1, <2>2, <2>3, RequestChanges
  <2> QED BY <2>3, <2>4 DEF IInv, TypeOK, DraftInv, table, sheet
<1>3. CASE Succeed(op) \/ Fail(op)
  <2>1. request' = [request EXCEPT ![op] = NoRequest]
    BY <1>3 DEF Succeed, Fail
  <2>2. /\ request' \in [{"update", "delete"} -> {NoRequest} \cup Request]
        /\ PasswordReachesItsUser'
    BY <2>1, RequestChanges
  <2>3. UNCHANGED <<table, listed, isSiteAdmin, alert>>
    BY <1>3 DEF Succeed, Fail, sheet
  <2>4. /\ DraftInv' /\ editing' \in [id : Someone, row : Row]
        /\ draft' \in [role : Role, text : Text, password : Someone]
    <3>1. CASE Succeed(op)
      BY <3>1, TextExists
      DEF Succeed, DraftInv, IInv, TypeOK, NoEdit, Left, NoDraft, Someone, Role
    <3>2. CASE Fail(op)
      BY <3>2 DEF Fail, sheet, DraftInv, IInv, TypeOK
    <3> QED BY <1>3, <3>1, <3>2
  <2> QED BY <2>2, <2>3, <2>4 DEF IInv, TypeOK, table
<1>4. CASE Commit(op)
  <2> DEFINE done == [Request0(op, Me) EXCEPT !.stage = "committed"]
  <2>1. done \in Request /\ done.payload = NoPayload
    BY FreshRequest, UserAssumption DEF Request
  <2>2. request' = [o \in {"update", "delete"} |-> IF o = op THEN done ELSE Overtaken(request[o])]
    BY <1>4 DEF Commit, IInv, TypeOK
  <2>3. request' \in [{"update", "delete"} -> {NoRequest} \cup Request]
    BY <2>1, <2>2, OvertakenType DEF IInv, TypeOK
  <2>4. PasswordReachesItsUser'
    BY <2>1, <2>2, OvertakenType DEF IInv, TypeOK, PasswordReachesItsUser, NoPayload
  <2>5. users' \in [User -> Row] /\ commits' \in 0 .. MaxCommits
    <3>1. Written(users[r.target], r.seen, r.payload) \in Row
      BY <1>1, WrittenRow DEF IInv, TypeOK, Request
    <3> QED BY <1>4, <3>1, TextExists, CommitsAssumption DEF Commit, Change, IInv, TypeOK
  <2>6. excused' \in BOOLEAN
    BY <1>4, Zenon DEF Commit, Change
  <2>7. UNCHANGED <<listed, isSiteAdmin, sheet>>
    BY <1>4 DEF Commit
  <2> QED BY <2>3, <2>4, <2>5, <2>6, <2>7 DEF IInv, TypeOK, DraftInv, sheet
<1> QED BY <1>2, <1>3, <1>4

LEMMA OtherSteps ==
  ASSUME IInv, ServeOther \/ Refetch
  PROVE  IInv'
<1>1. CASE Refetch
  BY <1>1 DEF Refetch, table, sheet, IInv, TypeOK, DraftInv, PasswordReachesItsUser
<1>2. CASE ServeOther
  <2>1. /\ request' = [o \in {"update", "delete"} |-> Overtaken(request[o])]
        /\ UNCHANGED <<listed, isSiteAdmin, sheet>>
    BY <1>2 DEF ServeOther, IInv, TypeOK
  <2>2. request' \in [{"update", "delete"} -> {NoRequest} \cup Request]
    BY <2>1, OvertakenType DEF IInv, TypeOK
  <2>3. PasswordReachesItsUser'
    BY <2>1, OvertakenType DEF IInv, TypeOK, PasswordReachesItsUser
  <2>4. OneField \subseteq Payload
    BY DEF OneField, NoPayload, Payload, Someone
  <2>5. \E actor, u \in User : \E row : users' = [users EXCEPT ![u] = row] /\ row \in Row
    BY <1>2, <2>4, WrittenRow, TextExists DEF ServeOther, Change, IInv, TypeOK
  <2>6. commits' \in 0 .. MaxCommits
    BY <1>2, CommitsAssumption DEF ServeOther, Change, IInv, TypeOK
  <2>7. users' \in [User -> Row]
    BY <2>5 DEF IInv, TypeOK
  <2>8. excused' \in BOOLEAN
    BY <1>2, Zenon DEF ServeOther, Change
  <2> QED BY <2>1, <2>2, <2>3, <2>6, <2>7, <2>8 DEF IInv, TypeOK, DraftInv, sheet
<1> QED BY <1>1, <1>2

(* A sheet is opened with no password; one is typed into an open sheet,    *)
(* for its user; a save sends what was typed there.                        *)
LEMMA SheetSteps ==
  ASSUME IInv, OpenEdit \/ Edit \/ HandleSave \/ Dismiss \/ AskDelete \/ AnswerDelete
  PROVE  IInv'
<1>1. CASE OpenEdit
  <2>1. PICK u \in User : editing' = [id |-> u, row |-> listed[u]] /\ draft' = DraftOf(listed[u])
    BY <1>1 DEF OpenEdit
  <2>2. listed[u] \in Row
    BY DEF IInv, TypeOK
  <2>3. /\ editing' \in [id : Someone, row : Row]
        /\ draft' \in [role : Role, text : Text, password : Someone]
        /\ DraftInv'
    BY <2>1, <2>2 DEF DraftOf, Row, Someone, DraftInv
  <2>4. UNCHANGED <<table, request, listed, isSiteAdmin, alert>>
    BY <1>1 DEF OpenEdit
  <2> QED BY <2>3, <2>4 DEF IInv, TypeOK, table, PasswordReachesItsUser
<1>2. CASE Edit
  <2>1. editing # NoEdit /\ UNCHANGED <<table, request, listed, isSiteAdmin, editing, alert>>
    BY <1>2 DEF Edit, Editable
  <2>2. /\ draft' \in [role : Role, text : Text, password : Someone]
        /\ draft'.password \in {draft.password, editing.id}
    BY <1>2 DEF Edit, IInv, TypeOK
  <2>3. DraftInv'
    BY <2>1, <2>2 DEF IInv, DraftInv
  <2> QED BY <2>1, <2>2, <2>3 DEF IInv, TypeOK, table, PasswordReachesItsUser
<1>3. CASE HandleSave
  <2>1. /\ editing # NoEdit /\ editing.id \in User
        /\ draft.password \in {Nobody, editing.id}
    BY <1>3 DEF HandleSave, Editable, IInv, DraftInv
  <2> DEFINE r0 == Request0("update", editing.id)
             r == [r0 EXCEPT !.payload = PayloadOf,
                             !.edited = {f \in Fields : draft[f] # editing.row[f]}]
  <2>2. PayloadOf \in Payload /\ PayloadOf.password = draft.password
    BY <2>1 DEF PayloadOf, Payload, IInv, TypeOK, Someone
  <2>3. r0 \in Request /\ r0.target = editing.id
    BY <2>1, FreshRequest
  <2>4. r \in Request /\ r.payload = PayloadOf /\ r.target = editing.id /\ r.op = "update"
    BY <2>2, <2>3 DEF Request, Request0
  <2>5. request' = request \/ request' = [request EXCEPT !["update"] = r]
    BY <1>3, <2>4 DEF HandleSave, Send
  <2>6. /\ request' \in [{"update", "delete"} -> {NoRequest} \cup Request]
        /\ PasswordReachesItsUser'
    BY <2>1, <2>2, <2>4, <2>5, RequestChanges DEF IInv, TypeOK, PasswordReachesItsUser
  <2>7. /\ editing' \in {editing, NoEdit} /\ (editing' = editing => draft' = draft \/ editing = NoEdit)
        /\ draft' \in {draft, Left}
        /\ UNCHANGED <<table, listed, isSiteAdmin, alert>>
    BY <1>3, <2>1 DEF HandleSave
  <2>8. Left \in [role : Role, text : Text, password : Someone] /\ NoEdit \in [id : Someone, row : Row]
    BY TextExists DEF Left, NoDraft, NoEdit, Role, Someone, IInv, TypeOK
  <2>9. DraftInv'
    BY <2>1, <2>7 DEF DraftInv
  <2> QED BY <2>6, <2>7, <2>8, <2>9 DEF IInv, TypeOK, table
<1>4. CASE Dismiss
  <2>1. /\ editing' = NoEdit /\ draft' = Left
        /\ UNCHANGED <<table, request, listed, isSiteAdmin, alert>>
    BY <1>4 DEF Dismiss
  <2>2. Left \in [role : Role, text : Text, password : Someone] /\ NoEdit \in [id : Someone, row : Row]
    BY TextExists DEF Left, NoDraft, NoEdit, Role, Someone, IInv, TypeOK
  <2> QED BY <2>1, <2>2 DEF IInv, TypeOK, DraftInv, table, PasswordReachesItsUser
<1>5. CASE AskDelete
  BY <1>5 DEF AskDelete, table, IInv, TypeOK, DraftInv, PasswordReachesItsUser
<1>6. CASE AnswerDelete
  <2>1. /\ alert \in User
        /\ request' = request \/ request' = [request EXCEPT !["delete"] = Request0("delete", alert)]
    BY <1>6 DEF AnswerDelete, Send, Request0, IInv, TypeOK, Someone
  <2>2. /\ request' \in [{"update", "delete"} -> {NoRequest} \cup Request]
        /\ PasswordReachesItsUser'
    BY <2>1, FreshRequest, RequestChanges
    DEF IInv, TypeOK, PasswordReachesItsUser, NoPayload
  <2>3. UNCHANGED <<table, listed, isSiteAdmin, editing, draft>> /\ alert' \in Someone
    BY <1>6 DEF AnswerDelete, Someone
  <2> QED BY <2>2, <2>3 DEF IInv, TypeOK, DraftInv, table
<1> QED BY <1>1, <1>2, <1>3, <1>4, <1>5, <1>6

LEMMA StepIInv == IInv /\ [Next]_vars => IInv'
<1> SUFFICES ASSUME IInv, [Next]_vars PROVE IInv'
  OBVIOUS
<1>1. CASE UNCHANGED vars
  BY <1>1 DEF vars, IInv, TypeOK, DraftInv, PasswordReachesItsUser
<1> QED BY <1>1, ServerSteps, OtherSteps, SheetSteps DEF Next

(* The types of the table, the requests and the sheet.                     *)
THEOREM TypeCorrect == Spec => []TypeOK
<1>1. IInv => TypeOK
  BY DEF IInv
<1> QED BY <1>1, InitIInv, StepIInv, PTL DEF Spec

(* A password reaches only the user in whose sheet it was typed, for any   *)
(* number of users and of sheets opened while a request is in progress.    *)
THEOREM PasswordIsForItsUser == Spec => []PasswordReachesItsUser
<1>1. IInv => PasswordReachesItsUser
  BY DEF IInv
<1> QED BY <1>1, InitIInv, StepIInv, PTL DEF Spec

-----------------------------------------------------------------------------
(* What was not edited                                                     *)

(* Inductive: an update names no field that was not edited.                *)
NamesEdited(r) ==
  /\ r.payload.role = Keep \/ "role" \in r.edited
  /\ r.payload.text = Keep \/ "text" \in r.edited
EditInv == request["update"] # NoRequest => NamesEdited(request["update"])

LEMMA StepEditInv == IInv /\ EditInv /\ [Next]_vars => EditInv'
<1> SUFFICES ASSUME IInv, EditInv, [Next]_vars PROVE EditInv'
  OBVIOUS
<1> DEFINE r == request["update"]
<1>0. request \in [{"update", "delete"} -> {NoRequest} \cup Request]
  BY DEF IInv, TypeOK
<1>1. ASSUME request'["update"] \in {NoRequest, r} PROVE EditInv'
  BY <1>1 DEF EditInv, NamesEdited
<1>2. ASSUME NEW q \in Request, q.payload = NoPayload, request'["update"] = q PROVE EditInv'
  BY <1>2 DEF EditInv, NamesEdited, NoPayload
<1>3. ASSUME request'["update"] = Overtaken(r) PROVE EditInv'
  <2>1. CASE r = NoRequest \/ r.stage # "begun"
    BY <1>1, <1>3, <2>1 DEF Overtaken
  <2>2. CASE r # NoRequest /\ r.stage = "begun"
    <3>1. request'["update"] = [r EXCEPT !.late = r.op = "delete"]
      BY <1>3, <2>2 DEF Overtaken
    <3>2. r \in Request
      BY <1>0, <2>2
    <3>3. request'["update"].payload = r.payload /\ request'["update"].edited = r.edited
      BY <3>1, <3>2 DEF Request
    <3> QED BY <2>2, <3>3 DEF EditInv, NamesEdited
  <2> QED BY <2>1, <2>2
<1>4. CASE HandleSave
  <2>1. CASE UNCHANGED request
    BY <1>1, <2>1
  <2>2. CASE request' # request
    <3> DEFINE r0 == Request0("update", editing.id)
               q == [r0 EXCEPT !.payload = PayloadOf,
                               !.edited = {f \in Fields : draft[f] # editing.row[f]}]
    <3>1. editing.id \in User /\ q.op = "update" /\ request' = [request EXCEPT ![q.op] = q]
      BY <1>4, <2>2 DEF HandleSave, Editable, Send, IInv, DraftInv, Request0
    <3>2. /\ request'["update"].payload = PayloadOf
          /\ request'["update"].edited = {f \in Fields : draft[f] # editing.row[f]}
      BY <1>0, <3>1, FreshRequest DEF Request
    <3>3. /\ PayloadOf.role = Keep \/ draft.role # editing.row.role
          /\ PayloadOf.text = Keep \/ draft.text # editing.row.text
      BY DEF PayloadOf
    <3>4. /\ PayloadOf.role = Keep \/ "role" \in request'["update"].edited
          /\ PayloadOf.text = Keep \/ "text" \in request'["update"].edited
      BY <3>2, <3>3 DEF Fields
    <3> QED BY <3>2, <3>4 DEF EditInv, NamesEdited
  <2> QED BY <2>1, <2>2
<1>5. CASE AnswerDelete
  <2>1. request' = request \/ request' = [request EXCEPT !["delete"] = Request0("delete", alert)]
    BY <1>5 DEF AnswerDelete, Send, Request0
  <2> QED BY <1>0, <1>1, <2>1
<1>6. ASSUME NEW op \in {"update", "delete"}, Begin(op) PROVE EditInv'
  <2> DEFINE b == [request[op] EXCEPT !.stage = "begun", !.seen = users[request[op].target]]
  <2>1. request[op] \in Request /\ request' = [request EXCEPT ![op] = b]
    BY <1>0, <1>6 DEF Begin
  <2>2. b.payload = request[op].payload /\ b.edited = request[op].edited
    BY <2>1 DEF Request
  <2>3. CASE op = "update"
    BY <1>0, <1>6, <2>1, <2>2, <2>3 DEF Begin, EditInv, NamesEdited
  <2>4. CASE op = "delete"
    BY <1>0, <1>1, <2>1, <2>4
  <2> QED BY <2>3, <2>4
<1>7. ASSUME NEW op \in {"update", "delete"}, Commit(op) PROVE EditInv'
  <2> DEFINE done == [Request0(op, Me) EXCEPT !.stage = "committed"]
  <2>1. done \in Request /\ done.payload = NoPayload
    BY FreshRequest, UserAssumption DEF Request
  <2>2. request'["update"] = done \/ request'["update"] = Overtaken(r)
    BY <1>0, <1>7 DEF Commit
  <2> QED BY <1>2, <1>3, <2>1, <2>2
<1>8. CASE ServeOther
  BY <1>0, <1>3, <1>8 DEF ServeOther
<1>9. ASSUME NEW op \in {"update", "delete"}, Succeed(op) \/ Fail(op) PROVE EditInv'
  BY <1>0, <1>1, <1>9 DEF Succeed, Fail
<1>10. CASE Refetch \/ OpenEdit \/ Edit \/ Dismiss \/ AskDelete \/ UNCHANGED vars
  BY <1>1, <1>10 DEF Refetch, OpenEdit, Edit, Dismiss, AskDelete, vars
<1> QED BY <1>4, <1>5, <1>6, <1>7, <1>8, <1>9, <1>10 DEF Next

(* A save changes no field its administrator did not edit, for rows of any *)
(* age and whatever the others change meanwhile.                           *)
THEOREM SavesKeepTheRest == Spec => EditsKept
<1> DEFINE Kept ==
      Commit("update") =>
        LET r == request["update"] IN
        \A f \in Fields \ r.edited : users'[r.target][f] = users[r.target][f]
<1>1. Init => EditInv
  BY DEF Init, EditInv
<1>2. IInv /\ EditInv /\ [Next]_vars => [Kept]_vars
  <2> SUFFICES ASSUME IInv, EditInv, Commit("update") PROVE Kept
    OBVIOUS
  <2> DEFINE r == request["update"]
             row == users[r.target]
  <2>1. r \in Request /\ NamesEdited(r) /\ users \in [User -> Row]
    BY DEF Commit, IInv, TypeOK, EditInv
  <2>2. row \in Row /\ users'[r.target] = Written(row, r.seen, r.payload)
    BY <2>1 DEF Commit, Change, Request
  <2>3. r.payload.role = Keep => Written(row, r.seen, r.payload).role = row.role
    BY <2>2 DEF Written, Row
  <2>4. r.payload.text = Keep => Written(row, r.seen, r.payload).text = row.text
    BY <2>2 DEF Written, Row
  <2> QED BY <2>1, <2>2, <2>3, <2>4 DEF Fields, NamesEdited
<1> QED BY <1>1, <1>2, InitIInv, StepIInv, StepEditInv, PTL DEF Spec, EditsKept

-----------------------------------------------------------------------------
(* The last site administrator                                             *)

(* Inductive: what a deletion saw when it began, that another is left,     *)
(* stands as long as no change has come since.                             *)
AdminInv ==
  /\ ~ excused => SiteAdmins # {}
  /\ \A op \in DOMAIN request :
       request[op] # NoRequest => (request[op].op = "delete" <=> op = "delete")
  /\ LET r == request["delete"] IN
     r # NoRequest /\ r.stage = "begun" /\ ~ r.late => \E v \in SiteAdmins : v # r.target

(* More than one administrator are another than any given one.             *)
LEMMA AnotherLeft ==
  ASSUME NEW u, Cardinality(SiteAdmins) > 1 PROVE \E v \in SiteAdmins : v # u
<1> SUFFICES ASSUME ~ \E v \in SiteAdmins : v # u PROVE FALSE
  OBVIOUS
<1>1. SiteAdmins \in SUBSET {u}
  OBVIOUS
<1>2. IsFiniteSet({u}) /\ Cardinality({u}) = 1
  BY FS_Singleton
<1>3. Cardinality(SiteAdmins) <= Cardinality({u}) /\ IsFiniteSet(SiteAdmins)
  BY <1>1, <1>2, FS_Subset
<1> QED BY <1>2, <1>3, FS_CardinalityType

(* Who may delete leaves an administrator behind.                          *)
LEMMA DeleterStays ==
  ASSUME NEW actor \in User, NEW u \in User, MayDelete(actor, u)
  PROVE  \E v \in SiteAdmins : v # u
<1>1. actor \in SiteAdmins
  BY DEF MayDelete, SiteAdmins
<1>2. CASE users[u].role = "ultimate_admin"
  BY <1>2, AnotherLeft DEF MayDelete
<1>3. CASE users[u].role # "ultimate_admin"
  BY <1>1, <1>3 DEF SiteAdmins
<1> QED BY <1>2, <1>3

(* A deletion that another survives, and an update that does not demote,   *)
(* leave an administrator; whatever is excused may leave none.             *)
LEMMA DeletionLeaves ==
  ASSUME IInv, NEW u \in User, NEW v \in SiteAdmins, v # u,
         users' = [users EXCEPT ![u] = NoRow]
  PROVE  SiteAdmins' # {}
<1>1. v \in User /\ users'[v] = users[v]
  BY DEF IInv, TypeOK, SiteAdmins
<1>2. v \in SiteAdmins'
  BY <1>1 DEF SiteAdmins
<1> QED BY <1>2

LEMMA UpdateLeaves ==
  ASSUME IInv, NEW u \in User, NEW seen, NEW payload \in Payload, ~ Demotes(u, payload),
         users' = [users EXCEPT ![u] = Written(users[u], seen, payload)], SiteAdmins # {}
  PROVE  SiteAdmins' # {}
<1>1. PICK v \in User : v \in SiteAdmins
  BY DEF SiteAdmins
<1>2. users \in [User -> Row] /\ users[u] \in Row
  BY DEF IInv, TypeOK
<1>3. CASE v # u
  <2>1. users'[v] = users[v]
    BY <1>2, <1>3
  <2>2. v \in SiteAdmins'
    BY <1>1, <2>1 DEF SiteAdmins
  <2> QED BY <2>2
<1>4. CASE v = u
  <2>1. payload.role \in {Keep, "ultimate_admin"}
    BY <1>1, <1>4 DEF Demotes
  <2>2. users[u].live /\ users[u].role = "ultimate_admin"
    BY <1>1, <1>4 DEF SiteAdmins
  <2> DEFINE w == Written(users[u], seen, payload)
  <2>3. w.live /\ w.role = "ultimate_admin"
    BY <1>2, <2>1, <2>2 DEF Written, Row
  <2>4. users'[u] = w
    BY <1>2
  <2>5. u \in SiteAdmins'
    BY <2>3, <2>4 DEF SiteAdmins
  <2> QED BY <2>5
<1> QED BY <1>3, <1>4

(* After a change no deletion in progress is believed any more.            *)
LEMMA AllLate ==
  ASSUME IInv, AdminInv, NEW r, r = request["delete"], Overtaken(r) # NoRequest
  PROVE  /\ r \in Request /\ Overtaken(r).op = "delete"
         /\ Overtaken(r).stage = "begun" => Overtaken(r).late
<1>1. r \in Request /\ r.op = "delete" /\ r # NoRequest
  BY OvertakenType DEF IInv, TypeOK, AdminInv
<1>2. /\ [r EXCEPT !.late = r.op = "delete"].late = (r.op = "delete")
      /\ [r EXCEPT !.late = r.op = "delete"].op = "delete"
  BY <1>1 DEF Request
<1>3. CASE r.stage = "begun"
  BY <1>1, <1>2, <1>3 DEF Overtaken
<1>4. CASE r.stage # "begun"
  BY <1>1, <1>4 DEF Overtaken
<1> QED BY <1>1, <1>3, <1>4

LEMMA UpdateStaysUpdate ==
  ASSUME IInv, AdminInv, Overtaken(request["update"]) # NoRequest
  PROVE  Overtaken(request["update"]).op # "delete"
<1> DEFINE r == request["update"]
<1>1. r \in Request /\ r.op # "delete" /\ r # NoRequest
  BY OvertakenType DEF IInv, TypeOK, AdminInv
<1>2. [r EXCEPT !.late = r.op = "delete"].op = r.op
  BY <1>1 DEF Request
<1> QED BY <1>1, <1>2 DEF Overtaken

LEMMA StepAdminInv == IInv /\ AdminInv /\ [Next]_vars => AdminInv'
<1> SUFFICES ASSUME IInv, AdminInv, [Next]_vars PROVE AdminInv'
  OBVIOUS
<1>0. /\ request \in [{"update", "delete"} -> {NoRequest} \cup Request]
      /\ users \in [User -> Row] /\ excused \in BOOLEAN
  BY DEF IInv, TypeOK
<1> DEFINE d == request["delete"]
<1>1. ASSUME UNCHANGED <<users, excused>>, NEW op \in {"update", "delete"}, NEW r,
             request' = [request EXCEPT ![op] = r],
             r # NoRequest => /\ r.op = "delete" <=> op = "delete"
                              /\ op = "delete" /\ r.stage = "begun" /\ ~ r.late =>
                                   \E v \in SiteAdmins : v # r.target
      PROVE  AdminInv'
  <2>1. /\ request'[op] = r /\ DOMAIN request' = DOMAIN request
        /\ DOMAIN request = {"update", "delete"}
        /\ \A o \in {"update", "delete"} : o # op => request'[o] = request[o]
    BY <1>0, <1>1
  <2>2. SiteAdmins' = SiteAdmins
    BY <1>1 DEF SiteAdmins
  <2> QED BY <1>1, <2>1, <2>2 DEF AdminInv
<1>2. ASSUME NEW op \in {"update", "delete"}, Begin(op) PROVE AdminInv'
  <2> DEFINE b == [request[op] EXCEPT !.stage = "begun", !.seen = users[request[op].target]]
  <2>1. request[op] \in Request /\ request' = [request EXCEPT ![op] = b]
        /\ UNCHANGED <<users, excused>>
    BY <1>0, <1>2 DEF Begin, table
  <2>2. b.op = request[op].op /\ b.target = request[op].target
    BY <2>1 DEF Request
  <2>3. op = "delete" => \E v \in SiteAdmins : v # b.target
    <3>1. op = "delete" => MayDelete(Me, request[op].target)
      BY <1>2 DEF Begin
    <3> QED BY <2>1, <2>2, <3>1, DeleterStays, UserAssumption DEF Request
  <2>4. b.op = "delete" <=> op = "delete"
    BY <1>0, <1>2, <2>2 DEF AdminInv, Begin
  <2> HIDE DEF b
  <2> QED BY <1>1, <2>1, <2>3, <2>4
<1>3. ASSUME NEW op \in {"update", "delete"}, Succeed(op) \/ Fail(op) PROVE AdminInv'
  <2>1. request' = [request EXCEPT ![op] = NoRequest] /\ UNCHANGED <<users, excused>>
    BY <1>3 DEF Succeed, Fail, table
  <2> QED BY <1>1, <2>1
<1>4. ASSUME NEW op \in {"update", "delete"}, NEW u \in User, NEW q,
             q = Request0(op, u) \/ \E p, e : q = [Request0(op, u) EXCEPT !.payload = p, !.edited = e],
             UNCHANGED <<users, excused>>, request' = [request EXCEPT ![op] = q]
      PROVE  AdminInv'
  <2> DEFINE q0 == Request0(op, u)
  <2>0. q0 \in Request /\ q0.op = op /\ q0.stage = "sent"
    BY FreshRequest DEF Request0
  <2> HIDE DEF q0
  <2>1. q.op = op /\ q.stage = "sent"
    <3>1. q = q0 \/ \E p, e : q = [q0 EXCEPT !.payload = p, !.edited = e]
      BY <1>4 DEF q0
    <3>2. ASSUME NEW p, NEW e
          PROVE  /\ [q0 EXCEPT !.payload = p, !.edited = e].op = q0.op
                 /\ [q0 EXCEPT !.payload = p, !.edited = e].stage = q0.stage
      BY <2>0 DEF Request
    <3>3. CASE q = q0
      BY <2>0, <3>3
    <3>4. CASE q # q0
      <4>1. PICK p, e : q = [q0 EXCEPT !.payload = p, !.edited = e]
        BY <3>1, <3>4
      <4>2. q.op = q0.op /\ q.stage = q0.stage
        BY <3>2, <4>1, Zenon
      <4> QED BY <2>0, <4>2
    <3> QED BY <3>3, <3>4
  <2>2. \A r : r.stage = "sent" => ~ (r.stage = "begun")
    OBVIOUS
  <2>3. op = "delete" /\ q.stage = "begun" /\ ~ q.late => \E v \in SiteAdmins : v # q.target
    BY <2>1, <2>2
  <2> QED BY <1>1, <1>4, <2>1, <2>3
<1>5. CASE HandleSave
  <2>1. CASE UNCHANGED request
    BY <1>5, <2>1 DEF HandleSave, AdminInv, SiteAdmins, table
  <2>2. CASE request' # request
    <3> DEFINE q == [Request0("update", editing.id) EXCEPT
                       !.payload = PayloadOf, !.edited = {f \in Fields : draft[f] # editing.row[f]}]
    <3>1. editing.id \in User /\ request' = [request EXCEPT ![q.op] = q] /\ q.op = "update"
          /\ UNCHANGED <<users, excused>>
      BY <1>5, <2>2 DEF HandleSave, Editable, Send, IInv, DraftInv, Request0, table
    <3>2. request' = [request EXCEPT !["update"] = q]
      BY <3>1
    <3>3. \E p, e : q = [Request0("update", editing.id) EXCEPT !.payload = p, !.edited = e]
      OBVIOUS
    <3> QED BY <1>4, <3>1, <3>2, <3>3
  <2> QED BY <2>1, <2>2
<1>6. CASE AnswerDelete
  <2>1. /\ alert \in User /\ UNCHANGED <<users, excused>>
        /\ request' = request \/ request' = [request EXCEPT !["delete"] = Request0("delete", alert)]
    BY <1>6 DEF AnswerDelete, Send, Request0, table, IInv, TypeOK, Someone
  <2>2. CASE request' = request
    BY <2>1, <2>2 DEF AdminInv, SiteAdmins
  <2>3. CASE request' = [request EXCEPT !["delete"] = Request0("delete", alert)]
    BY <1>4, <2>1, <2>3
  <2> QED BY <2>1, <2>2, <2>3
<1>7. CASE Refetch \/ OpenEdit \/ Edit \/ Dismiss \/ AskDelete \/ UNCHANGED vars
  <2>1. UNCHANGED <<users, excused, request>>
    BY <1>7 DEF Refetch, OpenEdit, Edit, Dismiss, AskDelete, vars, table
  <2> QED BY <2>1 DEF AdminInv, SiteAdmins
<1>8. ASSUME NEW op \in {"update", "delete"}, Commit(op) PROVE AdminInv'
  <2> DEFINE r == request[op]
             done == [Request0(op, Me) EXCEPT !.stage = "committed"]
  <2>1. r \in Request /\ r.target \in User /\ r.payload \in Payload /\ r.stage = "begun"
    BY <1>0, <1>8 DEF Commit, Request
  <2>2. /\ request' = [o \in {"update", "delete"} |-> IF o = op THEN done ELSE Overtaken(request[o])]
        /\ done.op = op /\ done.stage = "committed"
    BY <1>0, <1>8 DEF Commit, Request0
  <2> HIDE DEF done
  <2>3. ~ excused' => SiteAdmins' # {}
    <3> SUFFICES ASSUME ~ excused' PROVE SiteAdmins' # {}
      OBVIOUS
    <3>1. CASE op = "update"
      <4>1. /\ users' = [users EXCEPT ![r.target] = Written(users[r.target], r.seen, r.payload)]
            /\ excused' = (excused \/ Demotes(r.target, r.payload))
        BY <1>8, <3>1 DEF Commit, Change
      <4>2. ~ excused /\ ~ Demotes(r.target, r.payload)
        BY <4>1, Zenon
      <4>3. SiteAdmins # {}
        BY <4>2 DEF AdminInv
      <4> QED BY <2>1, <4>1, <4>2, <4>3, UpdateLeaves
    <3>2. CASE op = "delete"
      <4>1. users' = [users EXCEPT ![r.target] = NoRow] /\ excused' = (excused \/ r.late)
        BY <1>8, <3>2 DEF Commit, Change
      <4>2. ~ r.late
        BY <4>1, Zenon
      <4>3. r # NoRequest
        BY <1>8 DEF Commit
      <4>4. PICK v \in SiteAdmins : v # r.target
        BY <2>1, <3>2, <4>2, <4>3 DEF AdminInv
      <4> QED BY <2>1, <4>1, <4>4, DeletionLeaves
    <3> QED BY <3>1, <3>2
  <2>4. \A o \in {"update", "delete"} :
          request'[o] # NoRequest =>
            /\ request'[o].op = "delete" <=> o = "delete"
            /\ o = "delete" /\ request'[o].stage = "begun" => request'[o].late
    BY <2>2, AllLate, UpdateStaysUpdate
  <2>5. DOMAIN request' = {"update", "delete"}
    BY <2>2
  <2> QED BY <2>3, <2>4, <2>5 DEF AdminInv
<1>9. CASE ServeOther
  <2>1. request' = [o \in {"update", "delete"} |-> Overtaken(request[o])]
    BY <1>0, <1>9 DEF ServeOther
  <2>2. ~ excused' => SiteAdmins' # {}
    <3> SUFFICES ASSUME ~ excused' PROVE SiteAdmins' # {}
      OBVIOUS
    <3>1. PICK actor \in User, u \in User :
            \/ \E p \in OneField :
                 MayUpdate(actor, u, p)
                 /\ Change([users EXCEPT ![u] = Written(@, @, p)], Demotes(u, p))
            \/ MayDelete(actor, u) /\ Change([users EXCEPT ![u] = NoRow], FALSE)
            \/ users[u].live /\ Change([users EXCEPT ![u] = NoRow], u \in SiteAdmins)
      BY <1>9 DEF ServeOther
    <3>2. ASSUME NEW excuse, excused' = (excused \/ excuse) PROVE ~ excuse /\ SiteAdmins # {}
      <4>1. ~ excuse /\ ~ excused
        BY <3>2, Zenon
      <4> QED BY <4>1 DEF AdminInv
    <3>3. ASSUME NEW p \in OneField,
                 Change([users EXCEPT ![u] = Written(@, @, p)], Demotes(u, p))
          PROVE  SiteAdmins' # {}
      <4>1. p \in Payload
        BY DEF OneField, NoPayload, Payload, Someone
      <4>2. users' = [users EXCEPT ![u] = Written(users[u], users[u], p)]
        BY <3>3 DEF Change
      <4>3. ~ Demotes(u, p) /\ SiteAdmins # {}
        BY <3>2, <3>3 DEF Change
      <4> QED BY <4>1, <4>2, <4>3, UpdateLeaves
    <3>4. ASSUME MayDelete(actor, u), Change([users EXCEPT ![u] = NoRow], FALSE)
          PROVE  SiteAdmins' # {}
      BY <3>4, DeleterStays, DeletionLeaves DEF Change
    <3>5. ASSUME Change([users EXCEPT ![u] = NoRow], u \in SiteAdmins)
          PROVE  SiteAdmins' # {}
      <4>1. u \notin SiteAdmins /\ SiteAdmins # {}
        BY <3>2, <3>5 DEF Change
      <4> QED BY <3>5, <4>1, DeletionLeaves DEF Change
    <3> QED BY <3>1, <3>3, <3>4, <3>5
  <2>3. \A o \in {"update", "delete"} :
          request'[o] # NoRequest =>
            /\ request'[o].op = "delete" <=> o = "delete"
            /\ o = "delete" /\ request'[o].stage = "begun" => request'[o].late
    BY <2>1, AllLate, UpdateStaysUpdate
  <2>4. DOMAIN request' = {"update", "delete"}
    BY <2>1
  <2> QED BY <2>2, <2>3, <2>4 DEF AdminInv
<1> QED BY <1>2, <1>3, <1>5, <1>6, <1>7, <1>8, <1>9 DEF Next

(* With any number of users and administrators, the last site              *)
(* administrator goes only by the ways that nothing counts.                *)
THEOREM AnAdministratorStays == Spec => []LastSiteAdminStays
<1>1. Init => AdminInv
  <2> SUFFICES ASSUME Init PROVE AdminInv
    OBVIOUS
  <2>1. SiteAdmins # {}
    BY DEF Init
  <2>2. request = [op \in {"update", "delete"} |-> NoRequest]
    BY DEF Init
  <2> QED BY <2>1, <2>2 DEF AdminInv
<1>2. IInv /\ AdminInv /\ [Next]_vars => (IInv /\ AdminInv)'
  BY StepIInv, StepAdminInv
<1>3. AdminInv => LastSiteAdminStays
  BY DEF AdminInv, LastSiteAdminStays
<1> QED BY <1>1, <1>2, <1>3, InitIInv, PTL DEF Spec

-----------------------------------------------------------------------------
(* The list in pages: PagedList                                            *)

(* The place of a row in the order of the pages.                           *)
Upto(r) == {x \in live : place[x] >= place[r]}
Rank(r) == Cardinality(Upto(r))
Covered(got) == Len(got) * Size

(* Rows the next page will not show, and rows it will show once more.      *)
Passed(got, since) ==
  {a \in 1 .. since.inserted \ Ids(got) :
     \E r \in live : id[r] = a /\ Alone(r) /\ Rank(r) <= Covered(got)}

Late(got) ==
  {a \in Ids(got) :
     \E r \in live, x \in All(got) :
       id[r] = a /\ id[x] = a /\ Alone(r) /\ Alone(x) /\ Rank(r) > Covered(got)}

(* What is skipped and repeated, or is going to be, is paid for by the     *)
(* removals and the insertions since the first page.                       *)
Missing(got, since) == Skipped(got, since) \cup Passed(got, since)
Double(got) == Repeated(got) \cup Late(got)

Drift(got, since) ==
  /\ Cardinality(Missing(got, since)) <= Removed - since.removed
  /\ Cardinality(Double(got)) <= Inserted - since.inserted

(* A page on its way is one more than was got; a list has a first fetch.   *)
FetchInv ==
  /\ OnItsWay => fetch.kind # "none" /\ fetch.sent # <<>>
  /\ pages = <<>> => fetch.kind = "reload"

DriftInv ==
  /\ Drift(pages, base)
  /\ Drift(fetch.got, fetch.since) /\ Drift(fetch.sent, fetch.since)

(* Pages of a table that stayed as it was are its first rows.              *)
AllAlone == \A r \in 1 .. Inserted : Alone(r)
Top(k) == {r \in live : Rank(r) <= k}

Exact(got, since) ==
  since = Count /\ AllAlone =>
    /\ All(got) = Top(Covered(got))
    /\ Len(got) = 1 => All(got) \in First(Size)
    /\ got # <<>> /\ Cardinality(got[Len(got)]) # Size => All(got) = live

EndInv ==
  /\ Exact(pages, base)
  /\ Exact(fetch.got, fetch.since) /\ Exact(fetch.sent, fetch.since)
  /\ ~ screen.more =>
       Len(pages) <= 1 /\ fetch.kind # "next" /\ fetch.got = <<>> /\ Len(fetch.sent) <= 1

(* A list, or one on its way, began after the last own change was told.    *)
Sum(since) == since.inserted + since.removed

OwnInv ==
  /\ fetch.kind = "none" /\ ~ missed => Sum(base) >= told
  /\ fetch.kind = "reload" /\ ~ missed /\ fetch.sent # <<>> => Sum(fetch.since) >= told
  /\ fetch.kind = "next" => fetch.got # <<>> /\ (~ missed => Sum(fetch.since) >= told)

(* A set of numbers has a least one.                                       *)
LEMMA LeastNumber ==
  ASSUME NEW T \in SUBSET Nat, T # {}
  PROVE  \E n \in T : \A m \in T : n <= m
<1>1. PICK n \in T : \A m \in T : ~ (<<m, n>> \in OpToRel(<, Nat))
  BY NatLessThanWellFounded, WFMin
<1>2. \A m \in T : <<m, n>> \in OpToRel(<, Nat) <=> m < n
  BY DEF OpToRel
<1>3. \A m \in T : m \in Nat /\ n \in Nat /\ ~ (m < n)
  BY <1>1, <1>2
<1>4. \A m \in T : n <= m
  BY <1>3
<1> QED
  BY <1>4

LEMMA ElementOf ==
  ASSUME NEW S, NEW s \in Seq(S)
  PROVE  Len(s) \in Nat /\ \A i \in 1 .. Len(s) : s[i] \in S
OBVIOUS

LEMMA PlaceType ==
  ASSUME ListTypeOK
  PROVE  /\ Inserted \in Nat /\ Len(place) = Inserted /\ Len(id) = Inserted
         /\ live \subseteq 1 .. Inserted
         /\ \A i \in 1 .. Inserted : place[i] \in 1 .. Places /\ place[i] \in Nat \ {0}
<1>1. Inserted \in Nat /\ Len(place) = Inserted
  BY DEF ListTypeOK, Inserted
<1>2. \A i \in 1 .. Inserted : place[i] \in 1 .. Places
  <2>1. place \in Seq(1 .. Places)
    BY DEF ListTypeOK
  <2>2. \A i \in 1 .. Len(place) : place[i] \in 1 .. Places
    BY <2>1, ElementOf, Zenon
  <2> QED
    BY <1>1, <2>2
<1> QED
  BY <1>1, <1>2, BoundsAssumption DEF ListTypeOK

LEMMA LiveFinite ==
  ASSUME ListTypeOK
  PROVE  /\ IsFiniteSet(live) /\ Cardinality(live) \in Nat
         /\ \A S \in SUBSET live : IsFiniteSet(S) /\ Cardinality(S) \in Nat
         /\ \A S, T \in SUBSET live : S \subseteq T => Cardinality(S) <= Cardinality(T)
<1>1. Len(place) \in Nat
  BY DEF ListTypeOK
<1>2. IsFiniteSet(1 .. Len(place))
  BY <1>1, FS_Interval
<1>3. IsFiniteSet(live)
  BY <1>2, FS_Subset DEF ListTypeOK, Inserted
<1> QED
  BY <1>3, FS_Subset, FS_CardinalityType

(* The CHOOSE of PlaceOf finds one.                                        *)
LEMMA PlaceFound ==
  ASSUME ListTypeOK, NEW k \in Nat
  PROVE  /\ PlaceOf(k) \in 0 .. Places
         /\ Cardinality(Before(PlaceOf(k))) <= k
         /\ PlaceOf(k) = 0 \/ Cardinality(Before(PlaceOf(k) - 1)) > k
<1> DEFINE T == {t \in 0 .. Places : Cardinality(Before(t)) <= k}
<1>1. Places \in Nat
  BY BoundsAssumption
<1>2. Before(Places) = {}
  <2>1. \A r \in live : place[r] \in 1 .. Places
    BY PlaceType
  <2> QED
    BY <1>1, <2>1 DEF Before
<1>3. Places \in T
  BY <1>1, <1>2, FS_EmptySet
<1>4. PICK t \in T : \A u \in T : t <= u
  <2>1. T \in SUBSET Nat /\ T # {}
    BY <1>1, <1>3
  <2> HIDE DEF T
  <2> QED
    BY <2>1, LeastNumber
<1>5. t = 0 \/ Cardinality(Before(t - 1)) > k
  <2>1. CASE t # 0
    <3>1. t - 1 \in 0 .. Places /\ t - 1 \notin T
      BY <1>1, <1>4, <2>1
    <3>2. Cardinality(Before(t - 1)) \in Nat
      BY LiveFinite DEF Before
    <3> QED
      BY <3>1, <3>2
  <2> QED
    BY <2>1
<1>6. \E u \in 0 .. Places :
        Cardinality(Before(u)) <= k /\ (u = 0 \/ Cardinality(Before(u - 1)) > k)
  BY <1>4, <1>5
<1> QED
  BY <1>6, Zenon DEF PlaceOf

LEMMA FirstForm ==
  ASSUME ListTypeOK, NEW k \in Nat, NEW B \in First(k)
  PROVE  /\ B \subseteq live
         /\ k >= Cardinality(live) => B = live
         /\ k < Cardinality(live) =>
              \E x \in SUBSET Of(PlaceOf(k)) :
                /\ B = Before(PlaceOf(k)) \cup x
                /\ Cardinality(x) = k - Cardinality(Before(PlaceOf(k)))
         /\ k < Cardinality(live) => Cardinality(B) = k
<1> DEFINE t == PlaceOf(k)
<1>1. Cardinality(live) \in Nat
  BY LiveFinite
<1>2. CASE k >= Cardinality(live)
  BY <1>1, <1>2 DEF First
<1>3. CASE k < Cardinality(live)
  <2>1. B \in {Before(t) \cup x : x \in kSubset(k - Cardinality(Before(t)), Of(t))}
    BY <1>1, <1>3 DEF First
  <2>2. PICK x \in kSubset(k - Cardinality(Before(t)), Of(t)) : B = Before(t) \cup x
    BY <2>1
  <2>3. x \in SUBSET Of(t) /\ Cardinality(x) = k - Cardinality(Before(t))
    BY <2>2 DEF kSubset
  <2>4. Before(t) \subseteq live /\ x \subseteq live
    BY <2>3 DEF Before, Of
  <2>5. Before(t) \cap x = {}
    <3>1. t \in Nat
      BY PlaceFound, BoundsAssumption
    <3>2. \A y \in Of(t) : y \notin Before(t)
      BY <3>1 DEF Before, Of
    <3> QED
      BY <2>3, <3>2
  <2>6. Cardinality(Before(t) \cup x) = Cardinality(Before(t)) + Cardinality(x)
    <3>1. IsFiniteSet(Before(t)) /\ IsFiniteSet(x)
      BY <2>4, LiveFinite
    <3>2. Cardinality(Before(t) \cap x) = 0
      BY <2>5, FS_EmptySet
    <3>3. Cardinality(Before(t)) \in Nat /\ Cardinality(x) \in Nat
      BY <2>4, LiveFinite
    <3>4. Cardinality(Before(t) \cup x) = Cardinality(Before(t)) + Cardinality(x) - 0
      BY <3>1, <3>2, FS_Union
    <3> QED
      BY <3>3, <3>4
  <2>7. Cardinality(Before(t)) \in Nat /\ Cardinality(x) \in Nat
    BY <2>4, LiveFinite
  <2>8. Cardinality(B) = k
    BY <2>2, <2>3, <2>6, <2>7
  <2> QED
    BY <1>1, <1>3, <2>2, <2>3, <2>4, <2>8
<1> QED
  BY <1>1, <1>2, <1>3

LEMMA RankType ==
  ASSUME ListTypeOK, NEW r \in live
  PROVE  /\ Upto(r) \subseteq live /\ r \in Upto(r)
         /\ Rank(r) \in Nat \ {0} /\ Rank(r) <= Cardinality(live)
<1>1. Upto(r) \subseteq live /\ r \in Upto(r)
  BY PlaceType DEF Upto
<1>2. IsFiniteSet(Upto(r)) /\ Cardinality(Upto(r)) \in Nat /\ Cardinality(Upto(r)) <= Cardinality(live)
  BY <1>1, LiveFinite
<1>3. Cardinality(Upto(r)) # 0
  BY <1>1, <1>2, FS_EmptySet
<1> QED
  BY <1>1, <1>2, <1>3 DEF Rank

(* Of the rows that tie with no other, the first k are those with a place  *)
(* up to k.                                                                *)
LEMMA FirstRank ==
  ASSUME ListTypeOK, NEW k \in Nat, NEW B \in First(k), NEW r \in live, Alone(r)
  PROVE  r \in B <=> Rank(r) <= k
<1> DEFINE t == PlaceOf(k)
<1>1. /\ Upto(r) \subseteq live /\ r \in Upto(r) /\ Rank(r) \in Nat
      /\ Rank(r) <= Cardinality(live) /\ Cardinality(live) \in Nat
  BY RankType, LiveFinite
<1>2. CASE k >= Cardinality(live)
  BY <1>1, <1>2, FirstForm
<1>3. CASE k < Cardinality(live)
  <2>1. PICK x \in SUBSET Of(t) : /\ B = Before(t) \cup x
                                  /\ Cardinality(x) = k - Cardinality(Before(t))
    BY <1>3, FirstForm
  <2>2. B \subseteq live /\ Cardinality(B) = k
    BY <1>3, FirstForm
  <2>3. /\ t \in 0 .. Places /\ Cardinality(Before(t)) <= k
        /\ t = 0 \/ Cardinality(Before(t - 1)) > k
    BY PlaceFound
  <2>4. t \in Nat /\ place[r] \in Nat \ {0} /\ \A y \in live : place[y] \in Nat
    BY <2>3, PlaceType, BoundsAssumption
  <2>5. Before(t) \subseteq live /\ Before(t - 1) \subseteq live
    BY DEF Before
  <2>6. \A y \in live : place[y] = place[r] => y = r
    BY DEF Alone, ListTypeOK
  <2>7. ASSUME r \in B  PROVE Rank(r) <= k
    <3>1. Upto(r) \subseteq B
      <4> SUFFICES ASSUME NEW y \in Upto(r)  PROVE y \in B
        OBVIOUS
      <4>1. CASE place[r] > t
        BY <2>1, <2>4, <4>1 DEF Upto, Before
      <4>2. CASE place[r] = t
        BY <2>1, <2>4, <2>6, <2>7, <4>2 DEF Upto, Before
      <4>3. place[r] >= t
        BY <2>1, <2>4, <2>7 DEF Before, Of
      <4> QED
        BY <2>4, <4>1, <4>2, <4>3
    <3> QED
      BY <2>2, <3>1, LiveFinite DEF Rank
  <2>8. ASSUME Rank(r) <= k  PROVE r \in B
    <3>1. CASE place[r] > t
      BY <2>1, <3>1 DEF Before
    <3>2. CASE place[r] = t
      <4>1. Upto(r) = Before(t) \cup {r}
        BY <2>4, <2>6, <3>2 DEF Upto, Before
      <4>2. r \notin Before(t)
        BY <2>4, <3>2 DEF Before
      <4>3. IsFiniteSet(Before(t)) /\ Cardinality(Before(t)) \in Nat
        BY <2>5, LiveFinite
      <4>4. Rank(r) = Cardinality(Before(t)) + 1
        BY <4>1, <4>2, <4>3, FS_AddElement DEF Rank
      <4>5. Cardinality(x) # 0
        BY <1>1, <2>1, <2>8, <4>3, <4>4
      <4>6. x # {}
        BY <4>5, FS_EmptySet
      <4> QED
        BY <2>1, <2>6, <3>2, <4>6 DEF Of
    <3>3. CASE place[r] < t
      <4>1. Before(t - 1) \subseteq Upto(r)
        BY <2>4, <3>3 DEF Before, Upto
      <4>2. Cardinality(Before(t - 1)) <= Rank(r)
        BY <1>1, <2>5, <4>1, LiveFinite DEF Rank
      <4>3. Cardinality(Before(t - 1)) > k /\ Cardinality(Before(t - 1)) \in Nat
        BY <2>3, <2>4, <2>5, <3>3, LiveFinite
      <4> QED
        BY <1>1, <2>8, <4>2, <4>3
    <3> QED
      BY <2>4, <3>1, <3>2, <3>3
  <2> QED
    BY <2>7, <2>8
<1> QED
  BY <1>1, <1>2, <1>3

LEMMA FirstClosed ==
  ASSUME ListTypeOK, NEW k \in Nat, NEW B \in First(k), NEW x \in B, NEW r \in live,
         place[r] > place[x]
  PROVE  r \in B
<1>1. Cardinality(live) \in Nat /\ B \subseteq live
  BY LiveFinite, FirstForm
<1>2. CASE k >= Cardinality(live)
  BY <1>2, FirstForm
<1>3. CASE k < Cardinality(live)
  <2>1. B \subseteq Before(PlaceOf(k)) \cup Of(PlaceOf(k)) /\ Before(PlaceOf(k)) \subseteq B
    BY <1>3, FirstForm
  <2>2. PlaceOf(k) \in Nat /\ place[r] \in Nat /\ place[x] \in Nat
    <3>1. PlaceOf(k) \in Nat
      BY PlaceFound, BoundsAssumption
    <3>2. \A y \in live : place[y] \in Nat
      BY PlaceType
    <3> QED
      BY <1>1, <3>1, <3>2
  <2> QED
    BY <2>1, <2>2 DEF Before, Of
<1> QED
  BY <1>1, <1>2, <1>3

(* A row that ties with no other shares its rank with none.                *)
LEMMA RankUnique ==
  ASSUME ListTypeOK, NEW r \in live, NEW x \in live, Alone(r), Rank(r) = Rank(x)
  PROVE  r = x
<1> SUFFICES ASSUME r # x  PROVE FALSE
  OBVIOUS
<1>1. place[r] # place[x] /\ place[r] \in Nat /\ \A y \in live : place[y] \in Nat
  BY PlaceType DEF Alone, ListTypeOK
<1>2. /\ Upto(r) \subseteq live /\ Upto(x) \subseteq live
      /\ IsFiniteSet(Upto(r)) /\ IsFiniteSet(Upto(x))
  BY RankType, LiveFinite
<1>3. Upto(r) \subseteq Upto(x) \/ Upto(x) \subseteq Upto(r)
  BY <1>1 DEF Upto
<1>4. Upto(r) = Upto(x)
  BY <1>2, <1>3, FS_Subset DEF Rank
<1>5. r \in Upto(r) /\ x \in Upto(x)
  BY RankType
<1> QED
  BY <1>1, <1>4, <1>5 DEF Upto

LEMMA AllOfSome ==
  ASSUME ListTypeOK, NEW got \in Pages
  PROVE  /\ Len(got) \in Nat /\ DOMAIN got = 1 .. Len(got)
         /\ Covered(got) \in Nat
         /\ All(got) \subseteq 1 .. Inserted
         /\ \A i \in 1 .. Len(got) : got[i] \subseteq All(got)
         /\ \A r \in All(got) : \E i \in 1 .. Len(got) : r \in got[i]
<1>1. Len(got) \in Nat /\ DOMAIN got = 1 .. Len(got)
      /\ \A i \in 1 .. Len(got) : got[i] \subseteq 1 .. Inserted
  BY DEF Pages
<1>2. Covered(got) \in Nat
  BY <1>1, SizeAssumption DEF Covered
<1> QED
  BY <1>1, <1>2 DEF All

LEMMA AllOfNone ==
  /\ All(<<>>) = {} /\ Covered(<<>>) = 0 /\ Ids(<<>>) = {}
  /\ Repeated(<<>>) = {} /\ Late(<<>>) = {}
  /\ <<>> \in Pages
<1>1. All(<<>>) = {}
  BY DEF All
<1>2. Covered(<<>>) = 0
  BY SizeAssumption DEF Covered
<1>3. Ids(<<>>) = {}
  BY <1>1 DEF Ids
<1> QED
  BY <1>1, <1>2, <1>3 DEF Repeated, Late, Pages

LEMMA AppendPage ==
  ASSUME ListTypeOK, NEW got \in Pages, NEW p \in SUBSET (1 .. Inserted)
  PROVE  /\ Append(got, p) \in Pages
         /\ Append(got, p) # <<>>
         /\ Len(Append(got, p)) = Len(got) + 1
         /\ Append(got, p)[Len(got) + 1] = p
         /\ \A i \in 1 .. Len(got) : Append(got, p)[i] = got[i]
         /\ All(Append(got, p)) = All(got) \cup p
         /\ Covered(Append(got, p)) = Covered(got) + Size
<1> DEFINE new == Append(got, p)
<1>1. new \in Pages /\ Len(new) = Len(got) + 1 /\ Len(got) \in Nat
      /\ new[Len(got) + 1] = p /\ \A i \in 1 .. Len(got) : new[i] = got[i]
  BY DEF Pages
<1>2. DOMAIN new = 1 .. Len(got) + 1 /\ DOMAIN got = 1 .. Len(got)
  BY <1>1 DEF Pages
<1>3. All(new) = All(got) \cup p
  <2>1. 1 .. Len(got) + 1 = (1 .. Len(got)) \cup {Len(got) + 1}
    BY <1>1
  <2> HIDE DEF new
  <2>2. \A r : r \in All(new) <=> \E i \in (1 .. Len(got)) \cup {Len(got) + 1} : r \in new[i]
    BY <1>2, <2>1 DEF All
  <2>3. \A r : r \in All(got) <=> \E i \in 1 .. Len(got) : r \in got[i]
    BY <1>2 DEF All
  <2> QED
    BY <1>1, <2>2, <2>3
<1>4. Covered(new) = Covered(got) + Size
  BY <1>1, SizeAssumption DEF Covered
<1>5. new # <<>>
  BY <1>1
<1> QED
  BY <1>1, <1>3, <1>4, <1>5

LEMMA FindForm ==
  ASSUME ListTypeOK, NEW got \in Pages, NEW p \in Find(NextParam(got))
  PROVE  /\ \E a \in First(Covered(got)), b \in First(Covered(got) + Size) :
              a \subseteq b /\ p = b \ a
         /\ p \in SUBSET live /\ p \in SUBSET (1 .. Inserted)
<1> DEFINE A == First(Covered(got))
           B == First(Covered(got) + Size)
<1>1. Covered(got) \in Nat /\ Covered(got) + Size \in Nat
  BY AllOfSome, SizeAssumption
<1>2. /\ (NextParam(got) - 1) * Size = Covered(got)
      /\ NextParam(got) * Size = Covered(got) + Size
  <2>1. Len(got) \in Nat
    BY AllOfSome
  <2> QED
    BY <2>1, SizeAssumption DEF NextParam, Covered
<1>3. PICK ab \in A \X B : ab[1] \subseteq ab[2] /\ p = ab[2] \ ab[1]
  BY <1>2 DEF Find
<1>4. ab[1] \in A /\ ab[2] \in B
  BY <1>3
<1>5. ab[2] \subseteq live
  BY <1>1, <1>4, FirstForm
<1> QED
  BY <1>3, <1>4, <1>5 DEF ListTypeOK

(* The counts of what is skipped and repeated are of finite sets.          *)
LEMMA DriftSets ==
  ASSUME ListTypeOK, NEW got \in Pages, NEW since \in Counted
  PROVE  /\ Missing(got, since) \in SUBSET (1 .. Inserted)
         /\ Double(got) \in SUBSET (1 .. Inserted)
         /\ Ids(got) \in SUBSET (1 .. Inserted)
         /\ \A S \in SUBSET (1 .. Inserted) : IsFiniteSet(S) /\ Cardinality(S) \in Nat
         /\ \A S, T \in SUBSET (1 .. Inserted) :
              S \subseteq T => Cardinality(S) <= Cardinality(T)
         /\ Inserted \in Nat /\ Removed \in Nat
         /\ since.inserted \in 0 .. Inserted /\ since.removed \in 0 .. Removed
<1>1. Inserted \in Nat
  BY PlaceType
<1>2. IsFiniteSet(1 .. Inserted) /\ Cardinality(1 .. Inserted) = Inserted
  BY <1>1, FS_Interval
<1>3. \A S \in SUBSET (1 .. Inserted) : IsFiniteSet(S) /\ Cardinality(S) \in Nat
  BY <1>2, FS_Subset, FS_CardinalityType
<1>4. Removed \in Nat
  <2>1. Cardinality(live) <= Inserted /\ Cardinality(live) \in Nat
    BY <1>2, <1>3, FS_Subset, PlaceType
  <2> QED
    BY <1>1, <2>1 DEF Removed, Inserted
<1>5. Ids(got) \subseteq 1 .. Inserted
  <2>1. \A r \in All(got) : r \in 1 .. Inserted
    BY AllOfSome
  <2>2. \A i \in 1 .. Inserted : id[i] \in 1 .. Inserted
    BY <1>1 DEF ListTypeOK
  <2> QED
    BY <2>1, <2>2 DEF Ids
<1>6. \A S, T \in SUBSET (1 .. Inserted) :
        S \subseteq T => Cardinality(S) <= Cardinality(T)
  BY <1>3, FS_Subset
<1>7. since.inserted \in 0 .. Inserted /\ since.removed \in 0 .. Removed
  BY DEF Counted
<1>8. 1 .. since.inserted \subseteq 1 .. Inserted
  BY <1>1, <1>7
<1>9. Missing(got, since) \in SUBSET (1 .. Inserted)
  BY <1>8 DEF Missing, Skipped, Passed
<1>10. Double(got) \in SUBSET (1 .. Inserted)
  BY <1>5 DEF Double, Repeated, Late
<1> QED
  BY <1>1, <1>3, <1>4, <1>5, <1>6, <1>7, <1>9, <1>10

(* Nothing is skipped or repeated by what is not there yet.                *)
LEMMA DriftOfNone ==
  ASSUME ListTypeOK, NEW since \in Counted
  PROVE  Drift(<<>>, since)
<1>1. <<>> \in Pages /\ All(<<>>) = {} /\ Covered(<<>>) = 0
  BY AllOfNone
<1>2. Passed(<<>>, since) = {}
  <2>1. \A x \in live : Rank(x) \in Nat \ {0}
    BY RankType
  <2> QED
    BY <1>1, <2>1 DEF Passed
<1>3. Skipped(<<>>, since) = {} /\ Repeated(<<>>) = {} /\ Late(<<>>) = {}
  BY <1>1, AllOfNone DEF Skipped
<1>4. /\ Cardinality(Missing(<<>>, since)) = 0
      /\ Cardinality(Double(<<>>)) = 0
  <2>1. {} \cup {} = {} /\ Cardinality({}) = 0
    BY FS_EmptySet
  <2> QED
    BY <1>2, <1>3, <2>1 DEF Missing, Double
<1>5. /\ Inserted \in Nat /\ Removed \in Nat
      /\ since.inserted \in 0 .. Inserted /\ since.removed \in 0 .. Removed
  BY <1>1, DriftSets
<1> QED
  BY <1>4, <1>5 DEF Drift

(* A page passes over and repeats only rows already counted.               *)
LEMMA DriftOfMore ==
  ASSUME ListTypeOK, NEW got \in Pages, NEW since \in Counted, Drift(got, since),
         NEW p \in Find(NextParam(got))
  PROVE  Drift(Append(got, p), since)
<1> DEFINE new == Append(got, p)
<1>1. PICK a \in First(Covered(got)), b \in First(Covered(got) + Size) :
        a \subseteq b /\ p = b \ a
  BY FindForm
<1>2. p \in SUBSET live /\ p \in SUBSET (1 .. Inserted)
  BY FindForm
<1>3. /\ new \in Pages /\ All(new) = All(got) \cup p
      /\ Covered(new) = Covered(got) + Size /\ Len(new) = Len(got) + 1
      /\ new[Len(got) + 1] = p /\ \A i \in 1 .. Len(got) : new[i] = got[i]
  BY <1>2, AppendPage
<1>4. Covered(got) \in Nat /\ Covered(got) + Size \in Nat /\ Len(got) \in Nat
  BY AllOfSome, SizeAssumption
<1>5. \A r \in live : Alone(r) =>
        /\ r \in a <=> Rank(r) <= Covered(got)
        /\ r \in b <=> Rank(r) <= Covered(new)
  BY <1>1, <1>3, <1>4, FirstRank
<1>6. \A r \in live : Rank(r) \in Nat
  BY RankType
<1> HIDE DEF new
<1>7. Ids(got) \subseteq Ids(new) /\ \A r \in p : id[r] \in Ids(new)
  BY <1>3 DEF Ids
<1>8. Skipped(new, since) \subseteq Missing(got, since)
  <2> SUFFICES ASSUME NEW k \in Skipped(new, since)
               PROVE  k \in Missing(got, since)
    OBVIOUS
  <2>1. PICK r \in live : id[r] = k /\ Alone(r) /\ \E x \in All(new) : place[x] < place[r]
    BY DEF Skipped
  <2>2. k \in 1 .. since.inserted \ Ids(got) /\ r \notin p
    BY <1>7, <2>1 DEF Skipped
  <2>3. PICK x \in All(got) \cup p : place[x] < place[r]
    BY <1>3, <2>1
  <2>4. CASE x \in All(got)
    BY <2>1, <2>2, <2>3, <2>4 DEF Skipped, Missing
  <2>5. CASE x \in p
    <3>1. place[r] > place[x] /\ x \in b
      BY <1>1, <1>2, <2>1, <2>3, <2>5, PlaceType
    <3>2. r \in b
      BY <1>4, <2>1, <3>1, FirstClosed
    <3>3. r \in a
      BY <1>1, <2>2, <3>2
    <3> QED
      BY <1>5, <2>1, <2>2, <3>3 DEF Passed, Missing
  <2> QED
    BY <2>3, <2>4, <2>5
<1>9. Passed(new, since) \subseteq Missing(got, since)
  <2> SUFFICES ASSUME NEW k \in Passed(new, since)
               PROVE  k \in Missing(got, since)
    OBVIOUS
  <2>1. PICK r \in live : id[r] = k /\ Alone(r) /\ Rank(r) <= Covered(new)
    BY DEF Passed
  <2>2. k \in 1 .. since.inserted \ Ids(got) /\ r \notin p
    BY <1>7, <2>1 DEF Passed
  <2>3. r \in a
    BY <1>1, <1>5, <2>1, <2>2
  <2> QED
    BY <1>5, <2>1, <2>2, <2>3 DEF Passed, Missing
<1>10. Repeated(new) \subseteq Double(got)
  <2> SUFFICES ASSUME NEW k \in Repeated(new)
               PROVE  k \in Double(got)
    OBVIOUS
  <2>1. DOMAIN new = 1 .. Len(got) + 1 /\ DOMAIN got = 1 .. Len(got)
    BY <1>3, AllOfSome
  <2>2. PICK i \in 1 .. Len(got) + 1, j \in 1 .. Len(got) + 1 :
          i < j /\ \E r \in new[i], x \in new[j] :
                     id[r] = k /\ id[x] = k /\ Alone(r) /\ Alone(x)
    BY <2>1 DEF Repeated
  <2>3. i \in 1 .. Len(got) /\ new[i] = got[i]
    BY <1>3, <1>4, <2>2
  <2>4. PICK r \in got[i], x \in new[j] :
          id[r] = k /\ id[x] = k /\ Alone(r) /\ Alone(x)
    BY <2>2, <2>3
  <2>5. r \in All(got) /\ k \in Ids(got)
    <3>1. r \in All(got)
      BY <2>3, <2>4, AllOfSome
    <3> QED
      BY <2>4, <3>1 DEF Ids
  <2>6. CASE j \in 1 .. Len(got)
    BY <1>3, <2>1, <2>2, <2>3, <2>4, <2>5, <2>6 DEF Repeated, Double
  <2>7. CASE j = Len(got) + 1
    <3>1. x \in p
      BY <1>3, <2>4, <2>7
    <3>2. x \in live /\ x \notin a
      BY <1>1, <1>2, <3>1
    <3> QED
      BY <1>4, <1>5, <1>6, <2>4, <2>5, <3>2 DEF Late, Double
  <2> QED
    BY <1>4, <2>2, <2>6, <2>7
<1>11. Late(new) \subseteq Double(got)
  <2> SUFFICES ASSUME NEW k \in Late(new)
               PROVE  k \in Double(got)
    OBVIOUS
  <2>1. PICK r \in live, x \in All(new) :
          id[r] = k /\ id[x] = k /\ Alone(r) /\ Alone(x) /\ Rank(r) > Covered(new)
    BY DEF Late
  <2>2. r \notin b
    BY <1>3, <1>4, <1>5, <1>6, <2>1
  <2>3. Rank(r) > Covered(got)
    BY <1>3, <1>4, <1>6, <2>1, SizeAssumption
  <2>4. x \in All(got)
    <3> SUFFICES ASSUME x \in p  PROVE FALSE
      BY <1>3, <2>1
    <3>1. x = r
      BY <1>2, <2>1 DEF ListTypeOK
    <3> QED
      BY <1>1, <2>2, <3>1
  <2> QED
    BY <2>1, <2>3, <2>4 DEF Late, Double, Ids
<1>12. /\ Cardinality(Missing(new, since)) <= Cardinality(Missing(got, since))
       /\ Cardinality(Double(new)) <= Cardinality(Double(got))
  <2>1. /\ Missing(got, since) \in SUBSET (1 .. Inserted)
        /\ Double(got) \in SUBSET (1 .. Inserted)
        /\ Missing(new, since) \in SUBSET (1 .. Inserted)
        /\ Double(new) \in SUBSET (1 .. Inserted)
    BY <1>3, DriftSets
  <2>2. \A S, T \in SUBSET (1 .. Inserted) :
          S \subseteq T => Cardinality(S) <= Cardinality(T)
    BY DriftSets
  <2>3. Missing(new, since) \subseteq Missing(got, since)
    BY <1>8, <1>9 DEF Missing
  <2>4. Double(new) \subseteq Double(got)
    BY <1>10, <1>11 DEF Double
  <2> QED
    BY <2>1, <2>2, <2>3, <2>4
<1>13. /\ Cardinality(Missing(new, since)) \in Nat
       /\ Cardinality(Missing(got, since)) \in Nat
       /\ Cardinality(Double(new)) \in Nat
       /\ Cardinality(Double(got)) \in Nat
       /\ Inserted \in Nat /\ Removed \in Nat
       /\ since.inserted \in Nat /\ since.removed \in Nat
  BY <1>3, DriftSets
<1>14. Drift(new, since)
  BY <1>12, <1>13 DEF Drift
<1> QED
  BY <1>14 DEF new

(***************************************************************************)
(* The types, and what a change of the table counts.                       *)
(***************************************************************************)

LEMMA InsertCounts ==
  ASSUME ListTypeOK, Insert
  PROVE  /\ Inserted \in Nat /\ Removed \in Nat
         /\ Inserted' = Inserted + 1 /\ Removed' = Removed
         /\ live' = live \cup {Inserted + 1} /\ Inserted + 1 \notin live
         /\ place' \in Seq(1 .. Places) /\ id' \in Seq(Nat) /\ Len(id') = Inserted'
         /\ \A i \in 1 .. Inserted : place'[i] = place[i] /\ id'[i] = id[i]
         /\ id'[Inserted + 1] = Inserted + 1
<1>1. /\ Inserted \in Nat /\ Len(place) = Inserted /\ Len(id) = Inserted
      /\ place \in Seq(1 .. Places) /\ id \in Seq(Nat) /\ Inserted + 1 \in Nat
  BY PlaceType DEF ListTypeOK
<1>2. PICK k \in 1 .. Places : place' = Append(place, k)
  BY DEF Insert
<1>3. /\ place' \in Seq(1 .. Places) /\ Len(place') = Inserted + 1
      /\ \A i \in 1 .. Inserted : place'[i] = place[i]
  <2> DEFINE new == Append(place, k)
  <2>1. /\ new \in Seq(1 .. Places) /\ Len(new) = Len(place) + 1
        /\ \A i \in 1 .. Len(place) : new[i] = place[i]
    <3>1. place \in Seq(1 .. Places) /\ k \in 1 .. Places
      BY <1>1, <1>2
    <3> QED
      BY <3>1
  <2> HIDE DEF new
  <2>2. place' = new
    BY <1>2 DEF new
  <2> QED
    BY <1>1, <2>1, <2>2
<1>4. id' = Append(id, Inserted + 1)
  BY DEF Insert
<1>5. /\ id' \in Seq(Nat) /\ Len(id') = Inserted + 1
      /\ id'[Inserted + 1] = Inserted + 1
      /\ \A i \in 1 .. Inserted : id'[i] = id[i]
  <2> DEFINE new == Append(id, Inserted + 1)
  <2>1. /\ new \in Seq(Nat) /\ Len(new) = Len(id) + 1 /\ new[Len(id) + 1] = Inserted + 1
        /\ \A i \in 1 .. Len(id) : new[i] = id[i]
    <3>1. id \in Seq(Nat) /\ Inserted + 1 \in Nat
      BY <1>1
    <3> QED
      BY <3>1
  <2> HIDE DEF new
  <2>2. id' = new
    BY <1>4 DEF new
  <2> QED
    BY <1>1, <2>1, <2>2
<1>6. live' = live \cup {Inserted + 1} /\ Inserted + 1 \notin live
  BY <1>1, PlaceType DEF Insert
<1>7. IsFiniteSet(live) /\ Cardinality(live) \in Nat /\ Removed \in Nat
  <2>1. Removed \in Nat
    BY AllOfNone, DriftSets DEF ListTypeOK
  <2> QED
    BY <2>1, LiveFinite
<1>8. Cardinality(live') = Cardinality(live) + 1
  BY <1>6, <1>7, FS_AddElement
<1>9. Inserted' = Inserted + 1 /\ Removed' = Removed
  <2>1. Removed = Len(place) - Cardinality(live) /\ Removed' = Len(place') - Cardinality(live')
    BY DEF Removed
  <2>2. Inserted' = Len(place')
    BY DEF Inserted
  <2> QED
    BY <1>1, <1>3, <1>7, <1>8, <2>1, <2>2
<1> QED
  BY <1>1, <1>3, <1>5, <1>6, <1>7, <1>9

LEMMA RemoveCounts ==
  ASSUME ListTypeOK, Remove
  PROVE  /\ Inserted \in Nat /\ Removed \in Nat
         /\ Inserted' = Inserted /\ Removed' = Removed + 1
         /\ place' = place /\ id' = id
         /\ \E r \in live : live' = live \ {r}
<1>1. Inserted \in Nat /\ Inserted' = Inserted /\ Removed \in Nat
  <2>1. Removed \in Nat
    BY AllOfNone, DriftSets DEF ListTypeOK
  <2> QED
    BY <2>1, PlaceType DEF Inserted, Remove
<1>2. PICK r \in live : live' = live \ {r}
  BY DEF Remove
<1>3. IsFiniteSet(live) /\ Cardinality(live) \in Nat
  BY LiveFinite
<1>4. Cardinality(live') = Cardinality(live) - 1
  BY <1>2, <1>3, FS_RemoveElement
<1>5. place' = place /\ id' = id
  BY DEF Remove
<1>6. Removed' = Removed + 1
  BY <1>1, <1>3, <1>4, <1>5 DEF Removed, Inserted
<1> QED
  BY <1>1, <1>2, <1>5, <1>6

LEMMA MoveCounts ==
  ASSUME ListTypeOK, Move
  PROVE  /\ Inserted \in Nat /\ Removed \in Nat
         /\ Inserted' = Inserted + 1 /\ Removed' = Removed + 1
         /\ Inserted + 1 \notin live
         /\ place' \in Seq(1 .. Places) /\ id' \in Seq(Nat) /\ Len(id') = Inserted'
         /\ \A i \in 1 .. Inserted : place'[i] = place[i] /\ id'[i] = id[i]
         /\ \E w \in live : /\ live' = (live \ {w}) \cup {Inserted + 1}
                            /\ id'[Inserted + 1] = id[w]
<1>1. /\ Inserted \in Nat /\ Len(place) = Inserted /\ Len(id) = Inserted
      /\ place \in Seq(1 .. Places) /\ id \in Seq(Nat) /\ live \subseteq 1 .. Inserted
  BY PlaceType DEF ListTypeOK
<1>2. PICK w \in live :
        /\ \E k \in (1 .. Places) \ {place[w]} : place' = Append(place, k)
        /\ id' = Append(id, id[w])
        /\ live' = (live \ {w}) \cup {Inserted + 1}
  BY DEF Move
<1>3. /\ place' \in Seq(1 .. Places) /\ Len(place') = Inserted + 1
      /\ \A i \in 1 .. Inserted : place'[i] = place[i]
  <2>1. PICK k \in 1 .. Places : place' = Append(place, k)
    BY <1>2
  <2> DEFINE new == Append(place, k)
  <2>2. /\ new \in Seq(1 .. Places) /\ Len(new) = Len(place) + 1
        /\ \A i \in 1 .. Len(place) : new[i] = place[i]
    <3>1. place \in Seq(1 .. Places) /\ k \in 1 .. Places
      BY <1>1, <2>1
    <3> QED
      BY <3>1
  <2> HIDE DEF new
  <2>3. place' = new
    BY <2>1 DEF new
  <2> QED
    BY <1>1, <2>2, <2>3
<1>4. id[w] \in Nat
  BY <1>1
<1>5. /\ id' \in Seq(Nat) /\ Len(id') = Inserted + 1
      /\ id'[Inserted + 1] = id[w]
      /\ \A i \in 1 .. Inserted : id'[i] = id[i]
  <2> DEFINE new == Append(id, id[w])
  <2>1. /\ new \in Seq(Nat) /\ Len(new) = Len(id) + 1 /\ new[Len(id) + 1] = id[w]
        /\ \A i \in 1 .. Len(id) : new[i] = id[i]
    <3>1. id \in Seq(Nat)
      BY <1>1
    <3> QED
      BY <1>4, <3>1
  <2> HIDE DEF new
  <2>2. id' = new
    BY <1>2 DEF new
  <2> QED
    BY <1>1, <2>1, <2>2
<1>6. Inserted + 1 \notin live
  BY <1>1
<1>7. IsFiniteSet(live) /\ Cardinality(live) \in Nat /\ Removed \in Nat
  <2>1. Removed \in Nat
    BY AllOfNone, DriftSets DEF ListTypeOK
  <2> QED
    BY <2>1, LiveFinite
<1>8. Cardinality(live') = Cardinality(live)
  <2>1. IsFiniteSet(live \ {w}) /\ Cardinality(live \ {w}) = Cardinality(live) - 1
    BY <1>7, FS_RemoveElement
  <2>2. Inserted + 1 \notin live \ {w}
    BY <1>6
  <2>3. Cardinality(live') = Cardinality(live \ {w}) + 1
    BY <1>2, <2>1, <2>2, FS_AddElement
  <2> QED
    BY <1>7, <2>1, <2>3
<1>9. Inserted' = Inserted + 1 /\ Removed' = Removed + 1
  <2>1. Removed = Len(place) - Cardinality(live) /\ Removed' = Len(place') - Cardinality(live')
    BY DEF Removed
  <2>2. Inserted' = Len(place')
    BY DEF Inserted
  <2> QED
    BY <1>1, <1>3, <1>7, <1>8, <2>1, <2>2
<1> QED
  BY <1>1, <1>2, <1>3, <1>5, <1>6, <1>7, <1>9

Changed == Insert \/ Remove \/ Move

(* The table only gets more changes, and what was held of it stays so.     *)
LEMMA HeldStays ==
  ASSUME ListTypeOK, Changed
  PROVE  /\ Inserted <= Inserted' /\ Removed <= Removed'
         /\ \A got \in Pages : got \in Pages'
         /\ \A since \in Counted : since \in Counted'
         /\ \A since \in Counted : since # Count'
<1>1. /\ Inserted \in Nat /\ Removed \in Nat /\ Inserted' \in Nat /\ Removed' \in Nat
      /\ Inserted <= Inserted' /\ Removed <= Removed'
      /\ ~ (Inserted' <= Inserted /\ Removed' <= Removed)
  BY InsertCounts, RemoveCounts, MoveCounts DEF Changed
<1>2. ASSUME NEW got \in Pages  PROVE got \in Pages'
  <2>1. got \in Seq(SUBSET (1 .. Inserted)) /\ 1 .. Inserted \subseteq 1 .. Inserted'
    BY <1>1 DEF Pages
  <2>2. got \in Seq(SUBSET (1 .. Inserted'))
    BY <2>1
  <2> QED
    BY <2>2 DEF Pages
<1>3. ASSUME NEW since \in Counted  PROVE since \in Counted' /\ since # Count'
  <2>1. /\ since \in [inserted : 0 .. Inserted, removed : 0 .. Removed]
        /\ 0 .. Inserted \subseteq 0 .. Inserted' /\ 0 .. Removed \subseteq 0 .. Removed'
    BY <1>1 DEF Counted
  <2>2. since \in [inserted : 0 .. Inserted', removed : 0 .. Removed']
    BY <2>1
  <2>3. ASSUME since = Count'  PROVE FALSE
    <3>1. since.inserted = Inserted' /\ since.removed = Removed'
      BY <2>3 DEF Count
    <3>2. since.inserted \in 0 .. Inserted /\ since.removed \in 0 .. Removed
      BY <2>1
    <3>3. /\ since.inserted \in Nat /\ since.inserted <= Inserted
          /\ since.removed \in Nat /\ since.removed <= Removed
      BY <1>1, <3>2
    <3>4. Inserted' <= Inserted /\ Removed' <= Removed
      BY <3>1, <3>3, Zenon
    <3> QED
      BY <1>1, <3>4
  <2> QED
    BY <2>2, <2>3 DEF Counted
<1> QED
  BY <1>1, <1>2, <1>3

LEMMA InitListType ==
  ListInit => ListTypeOK
<1> SUFFICES ASSUME ListInit  PROVE ListTypeOK
  OBVIOUS
<1> DEFINE n == Len(place)
<1>1. place \in Seq(1 .. Places) /\ n <= Rows /\ n \in Nat /\ DOMAIN place = 1 .. n
  BY BoundsAssumption DEF ListInit
<1>2. id = [i \in 1 .. n |-> i] /\ live = 1 .. n
  BY <1>1 DEF ListInit
<1>3. id \in Seq(Nat) /\ Len(id) = n /\ \A i \in 1 .. n : id[i] = i
  BY <1>1, <1>2
<1>4. Inserted = n /\ Removed = 0
  <2>1. Cardinality(1 .. n) = n
    BY <1>1, FS_Interval
  <2> QED
    BY <1>1, <1>2, <2>1 DEF Inserted, Removed
<1>5. Zero \in Counted /\ <<>> \in Pages
  BY <1>1, <1>4, AllOfNone DEF Zero, Counted
<1>6. fetch \in Fetches
  BY <1>5 DEF ListInit, FromStart, Fetches
<1>7. told \in 0 .. Inserted + Removed
  BY <1>1, <1>4 DEF ListInit
<1>8. /\ Inserted <= Rows /\ live \subseteq 1 .. Inserted /\ Removed <= Removals
      /\ \A i \in 1 .. Inserted : id[i] \in 1 .. i
      /\ \A r, x \in live : id[r] = id[x] => r = x
  BY <1>1, <1>2, <1>3, <1>4, BoundsAssumption
<1> QED
  BY <1>1, <1>3, <1>4, <1>5, <1>6, <1>7, <1>8 DEF ListInit, ListTypeOK

LEMMA NoneCounted ==
  ASSUME ListTypeOK
  PROVE  Zero \in Counted /\ Count \in Counted /\ Inserted \in Nat /\ Removed \in Nat
<1>1. Inserted \in Nat /\ Removed \in Nat
  BY AllOfNone, DriftSets DEF ListTypeOK
<1> QED
  BY <1>1 DEF Zero, Counted, Count

LEMMA FetchFields ==
  ASSUME ListTypeOK
  PROVE  /\ fetch.kind \in {"none", "reload", "next"}
         /\ fetch.got \in Pages /\ fetch.sent \in Pages /\ fetch.since \in Counted
         /\ NoFetch \in Fetches /\ FromStart \in Fetches
<1>1. NoFetch \in Fetches /\ FromStart \in Fetches
  BY NoneCounted, AllOfNone DEF NoFetch, FromStart, Fetches
<1> QED
  BY <1>1 DEF ListTypeOK, Fetches

(* What the server's read of a page makes of the fetch.                    *)
LEMMA ReadForm ==
  ASSUME ListTypeOK, Read
  PROVE  /\ UNCHANGED <<screen, place, id, live, pages, base, told, missed>>
         /\ fetch.kind # "none" /\ fetch.sent = fetch.got
         /\ fetch' \in Fetches
         /\ fetch'.kind = fetch.kind /\ fetch'.got = fetch.got
         /\ fetch'.since = IF fetch.got = <<>> THEN Count ELSE fetch.since
         /\ \E p \in Find(NextParam(fetch.got)) :
              /\ fetch'.sent = Append(fetch.got, p) /\ fetch'.sent # <<>>
              /\ fetch'.sent # fetch.got
              /\ Len(fetch'.sent) = Len(fetch.got) + 1
<1>1. /\ UNCHANGED <<screen, place, id, live, pages, base, told, missed>>
      /\ fetch.kind # "none" /\ fetch.sent = fetch.got
  BY DEF Read, OnItsWay, database
<1> DEFINE Since == IF fetch.got = <<>> THEN Count ELSE fetch.since
<1>2. PICK p \in Find(NextParam(fetch.got)) :
        fetch' = [fetch EXCEPT !.sent = Append(fetch.got, p), !.since = Since]
  BY DEF Read
<1>3. /\ Append(fetch.got, p) \in Pages /\ Append(fetch.got, p) # <<>>
      /\ Len(Append(fetch.got, p)) = Len(fetch.got) + 1
  BY FetchFields, FindForm, AppendPage
<1>4. Append(fetch.got, p) # fetch.got
  <2>1. Len(fetch.got) \in Nat
    BY FetchFields, AllOfSome
  <2> QED
    BY <1>3, <2>1
<1>5. Since \in Counted
  BY FetchFields, NoneCounted
<1>6. fetch \in Fetches
  BY DEF ListTypeOK
<1> HIDE DEF Since
<1>7. /\ fetch' \in Fetches /\ fetch'.kind = fetch.kind /\ fetch'.got = fetch.got
      /\ fetch'.since = Since /\ fetch'.sent = Append(fetch.got, p)
  <2> HIDE DEF Pages, Counted
  <2> QED
    BY <1>2, <1>3, <1>5, <1>6 DEF Fetches
<1> QED
  BY <1>1, <1>3, <1>4, <1>7 DEF Since

(* What its receipt makes of the list, when it is the last, or of the fetch. *)
LEMMA ReceiveForm ==
  ASSUME ListTypeOK, Receive
  PROVE  /\ UNCHANGED <<screen, place, id, live, told, missed>>
         /\ fetch.sent # fetch.got
         /\ \/ /\ Last(fetch.sent)
               /\ pages' = fetch.sent /\ base' = fetch.since /\ fetch' = NoFetch
            \/ /\ ~ Last(fetch.sent) /\ UNCHANGED <<pages, base>>
               /\ fetch' = [fetch EXCEPT !.got = fetch.sent]
               /\ fetch' \in Fetches
               /\ fetch'.kind = fetch.kind /\ fetch'.since = fetch.since
               /\ fetch'.got = fetch.sent /\ fetch'.sent = fetch.sent
<1>1. fetch \in Fetches /\ fetch.sent \in Pages
  BY FetchFields DEF ListTypeOK
<1>2. ASSUME NEW f, f = [fetch EXCEPT !.got = fetch.sent]
      PROVE  /\ f \in Fetches /\ f.kind = fetch.kind /\ f.since = fetch.since
             /\ f.got = fetch.sent /\ f.sent = fetch.sent
  BY <1>1, <1>2 DEF Fetches
<1>3. fetch.sent # fetch.got /\ UNCHANGED <<screen, place, id, live, told, missed>>
  BY DEF Receive, OnItsWay, database
<1> QED
  BY <1>2, <1>3 DEF Receive

LEMMA LoseForm ==
  ASSUME ListTypeOK, Lose
  PROVE  /\ UNCHANGED <<screen, place, id, live, pages, base, told>>
         /\ fetch.sent # fetch.got /\ fetch' \in Fetches
         /\ fetch'.kind = fetch.kind /\ fetch'.since = fetch.since
         /\ fetch'.got = fetch.got /\ fetch'.sent = fetch.got
         /\ missed' = (missed /\ fetch.got # <<>>)
<1>1. fetch \in Fetches /\ fetch.got \in Pages
  BY FetchFields DEF ListTypeOK
<1>2. fetch' = [fetch EXCEPT !.sent = fetch.got] /\ fetch.sent # fetch.got
  BY DEF Lose, OnItsWay
<1>3. /\ fetch' \in Fetches /\ fetch'.kind = fetch.kind /\ fetch'.since = fetch.since
      /\ fetch'.got = fetch.got /\ fetch'.sent = fetch.got
  BY <1>1, <1>2 DEF Fetches
<1> QED
  BY <1>2, <1>3 DEF Lose, database

(* Reloads and the end of the list begin a fetch, or leave the first.      *)
LEMMA BeginForm ==
  ASSUME ListTypeOK, PullToRefresh \/ Invalidate \/ EndReached
  PROVE  /\ UNCHANGED <<screen, place, id, live, pages, base>>
         /\ fetch' \in Fetches
         /\ \/ fetch' = fetch /\ pages = <<>>
            \/ fetch' = FromStart /\ pages # <<>>
            \/ /\ fetch'.kind = "next" /\ fetch'.got = pages /\ fetch'.sent = pages
               /\ fetch'.since = base /\ screen.more /\ pages # <<>>
         /\ told' \in 0 .. Inserted + Removed /\ missed' \in BOOLEAN
<1>1. CASE PullToRefresh \/ Invalidate
  <2>1. Inserted + Removed \in 0 .. Inserted + Removed
    BY NoneCounted
  <2> QED
    BY <1>1, <2>1, FetchFields DEF PullToRefresh, Invalidate, Reload, database, ListTypeOK
<1>2. CASE EndReached
  <2> DEFINE f == [kind |-> "next", got |-> pages, sent |-> pages, since |-> base]
  <2>1. f \in Fetches
    BY DEF Fetches, ListTypeOK
  <2>2. fetch' = f
    BY <1>2 DEF EndReached
  <2>3. f.kind = "next" /\ f.got = pages /\ f.sent = pages /\ f.since = base
    OBVIOUS
  <2> HIDE DEF f
  <2> QED
    BY <1>2, <2>1, <2>2, <2>3 DEF EndReached, HasNext, database, ListTypeOK
<1> QED
  BY <1>1, <1>2

LEMMA StepListType ==
  ASSUME ListTypeOK, [ListNext]_listVars
  PROVE  ListTypeOK'
<1>1. CASE Changed
  <2>1. /\ pages' = pages /\ base' = base /\ fetch' = fetch /\ told' = told
        /\ missed' = missed /\ screen' = screen
    BY <1>1 DEF Changed, Insert, Remove, Move, App
  <2>2. /\ pages \in Pages' /\ base \in Counted' /\ fetch.sent \in Pages'
        /\ fetch.got \in Pages' /\ fetch.since \in Counted'
    BY <1>1, HeldStays, FetchFields DEF ListTypeOK
  <2>3. fetch' \in Fetches'
    <3>1. fetch = [kind |-> fetch.kind, got |-> fetch.got, sent |-> fetch.sent,
                   since |-> fetch.since]
      BY DEF ListTypeOK, Fetches
    <3> HIDE DEF Pages, Counted
    <3> QED
      BY <2>1, <2>2, <3>1, FetchFields DEF Fetches
  <2>4. told' \in 0 .. Inserted' + Removed'
    <3>1. Inserted + Removed <= Inserted' + Removed' /\ Inserted + Removed \in Nat
          /\ Inserted' + Removed' \in Nat
      BY <1>1, InsertCounts, RemoveCounts, MoveCounts DEF Changed
    <3> QED
      BY <2>1, <3>1 DEF ListTypeOK
  <2>5. CASE Insert \/ Move
    <3>1. /\ Inserted \in Nat /\ Removed \in Nat /\ Inserted' = Inserted + 1
          /\ place' \in Seq(1 .. Places) /\ id' \in Seq(Nat) /\ Len(id') = Inserted'
          /\ \A i \in 1 .. Inserted : place'[i] = place[i] /\ id'[i] = id[i]
      BY <2>5, InsertCounts, MoveCounts
    <3>2. Inserted' <= Rows /\ Removed' <= Removals
      <4>1. CASE Insert
        BY <3>1, <4>1, InsertCounts, BoundsAssumption DEF Insert, ListTypeOK
      <4>2. CASE Move
        <5>1. /\ Inserted' = Inserted + 1 /\ Removed' = Removed + 1
              /\ Inserted < Rows /\ Removed < Removals
          BY <4>2, MoveCounts DEF Move
        <5> QED
          BY <3>1, <5>1, BoundsAssumption
      <4> QED
        BY <2>5, <4>1, <4>2
    <3>3. live \subseteq 1 .. Inserted /\ \A i \in 1 .. Inserted : id[i] \in 1 .. i
      BY DEF ListTypeOK
    <3>4. id'[Inserted + 1] \in 1 .. Inserted + 1
      <4>1. CASE Insert
        BY <3>1, <4>1, InsertCounts
      <4>2. CASE Move
        <5>1. PICK w \in live : id'[Inserted + 1] = id[w]
          BY <4>2, MoveCounts
        <5>2. w \in 1 .. Inserted /\ id[w] \in 1 .. w
          BY <3>3
        <5> QED
          BY <3>1, <5>1, <5>2
      <4> QED
        BY <2>5, <4>1, <4>2
    <3>5. \A i \in 1 .. Inserted' : id'[i] \in 1 .. i
      <4>1. 1 .. Inserted' = (1 .. Inserted) \cup {Inserted + 1}
        BY <3>1
      <4> QED
        BY <3>1, <3>3, <3>4, <4>1
    <3>6. live' \subseteq 1 .. Inserted'
      <4>1. live' \subseteq live \cup {Inserted + 1}
        BY <2>5, InsertCounts, MoveCounts
      <4> QED
        BY <3>1, <3>3, <4>1
    <3>7. \A r, x \in live' : id'[r] = id'[x] => r = x
      <4>1. \A r \in live : id'[r] = id[r] /\ id[r] # Inserted + 1
        BY <3>1, <3>3
      <4>2. \A r, x \in live : id[r] = id[x] => r = x
        BY DEF ListTypeOK
      <4>3. CASE Insert
        <5>1. live' = live \cup {Inserted + 1} /\ id'[Inserted + 1] = Inserted + 1
          BY <4>3, InsertCounts
        <5> QED
          BY <4>1, <4>2, <5>1
      <4>4. CASE Move
        <5>1. PICK w \in live : /\ live' = (live \ {w}) \cup {Inserted + 1}
                                /\ id'[Inserted + 1] = id[w]
          BY <4>4, MoveCounts
        <5> QED
          BY <4>1, <4>2, <5>1
      <4> QED
        BY <2>5, <4>3, <4>4
    <3> QED
      BY <2>1, <2>2, <2>3, <2>4, <3>1, <3>2, <3>5, <3>6, <3>7 DEF ListTypeOK
  <2>6. CASE Remove
    <3>1. /\ Inserted \in Nat /\ Removed \in Nat
          /\ Inserted' = Inserted /\ Removed' = Removed + 1
          /\ live' \subseteq live /\ place' = place /\ id' = id
      BY <2>6, RemoveCounts
    <3>2. Removed' <= Removals
      BY <2>6, <3>1, BoundsAssumption DEF Remove
    <3> QED
      BY <2>1, <2>2, <2>3, <2>4, <3>1, <3>2 DEF ListTypeOK
  <2> QED
    BY <1>1, <2>5, <2>6 DEF Changed
<1>2. ASSUME UNCHANGED <<place, id, live>>, screen' \in Screens, missed' \in BOOLEAN,
             pages' \in Pages, base' \in Counted, told' \in 0 .. Inserted + Removed,
             fetch' \in Fetches
      PROVE  ListTypeOK'
  <2>1. /\ Inserted' = Inserted /\ Removed' = Removed
        /\ Pages' = Pages /\ Counted' = Counted /\ Fetches' = Fetches
    BY <1>2 DEF Inserted, Removed, Pages, Counted, Fetches
  <2> QED
    BY <1>2, <2>1 DEF ListTypeOK
<1>3. CASE PullToRefresh \/ Invalidate \/ EndReached
  BY <1>2, <1>3, BeginForm DEF ListTypeOK
<1>4. CASE Read
  BY <1>2, <1>4, ReadForm DEF ListTypeOK
<1>5. CASE Receive
  BY <1>2, <1>5, ReceiveForm, FetchFields DEF ListTypeOK
<1>6. CASE Lose
  BY <1>2, <1>6, LoseForm DEF ListTypeOK
<1>7. CASE UNCHANGED listVars
  BY <1>2, <1>7 DEF listVars, ListTypeOK
<1> QED
  BY <1>1, <1>3, <1>4, <1>5, <1>6, <1>7 DEF ListNext, Changed

(* The places, the pages and the counts are what their names say.          *)
THEOREM ListTypeCorrect == ListSpec => []ListTypeOK
  BY InitListType, StepListType, PTL DEF ListSpec

LEMMA FetchInvariant == ListSpec => []FetchInv
<1>1. ListInit => FetchInv
  BY DEF ListInit, FetchInv, FromStart, OnItsWay
<1>2. ListTypeOK /\ FetchInv /\ [ListNext]_listVars => FetchInv'
  <2> SUFFICES ASSUME ListTypeOK, FetchInv, [ListNext]_listVars
               PROVE  FetchInv'
    OBVIOUS
  <2>1. CASE Changed \/ UNCHANGED listVars
    BY <2>1 DEF Changed, Insert, Remove, Move, App, listVars, FetchInv, OnItsWay
  <2>2. CASE PullToRefresh \/ Invalidate \/ EndReached
    BY <2>2, BeginForm DEF FetchInv, OnItsWay, FromStart
  <2>3. CASE Read
    BY <2>3, ReadForm DEF FetchInv, OnItsWay
  <2>4. CASE Receive
    BY <2>4, ReceiveForm DEF FetchInv, OnItsWay, NoFetch
  <2>5. CASE Lose
    BY <2>5, LoseForm DEF FetchInv, OnItsWay
  <2> QED
    BY <2>1, <2>2, <2>3, <2>4, <2>5 DEF ListNext, Changed
<1> QED
  BY <1>1, <1>2, ListTypeCorrect, PTL DEF ListSpec

(***************************************************************************)
(* Rows come, go and move.                                                 *)
(***************************************************************************)

LEMMA OneMore ==
  ASSUME NEW S, IsFiniteSet(S), NEW T, NEW X, T \subseteq S \cup X,
         \A a, b \in X : a = b
  PROVE  Cardinality(T) <= Cardinality(S) + 1
<1>1. Cardinality(S) \in Nat
  BY FS_CardinalityType
<1>2. CASE X = {}
  BY <1>1, <1>2, FS_Subset, FS_CardinalityType
<1>3. CASE X # {}
  <2>1. PICK x : X = {x}
    BY <1>3
  <2>2. /\ IsFiniteSet(S \cup {x}) /\ Cardinality(S \cup {x}) <= Cardinality(S) + 1
        /\ Cardinality(S \cup {x}) \in Nat
    BY <1>1, FS_AddElement, FS_CardinalityType
  <2>3. Cardinality(T) <= Cardinality(S \cup {x}) /\ Cardinality(T) \in Nat
    BY <2>1, <2>2, FS_Subset, FS_CardinalityType
  <2> QED
    BY <1>1, <2>2, <2>3
<1> QED
  BY <1>2, <1>3

(* What an insertion, a removal or a move leaves: at most one version is   *)
(* new, and at most one is gone.                                           *)
LEMMA ChangeForm ==
  ASSUME ListTypeOK, ListTypeOK', Changed
  PROVE  /\ Inserted \in Nat /\ Removed \in Nat
         /\ Inserted' \in {Inserted, Inserted + 1} /\ Removed' \in {Removed, Removed + 1}
         /\ live \subseteq 1 .. Inserted /\ live' \subseteq live \cup {Inserted + 1}
         /\ \E w : live \ {w} \subseteq live'
         /\ \A i \in 1 .. Inserted : place'[i] = place[i] /\ id'[i] = id[i]
         /\ \A i \in live' : place'[i] \in Nat
         /\ Removed' = Removed => live \subseteq live' /\ id'[Inserted + 1] = Inserted + 1
         /\ Inserted' = Inserted => live' \subseteq live
<1>1. live \subseteq 1 .. Inserted
  BY PlaceType
<1>2. \A i \in live' : place'[i] \in Nat
  <2>1. place' \in Seq(1 .. Places) /\ live' \subseteq 1 .. Len(place')
    BY DEF ListTypeOK, Inserted
  <2>2. \A i \in 1 .. Len(place') : place'[i] \in 1 .. Places
    BY <2>1, ElementOf, Zenon
  <2>3. 1 .. Places \subseteq Nat
    BY BoundsAssumption
  <2> QED
    BY <2>1, <2>2, <2>3
<1>3. CASE Insert
  <2>1. /\ Inserted \in Nat /\ Removed \in Nat
        /\ Inserted' = Inserted + 1 /\ Removed' = Removed
        /\ live' = live \cup {Inserted + 1} /\ id'[Inserted + 1] = Inserted + 1
        /\ \A i \in 1 .. Inserted : place'[i] = place[i] /\ id'[i] = id[i]
    BY <1>3, InsertCounts
  <2>2. live \ {0} \subseteq live' /\ Inserted' # Inserted
    BY <2>1
  <2> QED
    BY <1>1, <1>2, <2>1, <2>2
<1>4. CASE Remove
  <2>1. PICK w \in live : live' = live \ {w}
    BY <1>4, RemoveCounts
  <2> QED
    BY <1>1, <1>2, <1>4, <2>1, RemoveCounts
<1>5. CASE Move
  <2>1. PICK w \in live : live' = (live \ {w}) \cup {Inserted + 1}
    BY <1>5, MoveCounts
  <2>2. /\ Inserted \in Nat /\ Removed \in Nat
        /\ Inserted' = Inserted + 1 /\ Removed' = Removed + 1
        /\ \A i \in 1 .. Inserted : place'[i] = place[i] /\ id'[i] = id[i]
    BY <1>5, MoveCounts
  <2>3. live \ {w} \subseteq live' /\ Inserted' # Inserted /\ Removed' # Removed
    BY <2>1, <2>2
  <2> QED
    BY <1>1, <1>2, <2>1, <2>2, <2>3
<1> QED
  BY <1>3, <1>4, <1>5 DEF Changed

LEMMA AloneStays ==
  ASSUME ListTypeOK, ListTypeOK', Changed, NEW r \in 1 .. Inserted, Alone(r)'
  PROVE  Alone(r)
<1>1. /\ Inserted \in Nat /\ 1 .. Inserted \subseteq 1 .. Inserted'
      /\ \A i \in 1 .. Inserted : place'[i] = place[i] /\ id'[i] = id[i]
  BY ChangeForm
<1> QED
  BY <1>1 DEF Alone

(* Of two rows the one listed first has the lower place after a change.    *)
LEMMA RanksAfter ==
  ASSUME ListTypeOK, ListTypeOK', Changed, NEW r \in live'
  PROVE  /\ IsFiniteSet(Upto(r)') /\ Rank(r)' \in Nat
         /\ \A x \in live' : place'[x] > place'[r] => Rank(x)' + 1 <= Rank(r)'
<1>1. /\ live' \subseteq live \cup {Inserted + 1} /\ \A i \in live' : place'[i] \in Nat
  BY ChangeForm
<1>2. IsFiniteSet(live')
  <2>1. IsFiniteSet(live \cup {Inserted + 1})
    BY LiveFinite, FS_AddElement
  <2> QED
    BY <1>1, <2>1, FS_Subset
<1>3. \A x \in live' : IsFiniteSet(Upto(x)') /\ Rank(x)' \in Nat
  <2>1. \A x : Upto(x)' \subseteq live'
    BY DEF Upto
  <2>2. \A x : IsFiniteSet(Upto(x)')
    BY <1>2, <2>1, FS_Subset
  <2> QED
    BY <2>2, FS_CardinalityType DEF Rank
<1>4. ASSUME NEW x \in live', place'[x] > place'[r]
      PROVE  Rank(x)' + 1 <= Rank(r)'
  <2>1. Upto(x)' \cup {r} \subseteq Upto(r)' /\ r \notin Upto(x)'
    BY <1>1, <1>4 DEF Upto
  <2>2. Cardinality(Upto(x)' \cup {r}) = Cardinality(Upto(x)') + 1
    BY <1>3, <2>1, FS_AddElement
  <2>3. Cardinality(Upto(x)' \cup {r}) <= Cardinality(Upto(r)')
    BY <1>3, <2>1, FS_Subset
  <2> QED
    BY <2>2, <2>3 DEF Rank
<1> QED
  BY <1>3, <1>4

(* The place of a row that stays moves by one, and never backwards for     *)
(* what comes, nor forwards for what goes.                                 *)
LEMMA StayRank ==
  ASSUME ListTypeOK, ListTypeOK', Changed, NEW r \in live, r \in live'
  PROVE  /\ Rank(r) \in Nat /\ Rank(r)' \in Nat
         /\ Rank(r)' <= Rank(r) + 1 /\ Rank(r) <= Rank(r)' + 1
         /\ Rank(r)' > Rank(r) =>
              Inserted + 1 \in live' /\ place'[Inserted + 1] >= place'[r]
         /\ Rank(r)' < Rank(r) =>
              /\ Removed' # Removed
              /\ Inserted + 1 \in live' => place'[Inserted + 1] < place'[r]
<1> DEFINE v == Inserted + 1
<1>1. /\ live \subseteq 1 .. Inserted /\ live' \subseteq live \cup {v} /\ Inserted \in Nat
      /\ \A i \in 1 .. Inserted : place'[i] = place[i]
      /\ \A i \in live' : place'[i] \in Nat
      /\ Removed' = Removed => live \subseteq live'
  BY ChangeForm
<1>2. PICK w : live \ {w} \subseteq live'
  BY ChangeForm
<1>3. IsFiniteSet(Upto(r)) /\ Rank(r) \in Nat
  BY RankType, LiveFinite
<1>4. IsFiniteSet(Upto(r)') /\ Rank(r)' \in Nat
  BY RanksAfter
<1> HIDE DEF v
<1>5. Upto(r)' \subseteq Upto(r) \cup {v} /\ Upto(r) \subseteq Upto(r)' \cup {w}
  BY <1>1, <1>2 DEF Upto
<1>6. Rank(r)' <= Rank(r) + 1
  BY <1>3, <1>5, OneMore DEF Rank
<1>7. Rank(r) <= Rank(r)' + 1
  BY <1>4, <1>5, OneMore DEF Rank
<1>8. ASSUME v \notin Upto(r)'  PROVE Rank(r)' <= Rank(r)
  BY <1>3, <1>5, <1>8, FS_Subset DEF Rank
<1>9. ASSUME v \in Upto(r)'  PROVE Rank(r) <= Rank(r)'
  <2>1. v \notin Upto(r)
    BY <1>1 DEF Upto, v
  <2>2. Upto(r) \subseteq (Upto(r)' \ {v}) \cup {w}
    BY <1>5, <2>1
  <2>3. /\ IsFiniteSet(Upto(r)' \ {v})
        /\ Cardinality(Upto(r)' \ {v}) = Cardinality(Upto(r)') - 1
    BY <1>4, <1>9, FS_RemoveElement
  <2>4. Cardinality(Upto(r)) <= Cardinality(Upto(r)' \ {v}) + 1
    BY <2>2, <2>3, OneMore
  <2> QED
    BY <1>3, <1>4, <2>3, <2>4 DEF Rank
<1>10. ASSUME Removed' = Removed  PROVE Rank(r) <= Rank(r)'
  <2>1. Upto(r) \subseteq Upto(r)'
    BY <1>1, <1>10 DEF Upto
  <2> QED
    BY <1>4, <2>1, FS_Subset DEF Rank
<1>11. ASSUME Rank(r)' > Rank(r)  PROVE v \in live' /\ place'[v] >= place'[r]
  BY <1>3, <1>4, <1>8, <1>11 DEF Upto
<1>12. ASSUME Rank(r)' < Rank(r)
       PROVE  Removed' # Removed /\ (v \in live' => place'[v] < place'[r])
  <2>1. Removed' # Removed /\ v \notin Upto(r)'
    BY <1>3, <1>4, <1>9, <1>10, <1>12
  <2>2. v \in live' => ~ (place'[v] >= place'[r])
    BY <2>1 DEF Upto
  <2>3. v \in live' => place'[v] \in Nat /\ place'[r] \in Nat
    BY <1>1
  <2> QED
    BY <2>1, <2>2, <2>3
<1> QED
  BY <1>3, <1>4, <1>6, <1>7, <1>11, <1>12 DEF v

(* A change makes one row more missing, and only if one goes.              *)
LEMMA ChangeMissing ==
  ASSUME ListTypeOK, ListTypeOK', Changed, NEW got \in Pages, NEW since \in Counted
  PROVE  /\ \A a, b \in Missing(got, since)' \ Missing(got, since) : a = b
         /\ Removed' = Removed => Missing(got, since)' \subseteq Missing(got, since)
<1>0. PICK v \in Nat : v = Inserted + 1
  BY ChangeForm
<1> DEFINE More == Missing(got, since)' \ Missing(got, since)
           New(k) == /\ v \in live' /\ k = id'[v] /\ k \in 1 .. since.inserted
                     /\ \/ \E x \in All(got) : place'[x] < place'[v]
                        \/ Rank(v)' <= Covered(got)
           FirstUnshown(k, r) ==
             /\ r \in live' /\ id[r] = k /\ Alone(r)
             /\ Rank(r) = Covered(got) + 1 /\ Rank(r)' = Covered(got)
             /\ \A x \in All(got) : ~ (place'[x] < place'[r])
             /\ Removed' # Removed
             /\ v \in live' => place'[v] < place'[r]
<1>1. /\ Inserted \in Nat
      /\ live \subseteq 1 .. Inserted /\ live' \subseteq live \cup {v}
      /\ \A i \in 1 .. Inserted : place'[i] = place[i] /\ id'[i] = id[i]
      /\ \A i \in live' : place'[i] \in Nat
      /\ Removed' = Removed => id'[v] = v
  BY <1>0, ChangeForm
<1>2. /\ All(got) \subseteq 1 .. Inserted /\ Covered(got) \in Nat
      /\ since.inserted \in 0 .. Inserted
  BY AllOfSome, DriftSets
<1>3. All(got)' = All(got) /\ Covered(got)' = Covered(got) /\ Ids(got)' = Ids(got)
  <2>1. All(got)' = All(got) /\ Covered(got)' = Covered(got)
    BY DEF All, Covered
  <2> QED
    BY <1>1, <1>2, <2>1 DEF Ids
<1>4. \A i \in All(got) : place'[i] \in Nat
  <2>1. \A i \in 1 .. Inserted : place[i] \in Nat
    BY PlaceType
  <2> QED
    BY <1>1, <1>2, <2>1
<1>5. ASSUME NEW k \in More  PROVE New(k) \/ \E r \in live : FirstUnshown(k, r)
  <2>1. k \in 1 .. since.inserted \ Ids(got)
    BY <1>3, <1>5 DEF Missing, Skipped, Passed
  <2>2. PICK r \in live' :
          /\ id'[r] = k /\ Alone(r)'
          /\ (\E x \in All(got) : place'[x] < place'[r]) \/ Rank(r)' <= Covered(got)
    BY <1>3, <1>5 DEF Missing, Skipped, Passed
  <2>3. CASE r = v
    BY <2>1, <2>2, <2>3
  <2>4. CASE r # v
    <3>1. r \in live /\ id[r] = k /\ place'[r] = place[r] /\ r \in 1 .. Inserted
      BY <1>1, <2>2, <2>4
    <3>2. Alone(r)
      BY <2>2, <3>1, AloneStays
    <3>3. k \notin Skipped(got, since) /\ k \notin Passed(got, since)
      BY <1>5 DEF Missing
    <3>4. \A x \in All(got) : ~ (place'[x] < place'[r])
      BY <1>1, <1>2, <2>1, <3>1, <3>2, <3>3 DEF Skipped
    <3>5. Rank(r)' <= Covered(got) /\ ~ (Rank(r) <= Covered(got))
      BY <2>1, <2>2, <3>1, <3>2, <3>3, <3>4 DEF Passed
    <3>6. /\ Rank(r) \in Nat /\ Rank(r)' \in Nat /\ Rank(r) <= Rank(r)' + 1
          /\ Rank(r)' < Rank(r) =>
               Removed' # Removed /\ (v \in live' => place'[v] < place'[r])
      BY <1>0, <3>1, StayRank
    <3>7. Rank(r) = Covered(got) + 1 /\ Rank(r)' = Covered(got) /\ Rank(r)' < Rank(r)
      BY <1>2, <3>5, <3>6
    <3> QED
      BY <3>1, <3>2, <3>4, <3>6, <3>7
  <2> QED
    BY <2>3, <2>4
<1>6. ASSUME NEW k, NEW m, NEW r \in live, New(k), FirstUnshown(m, r)  PROVE FALSE
  <2>1. place'[v] < place'[r] /\ v \in live' /\ r \in live'
    BY <1>6
  <2>2. Rank(r)' + 1 <= Rank(v)' /\ Rank(v)' \in Nat
    BY <1>1, <2>1, RanksAfter
  <2>3. ~ (Rank(v)' <= Covered(got))
    BY <1>2, <1>6, <2>2
  <2>4. PICK x \in All(got) : place'[x] < place'[v]
    BY <1>6, <2>3
  <2>5. place'[x] < place'[r]
    BY <1>1, <1>4, <2>1, <2>4
  <2> QED
    BY <1>6, <2>5
<1>7. ASSUME NEW k, NEW m, NEW r \in live, NEW x \in live, FirstUnshown(k, r), FirstUnshown(m, x)
      PROVE  k = m
  <2>1. r = x
    BY <1>7, RankUnique
  <2> QED
    BY <1>7, <2>1
<1>8. \A a, b \in More : a = b
  <2> SUFFICES ASSUME NEW a \in More, NEW b \in More  PROVE a = b
    OBVIOUS
  <2>1. (New(a) \/ \E r \in live : FirstUnshown(a, r)) /\ (New(b) \/ \E r \in live : FirstUnshown(b, r))
    BY <1>5
  <2>2. ASSUME New(a), New(b)  PROVE a = b
    BY <2>2
  <2> HIDE DEF New, FirstUnshown
  <2> QED
    BY <1>6, <1>7, <2>1, <2>2
<1>9. ASSUME Removed' = Removed  PROVE More = {}
  <2>1. \A k : ~ New(k)
    <3>1. id'[v] = v /\ v \notin 1 .. since.inserted
      BY <1>0, <1>1, <1>2, <1>9
    <3> QED
      BY <3>1
  <2>2. \A k, r : ~ FirstUnshown(k, r)
    BY <1>9
  <2> QED
    BY <1>5, <2>1, <2>2
<1> QED
  BY <1>8, <1>9

(* A change makes one row more double, and only if one comes.              *)
LEMMA ChangeDouble ==
  ASSUME ListTypeOK, ListTypeOK', Changed, NEW got \in Pages
  PROVE  /\ \A a, b \in Double(got)' \ Double(got) : a = b
         /\ Inserted' = Inserted => Double(got)' \subseteq Double(got)
<1>0. PICK v \in Nat : v = Inserted + 1
  BY ChangeForm
<1> DEFINE More == Double(got)' \ Double(got)
           New(k) == v \in live' /\ k = id'[v] /\ Rank(v)' > Covered(got)
           LastShown(k, r) ==
             /\ r \in live' /\ id[r] = k /\ Alone(r) /\ Alone(r)'
             /\ Rank(r) = Covered(got) /\ Rank(r)' = Covered(got) + 1
             /\ v \in live' /\ place'[v] >= place'[r]
<1>1. /\ Inserted \in Nat
      /\ live \subseteq 1 .. Inserted /\ live' \subseteq live \cup {v}
      /\ \A i \in 1 .. Inserted : place'[i] = place[i] /\ id'[i] = id[i]
      /\ \A i \in live' : place'[i] \in Nat
      /\ Inserted' = Inserted => live' \subseteq live
  BY <1>0, ChangeForm
<1>2. /\ All(got) \subseteq 1 .. Inserted /\ Covered(got) \in Nat
      /\ \A i \in DOMAIN got : got[i] \subseteq 1 .. Inserted
  <2>1. /\ All(got) \subseteq 1 .. Inserted /\ Covered(got) \in Nat
        /\ DOMAIN got = 1 .. Len(got) /\ \A i \in 1 .. Len(got) : got[i] \subseteq All(got)
    BY AllOfSome
  <2> QED
    BY <2>1
<1>3. All(got)' = All(got) /\ Covered(got)' = Covered(got) /\ Ids(got)' = Ids(got)
  <2>1. All(got)' = All(got) /\ Covered(got)' = Covered(got)
    BY DEF All, Covered
  <2> QED
    BY <1>1, <1>2, <2>1 DEF Ids
<1>4. Repeated(got)' \subseteq Repeated(got)
  <2> SUFFICES ASSUME NEW k \in Repeated(got)'  PROVE k \in Repeated(got)
    OBVIOUS
  <2>1. k \in Ids(got)
    BY <1>3 DEF Repeated
  <2>2. PICK i \in DOMAIN got, j \in DOMAIN got :
          i < j /\ \E r \in got[i], x \in got[j] :
                     id'[r] = k /\ id'[x] = k /\ Alone(r)' /\ Alone(x)'
    BY DEF Repeated
  <2>3. PICK r \in got[i], x \in got[j] : id'[r] = k /\ id'[x] = k /\ Alone(r)' /\ Alone(x)'
    BY <2>2
  <2>4. r \in 1 .. Inserted /\ x \in 1 .. Inserted
    BY <1>2, <2>3
  <2>5. id[r] = k /\ id[x] = k /\ Alone(r) /\ Alone(x)
    BY <1>1, <2>3, <2>4, AloneStays
  <2> QED
    BY <2>1, <2>2, <2>5 DEF Repeated
<1>5. ASSUME NEW k \in More  PROVE New(k) \/ \E r \in live : LastShown(k, r)
  <2>1. k \in Late(got)' /\ k \in Ids(got)
    BY <1>3, <1>4, <1>5 DEF Double, Late
  <2>2. PICK r \in live', x \in All(got) :
          id'[r] = k /\ id'[x] = k /\ Alone(r)' /\ Alone(x)' /\ Rank(r)' > Covered(got)
    BY <1>3, <2>1 DEF Late
  <2>3. CASE r = v
    BY <2>2, <2>3
  <2>4. CASE r # v
    <3>1. r \in live /\ id[r] = k /\ r \in 1 .. Inserted /\ x \in 1 .. Inserted /\ id[x] = k
      BY <1>1, <1>2, <2>2, <2>4
    <3>2. Alone(r) /\ Alone(x)
      BY <2>2, <3>1, AloneStays
    <3>3. ~ (Rank(r) > Covered(got))
      BY <1>5, <2>1, <2>2, <3>1, <3>2 DEF Late, Double
    <3>4. /\ Rank(r) \in Nat /\ Rank(r)' \in Nat /\ Rank(r)' <= Rank(r) + 1
          /\ Rank(r)' > Rank(r) => v \in live' /\ place'[v] >= place'[r]
      BY <1>0, <2>2, <3>1, StayRank
    <3>5. Rank(r) = Covered(got) /\ Rank(r)' = Covered(got) + 1 /\ Rank(r)' > Rank(r)
      BY <1>2, <2>2, <3>3, <3>4
    <3> QED
      BY <2>2, <3>1, <3>2, <3>4, <3>5
  <2> QED
    BY <2>3, <2>4
<1>6. ASSUME NEW k, NEW m, NEW r \in live, New(k), LastShown(m, r)  PROVE FALSE
  <2>1. /\ v \in live' /\ r \in live' /\ v # r /\ place'[v] >= place'[r]
        /\ Rank(v)' > Covered(got) /\ Rank(r)' = Covered(got) + 1 /\ Alone(r)'
    BY <1>0, <1>1, <1>6
  <2>2. place'[v] # place'[r]
    <3>1. id'[v] # id'[r] /\ v \in 1 .. Inserted'
      BY <2>1 DEF ListTypeOK
    <3> QED
      BY <2>1, <3>1 DEF Alone
  <2>3. place'[v] > place'[r]
    BY <1>1, <2>1, <2>2
  <2>4. Rank(v)' + 1 <= Rank(r)'
    BY <2>1, <2>3, RanksAfter
  <2>5. Rank(v)' \in Nat
    BY <2>1, RanksAfter
  <2> QED
    BY <1>2, <2>1, <2>4, <2>5
<1>7. ASSUME NEW k, NEW m, NEW r \in live, NEW x \in live, LastShown(k, r), LastShown(m, x)
      PROVE  k = m
  <2>1. r = x
    BY <1>7, RankUnique
  <2> QED
    BY <1>7, <2>1
<1>8. \A a, b \in More : a = b
  <2> SUFFICES ASSUME NEW a \in More, NEW b \in More  PROVE a = b
    OBVIOUS
  <2>1. (New(a) \/ \E r \in live : LastShown(a, r)) /\ (New(b) \/ \E r \in live : LastShown(b, r))
    BY <1>5
  <2>2. ASSUME New(a), New(b)  PROVE a = b
    BY <2>2
  <2> HIDE DEF New, LastShown
  <2> QED
    BY <1>6, <1>7, <2>1, <2>2
<1>9. ASSUME Inserted' = Inserted  PROVE More = {}
  <2>1. v \notin live'
    BY <1>0, <1>1, <1>9
  <2> QED
    BY <1>5, <2>1
<1> QED
  BY <1>8, <1>9

LEMMA ChangeDrift ==
  ASSUME ListTypeOK, ListTypeOK', Changed, NEW got \in Pages, NEW since \in Counted,
         Drift(got, since)
  PROVE  Drift(got, since)'
<1> DEFINE M == Missing(got, since)
           D == Double(got)
<1>1. /\ IsFiniteSet(M) /\ IsFiniteSet(D)
      /\ Cardinality(M) \in Nat /\ Cardinality(D) \in Nat
      /\ since.inserted \in Nat /\ since.removed \in Nat
  BY DriftSets
<1>2. /\ Inserted \in Nat /\ Removed \in Nat
      /\ Inserted' \in {Inserted, Inserted + 1} /\ Removed' \in {Removed, Removed + 1}
  BY ChangeForm
<1>3. IsFiniteSet(M') /\ IsFiniteSet(D')
  <2>1. since.inserted <= Inserted'
    BY <1>2, DriftSets
  <2>2. \A i \in 1 .. Inserted' : id'[i] \in 1 .. Inserted'
    BY <1>2 DEF ListTypeOK
  <2>3. All(got)' \subseteq 1 .. Inserted'
    <3>1. All(got) \subseteq 1 .. Inserted /\ All(got)' = All(got)
      BY AllOfSome DEF All
    <3> QED
      BY <1>2, <3>1
  <2>4. M' \subseteq 1 .. Inserted'
    BY <1>1, <1>2, <2>1 DEF Missing, Skipped, Passed
  <2>5. D' \subseteq 1 .. Inserted'
    BY <2>2, <2>3 DEF Double, Repeated, Late, Ids
  <2>6. IsFiniteSet(1 .. Inserted')
    BY <1>2, FS_Interval
  <2> QED
    BY <2>4, <2>5, <2>6, FS_Subset
<1>4. Cardinality(M') \in Nat /\ Cardinality(D') \in Nat
  BY <1>3, FS_CardinalityType
<1>5. Cardinality(M') <= Cardinality(M) + 1 /\ Cardinality(D') <= Cardinality(D) + 1
  <2>1. M' \subseteq M \cup (M' \ M) /\ D' \subseteq D \cup (D' \ D)
    OBVIOUS
  <2>2. /\ \A a, b \in M' \ M : a = b
        /\ \A a, b \in D' \ D : a = b
    BY ChangeMissing, ChangeDouble
  <2> HIDE DEF M, D
  <2> QED
    BY <1>1, <2>1, <2>2, OneMore
<1>6. Removed' = Removed => Cardinality(M') <= Cardinality(M)
  BY <1>1, ChangeMissing, FS_Subset
<1>7. Inserted' = Inserted => Cardinality(D') <= Cardinality(D)
  BY <1>1, ChangeDouble, FS_Subset
<1>8. Cardinality(M) <= Removed - since.removed /\ Cardinality(D) <= Inserted - since.inserted
  BY DEF Drift
<1> HIDE DEF M, D
<1>9. Cardinality(M') <= Removed' - since.removed
  BY <1>1, <1>2, <1>4, <1>5, <1>6, <1>8
<1>10. Cardinality(D') <= Inserted' - since.inserted
  BY <1>1, <1>2, <1>4, <1>5, <1>7, <1>8
<1> QED
  BY <1>9, <1>10 DEF Drift, M, D

(* Of the rows that tie with no other, a list skips at most as many as     *)
(* were removed or moved since its first page, and repeats at most as many *)
(* as were inserted or moved.                                              *)
THEOREM DriftIsBounded == ListSpec => []DriftBounded
<1>1. ListInit => DriftInv
  <2> SUFFICES ASSUME ListInit  PROVE DriftInv
    OBVIOUS
  <2>1. Drift(<<>>, Zero)
    BY InitListType, NoneCounted, DriftOfNone
  <2> QED
    BY <2>1 DEF ListInit, DriftInv, FromStart
<1>2. ListTypeOK /\ ListTypeOK' /\ DriftInv /\ [ListNext]_listVars => DriftInv'
  <2> SUFFICES ASSUME ListTypeOK, ListTypeOK', DriftInv, [ListNext]_listVars
               PROVE  DriftInv'
    OBVIOUS
  <2>1. /\ pages \in Pages /\ base \in Counted
        /\ fetch.got \in Pages /\ fetch.sent \in Pages /\ fetch.since \in Counted
    BY FetchFields DEF ListTypeOK
  <2>2. CASE Changed
    <3>1. ASSUME NEW got \in Pages, NEW since \in Counted, Drift(got, since)
          PROVE  Drift(got, since)'
      BY <2>2, <3>1, ChangeDrift
    <3>2. UNCHANGED <<pages, base, fetch>>
      BY <2>2 DEF Changed, Insert, Remove, Move, App
    <3>3. Drift(pages, base)' /\ Drift(fetch.got, fetch.since)' /\ Drift(fetch.sent, fetch.since)'
      BY <2>1, <3>1, <3>2 DEF DriftInv
    <3> QED
      BY <3>3 DEF DriftInv
  <2>3. ASSUME UNCHANGED <<place, id, live>>, NEW got, NEW since, Drift(got, since)
        PROVE  Drift(got, since)'
    BY <2>3 DEF Drift, Missing, Double, Skipped, Passed, Repeated, Late, Ids, All, Alone, Rank,
                Upto, Covered, Inserted, Removed
  <2>4. ASSUME UNCHANGED <<place, id, live>>, Drift(pages', base'),
               Drift(fetch'.got, fetch'.since), Drift(fetch'.sent, fetch'.since)
        PROVE  DriftInv'
    BY <2>3, <2>4 DEF DriftInv
  <2>5. /\ Drift(pages, base)
        /\ Drift(fetch.got, fetch.since) /\ Drift(fetch.sent, fetch.since)
    BY DEF DriftInv
  <2>6. Drift(<<>>, Zero)
    BY NoneCounted, DriftOfNone
  <2>7. CASE PullToRefresh \/ Invalidate \/ EndReached
    <3>1. /\ UNCHANGED <<place, id, live, pages, base>>
          /\ \/ fetch' = fetch
             \/ fetch'.got = <<>> /\ fetch'.sent = <<>> /\ fetch'.since = Zero
             \/ fetch'.got = pages /\ fetch'.sent = pages /\ fetch'.since = base
      BY <2>7, BeginForm DEF FromStart
    <3> QED
      BY <2>4, <2>5, <2>6, <3>1
  <2>8. CASE Read
    <3>1. PICK p \in Find(NextParam(fetch.got)) : fetch'.sent = Append(fetch.got, p)
      BY <2>8, ReadForm
    <3>2. /\ UNCHANGED <<place, id, live, pages, base>>
          /\ fetch'.got = fetch.got
          /\ fetch'.since = IF fetch.got = <<>> THEN Count ELSE fetch.since
      BY <2>8, ReadForm
    <3>3. fetch'.since \in Counted /\ Drift(fetch.got, fetch'.since)
      BY <2>1, <2>5, <3>2, NoneCounted, DriftOfNone
    <3>4. Drift(fetch'.sent, fetch'.since)
      BY <2>1, <3>1, <3>3, DriftOfMore
    <3> QED
      BY <2>4, <2>5, <3>2, <3>3, <3>4
  <2>9. CASE Receive
    <3>1. /\ UNCHANGED <<place, id, live>>
          /\ \/ /\ pages' = fetch.sent /\ base' = fetch.since
                /\ fetch'.got = <<>> /\ fetch'.sent = <<>> /\ fetch'.since = Zero
             \/ /\ UNCHANGED <<pages, base>> /\ fetch'.since = fetch.since
                /\ fetch'.got = fetch.sent /\ fetch'.sent = fetch.sent
      BY <2>9, ReceiveForm DEF NoFetch
    <3> QED
      BY <2>4, <2>5, <2>6, <3>1
  <2>10. CASE Lose
    BY <2>4, <2>5, <2>10, LoseForm
  <2>11. CASE UNCHANGED listVars
    BY <2>4, <2>5, <2>11 DEF listVars
  <2> QED
    BY <2>2, <2>7, <2>8, <2>9, <2>10, <2>11 DEF ListNext, Changed
<1>3. ListTypeOK /\ DriftInv => DriftBounded
  <2> SUFFICES ASSUME ListTypeOK, DriftInv  PROVE DriftBounded
    OBVIOUS
  <2>1. pages \in Pages /\ base \in Counted
    BY DEF ListTypeOK
  <2>2. /\ Missing(pages, base) \in SUBSET (1 .. Inserted)
        /\ Double(pages) \in SUBSET (1 .. Inserted)
        /\ \A S \in SUBSET (1 .. Inserted) : Cardinality(S) \in Nat
        /\ \A S, T \in SUBSET (1 .. Inserted) :
             S \subseteq T => Cardinality(S) <= Cardinality(T)
        /\ Inserted \in Nat /\ Removed \in Nat
        /\ base.inserted \in 0 .. Inserted /\ base.removed \in 0 .. Removed
    BY <2>1, DriftSets
  <2>3. Skipped(pages, base) \subseteq Missing(pages, base) /\ Repeated(pages) \subseteq Double(pages)
    BY DEF Missing, Double
  <2>4. /\ Cardinality(Skipped(pages, base)) <= Cardinality(Missing(pages, base))
        /\ Cardinality(Repeated(pages)) <= Cardinality(Double(pages))
        /\ Cardinality(Skipped(pages, base)) \in Nat
        /\ Cardinality(Repeated(pages)) \in Nat
        /\ Cardinality(Missing(pages, base)) \in Nat
        /\ Cardinality(Double(pages)) \in Nat
    BY <2>2, <2>3
  <2> QED
    BY <2>2, <2>4 DEF DriftInv, Drift, DriftBounded
<1> QED
  BY <1>1, <1>2, <1>3, ListTypeCorrect, PTL DEF ListSpec

(***************************************************************************)
(* A table that does not change.                                           *)
(***************************************************************************)

LEMMA ExactOfNone ==
  ASSUME ListTypeOK, NEW since
  PROVE  Exact(<<>>, since)
<1>1. Top(0) = {}
  BY RankType DEF Top
<1>2. Len(<<>>) # 1
  OBVIOUS
<1>3. All(<<>>) = Top(Covered(<<>>)) /\ Len(<<>>) # 1
  BY <1>1, <1>2, AllOfNone, Zenon
<1> QED
  BY <1>3, Zenon DEF Exact

LEMMA ExactOfMore ==
  ASSUME ListTypeOK, NEW got \in Pages, NEW since, Exact(got, since),
         NEW p \in Find(NextParam(got))
  PROVE  Exact(Append(got, p), since)
<1> DEFINE new == Append(got, p)
<1> SUFFICES ASSUME since = Count, AllAlone
             PROVE  /\ All(new) = Top(Covered(new))
                    /\ Len(new) = 1 => All(new) \in First(Size)
                    /\ new # <<>> /\ Cardinality(new[Len(new)]) # Size => All(new) = live
  BY DEF Exact
<1>1. PICK a \in First(Covered(got)), b \in First(Covered(got) + Size) :
        a \subseteq b /\ p = b \ a
  BY FindForm
<1>2. /\ All(new) = All(got) \cup p /\ Covered(new) = Covered(got) + Size
      /\ Len(new) = Len(got) + 1 /\ new[Len(got) + 1] = p
  BY FindForm, AppendPage
<1> HIDE DEF new
<1>3. Covered(got) \in Nat /\ Covered(got) + Size \in Nat /\ Len(got) \in Nat /\ Size \in Nat
  BY AllOfSome, SizeAssumption
<1>4. a \subseteq live /\ b \subseteq live
  BY <1>1, <1>3, FirstForm
<1>5. \A r \in live : Alone(r)
  BY DEF AllAlone, ListTypeOK
<1>6. a = Top(Covered(got)) /\ b = Top(Covered(new))
  BY <1>1, <1>2, <1>3, <1>4, <1>5, FirstRank DEF Top
<1>7. All(got) = Top(Covered(got))
  BY DEF Exact
<1>8. All(new) = b
  BY <1>1, <1>2, <1>6, <1>7
<1>9. ASSUME Len(new) = 1  PROVE b \in First(Size)
  <2>1. Len(got) = 0
    <3>1. Len(new) = Len(got) + 1
      BY <1>2
    <3>2. Len(got) + 1 = 1
      BY <3>1, <1>9
    <3> QED
      BY <1>3, <3>2
  <2>2. Covered(got) + Size = Size
    BY <1>3, <2>1 DEF Covered
  <2> QED
    BY <1>1, <2>2
<1>10. ASSUME Cardinality(p) # Size  PROVE b = live
  <2>1. Cardinality(live) \in Nat
    BY LiveFinite
  <2>2. CASE Covered(got) + Size < Cardinality(live)
    <3>1. Cardinality(b) = Covered(got) + Size
      BY <1>1, <1>3, <2>2, FirstForm
    <3>2. Covered(got) < Cardinality(live)
      BY <1>3, <2>1, <2>2
    <3>3. Cardinality(a) = Covered(got)
      BY <1>1, <1>3, <3>2, FirstForm
    <3>4. IsFiniteSet(b) /\ b \cap a = a
      BY <1>1, <1>4, LiveFinite
    <3>5. Cardinality(p) = Cardinality(b) - Cardinality(a)
      BY <1>1, <3>4, FS_Difference
    <3> QED
      BY <1>3, <1>10, <3>1, <3>3, <3>5
  <2>3. CASE Covered(got) + Size >= Cardinality(live)
    BY <1>1, <1>3, <2>3, FirstForm
  <2> QED
    BY <1>3, <2>1, <2>2, <2>3
<1> QED
  BY <1>2, <1>6, <1>8, <1>9, <1>10

(* A list at its end, of a table with no change since its first page and   *)
(* no two rows that tie, is the whole table, or its first page.            *)
THEOREM EndIsReached == ListSpec => []EndIsTheEnd
<1>1. ListInit => EndInv
  <2> SUFFICES ASSUME ListInit  PROVE EndInv
    OBVIOUS
  <2>1. Exact(<<>>, Zero)
    BY InitListType, ExactOfNone
  <2>2. Len(<<>>) = 0
    OBVIOUS
  <2> QED
    BY <2>1, <2>2 DEF ListInit, EndInv, FromStart
<1>2. ListTypeOK /\ ListTypeOK' /\ EndInv /\ [ListNext]_listVars => EndInv'
  <2> SUFFICES ASSUME ListTypeOK, ListTypeOK', EndInv, [ListNext]_listVars
               PROVE  EndInv'
    OBVIOUS
  <2>1. /\ pages \in Pages /\ base \in Counted
        /\ fetch.got \in Pages /\ fetch.sent \in Pages /\ fetch.since \in Counted
    BY FetchFields DEF ListTypeOK
  <2>2. CASE Changed
    <3>1. UNCHANGED <<pages, base, fetch, screen>>
      BY <2>2 DEF Changed, Insert, Remove, Move, App
    <3>2. base # Count' /\ fetch.since # Count'
      BY <2>1, <2>2, HeldStays
    <3> QED
      BY <3>1, <3>2 DEF EndInv, Exact
  <2>3. ASSUME UNCHANGED <<place, id, live>>, NEW got, NEW since, Exact(got, since)
        PROVE  Exact(got, since)'
    <3>1. /\ Inserted' = Inserted /\ Count' = Count
          /\ AllAlone' <=> AllAlone
          /\ \A k : Top(k)' = Top(k) /\ First(k)' = First(k)
      BY <2>3 DEF Inserted, Removed, Count, AllAlone, Alone, Top, Rank, Upto, First, PlaceOf,
                  Before, Of
    <3> QED
      BY <2>3, <3>1 DEF Exact, All, Covered
  <2> DEFINE Short == Len(pages') <= 1 /\ fetch'.kind # "next"
                      /\ fetch'.got = <<>> /\ Len(fetch'.sent) <= 1
  <2>4. ASSUME UNCHANGED <<place, id, live, screen>>, Exact(pages', base'),
               Exact(fetch'.got, fetch'.since), Exact(fetch'.sent, fetch'.since),
               ~ screen.more => Short
        PROVE  EndInv'
    <3>1. /\ Exact(pages, base)'
          /\ Exact(fetch.got, fetch.since)' /\ Exact(fetch.sent, fetch.since)'
      BY <2>3, <2>4
    <3> QED
      BY <2>4, <3>1 DEF EndInv
  <2>5. /\ Exact(pages, base)
        /\ Exact(fetch.got, fetch.since) /\ Exact(fetch.sent, fetch.since)
        /\ ~ screen.more =>
             Len(pages) <= 1 /\ fetch.kind # "next" /\ fetch.got = <<>> /\ Len(fetch.sent) <= 1
    BY DEF EndInv
  <2>6. Exact(<<>>, Zero) /\ Len(<<>>) = 0
    BY ExactOfNone
  <2>7. CASE PullToRefresh \/ Invalidate \/ EndReached
    <3>1. /\ UNCHANGED <<place, id, live, screen, pages, base>>
          /\ \/ fetch' = fetch
             \/ /\ fetch'.kind = "reload" /\ fetch'.got = <<>> /\ fetch'.sent = <<>>
                /\ fetch'.since = Zero
             \/ /\ fetch'.got = pages /\ fetch'.sent = pages /\ fetch'.since = base
                /\ screen.more
      BY <2>7, BeginForm DEF FromStart
    <3>2. ~ screen.more => Short
      BY <2>5, <2>6, <3>1
    <3> QED
      BY <2>4, <2>5, <2>6, <3>1, <3>2
  <2>8. CASE Read
    <3>1. PICK p \in Find(NextParam(fetch.got)) :
            fetch'.sent = Append(fetch.got, p) /\ Len(fetch'.sent) = Len(fetch.got) + 1
      BY <2>8, ReadForm
    <3>2. /\ UNCHANGED <<place, id, live, screen, pages, base>>
          /\ fetch'.got = fetch.got /\ fetch'.kind = fetch.kind
          /\ fetch'.since = IF fetch.got = <<>> THEN Count ELSE fetch.since
      BY <2>8, ReadForm
    <3>3. Exact(fetch.got, fetch'.since)
      BY <2>5, <3>2, ExactOfNone
    <3>4. Exact(fetch'.sent, fetch'.since)
      BY <2>1, <3>1, <3>3, ExactOfMore
    <3>5. ~ screen.more => Short
      BY <2>5, <2>6, <3>1, <3>2
    <3> QED
      BY <2>4, <2>5, <3>2, <3>3, <3>4, <3>5
  <2>9. CASE Receive
    <3>1. /\ UNCHANGED <<place, id, live, screen>>
          /\ \/ /\ pages' = fetch.sent /\ base' = fetch.since
                /\ fetch'.kind = "none"
                /\ fetch'.got = <<>> /\ fetch'.sent = <<>> /\ fetch'.since = Zero
             \/ /\ ~ Last(fetch.sent)
                /\ UNCHANGED <<pages, base>> /\ fetch'.since = fetch.since
                /\ fetch'.got = fetch.sent /\ fetch'.sent = fetch.sent
      BY <2>9, ReceiveForm DEF NoFetch
    <3>2. ~ Last(fetch.sent) => screen.more
      BY DEF Last, HasNext
    <3>3. ~ screen.more => Short
      BY <2>5, <2>6, <3>1, <3>2
    <3> QED
      BY <2>4, <2>5, <2>6, <3>1, <3>3
  <2>10. CASE Lose
    BY <2>4, <2>5, <2>6, <2>10, LoseForm
  <2>11. CASE UNCHANGED listVars
    BY <2>4, <2>5, <2>11 DEF listVars
  <2> QED
    BY <2>2, <2>7, <2>8, <2>9, <2>10, <2>11 DEF ListNext, Changed
<1>3. ListTypeOK /\ FetchInv /\ EndInv => EndIsTheEnd
  <2> SUFFICES ASSUME ListTypeOK, FetchInv, EndInv, fetch.kind = "none", base = Count,
                      ~ HasNext(pages), \A r \in 1 .. Inserted : Alone(r)
               PROVE  Shown = live \/ (~ screen.more /\ Shown \in First(Size))
    BY DEF EndIsTheEnd
  <2>1. pages # <<>> /\ pages \in Pages
    BY DEF FetchInv, ListTypeOK
  <2>2. /\ Len(pages) = 1 => Shown \in First(Size)
        /\ Cardinality(pages[Len(pages)]) # Size => Shown = live
    BY <2>1 DEF EndInv, Exact, AllAlone, Shown
  <2>3. CASE screen.more
    <3>1. ~ Full(pages[Len(pages)])
      BY <2>1, <2>3 DEF HasNext
    <3> QED
      BY <2>2, <3>1 DEF Full
  <2>4. CASE ~ screen.more
    <3>1. Len(pages) <= 1
      BY <2>4 DEF EndInv
    <3>2. Len(pages) \in Nat \ {0}
      BY <2>1 DEF Pages
    <3>3. \A k \in Nat \ {0} : k <= 1 => k = 1
      OBVIOUS
    <3>4. Len(pages) = 1
      BY <3>1, <3>2, <3>3, Zenon
    <3> QED
      BY <2>2, <2>4, <3>4
  <2> QED
    BY <2>3, <2>4
<1> QED
  BY <1>1, <1>2, <1>3, ListTypeCorrect, FetchInvariant, PTL DEF ListSpec

(* A list at rest is no older than the last own change, unless the end of  *)
(* the list cut its reload off, or its query's first fetch had been read   *)
(* already when the change was told.                                       *)
THEOREM OwnChangesAreShown == ListSpec => []OwnChangesShown
<1>1. ListInit => OwnInv
  BY DEF ListInit, OwnInv, FromStart
<1>2. ListTypeOK /\ FetchInv /\ OwnInv /\ [ListNext]_listVars => OwnInv'
  <2> SUFFICES ASSUME ListTypeOK, FetchInv, OwnInv, [ListNext]_listVars
               PROVE  OwnInv'
    OBVIOUS
  <2>1. CASE Changed \/ UNCHANGED listVars
    BY <2>1 DEF Changed, Insert, Remove, Move, App, listVars, OwnInv
  <2>2. CASE PullToRefresh
    BY <2>2 DEF PullToRefresh, Reload, OwnInv, FromStart, FetchInv
  <2>3. CASE Invalidate
    BY <2>3 DEF Invalidate, Reload, OwnInv, FromStart, FetchInv
  <2>4. CASE EndReached
    <3>1. /\ fetch'.kind = "next" /\ fetch'.got = pages /\ fetch'.since = base
          /\ pages # <<>> /\ fetch.kind # "next" /\ told' = told /\ base' = base
          /\ missed' = (missed \/ fetch.kind = "reload")
      BY <2>4 DEF EndReached, HasNext
    <3> QED
      BY <3>1, FetchFields DEF OwnInv
  <2>5. CASE Read
    <3>1. Sum(Count) >= told
      BY NoneCounted DEF Sum, Count, ListTypeOK
    <3> QED
      BY <2>5, <3>1, ReadForm, FetchFields DEF OwnInv
  <2>6. CASE Receive
    <3>1. /\ told' = told /\ missed' = missed /\ fetch.kind # "none" /\ fetch.sent # <<>>
          /\ \/ base' = fetch.since /\ fetch'.kind = "none"
             \/ /\ fetch'.kind = fetch.kind /\ fetch'.since = fetch.since
                /\ base' = base /\ fetch'.got = fetch.sent /\ fetch'.sent = fetch.sent
      BY <2>6, ReceiveForm DEF NoFetch, FetchInv, OnItsWay
    <3> QED
      BY <3>1, FetchFields DEF OwnInv
  <2>7. CASE Lose
    BY <2>7, LoseForm, FetchFields DEF OwnInv, FetchInv, OnItsWay
  <2> QED
    BY <2>1, <2>2, <2>3, <2>4, <2>5, <2>6, <2>7 DEF ListNext, Changed
<1>3. OwnInv => OwnChangesShown
  BY DEF OwnInv, OwnChangesShown, Sum
<1> QED
  BY <1>1, <1>2, <1>3, ListTypeCorrect, FetchInvariant, PTL DEF ListSpec

=============================================================================
