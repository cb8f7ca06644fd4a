---------------------------- MODULE AdminPortfolio ----------------------------
(***************************************************************************)
(* The administration screens of a portfolio, the list and the detail,     *)
(* over the server's handlers; HoldingsHistory is the server's holdings.   *)
(*                                                                         *)
(* One administrator's app is modelled screen by screen; the apps of the   *)
(* others act through the same handlers.  A screen shows the cached answer *)
(* of a query.  While a mutation of a mounted screen is pending a loading  *)
(* overlay covers the screen, but not a Modal or an Alert, and the swipe   *)
(* back is the system's.  A mutation's callbacks run also after its screen *)
(* is gone.  icon_url goes the way of description and is left out.         *)
(***************************************************************************)
EXTENDS Integers, FiniteSets, Sequences

CONSTANTS
  Ticker, MaxRows, Whole,   \* as in HoldingsHistory
  Typed,           \* holdings the administrator may type, valid or not
  Text,            \* names and descriptions
  Call,            \* mutations of this app in flight together
  MaxCommits       \* bound on the changes to the portfolio

ASSUME TickerAssumption == Ticker # {}
ASSUME RowsAssumption == MaxRows \in Nat
ASSUME WholeAssumption == Whole \in Nat \ {0}
ASSUME TextAssumption == Text # {} /\ "" \notin Text
ASSUME CommitsAssumption == MaxCommits \in Nat
ASSUME TypedAssumption ==
  \A f \in Typed : f \in [1 .. MaxRows -> [ticker : Ticker, part : Nat]]

VARIABLES
  row, told,       \* HoldingsHistory
  blurred,         \* the same, history
  portfolio,       \* the row of portfolios, and whether there is one
  commits,         \* changes to the portfolio so far
  detail,          \* the query ['admin-portfolio', id]
  stack,           \* of these two screens, those that are mounted
  dialog,          \* the Modal or Alert that is open
  draft,           \* draftName and draftDescription, and which were edited
  call,            \* the mutations in flight
  mine,            \* history: the newest own change the detail's query was told of
  missed           \* history: one it was not told of, nor has been read since

(* A transaction of the holdings is one step here: none overlaps another.  *)
Server == INSTANCE HoldingsHistory

holdings == <<row, told, blurred>>
database == <<holdings, portfolio, commits>>
editors == <<stack, dialog, draft>>
own == <<mine, missed>>
vars == <<database, detail, editors, call, own>>

-----------------------------------------------------------------------------
(* State                                                                   *)

Blank == ""
None == [commit |-> -1]

Portfolio ==
  [state : {"absent", "present", "deleted"}, name : Text,
   description : Text \cup {Blank}]

(* What a GET answers, of what the screens act on.                         *)
Answer ==
  [commit : 0 .. MaxCommits, state : {"absent", "present", "deleted"},
   name : Text, description : Text \cup {Blank}]

Now ==
  [commit |-> commits, state |-> portfolio.state,
   name |-> portfolio.name, description |-> portfolio.description]

Query ==
  [data : {None} \cup Answer, invalid : BOOLEAN,
   fetch : {"idle", "asked", "answered"}, answer : {None} \cup Answer]

Fields == [name : Text \cup {Blank}, description : Text \cup {Blank}]
Draft ==
  [now : Fields, edited : SUBSET {"name", "description"}, commit : 0 .. MaxCommits]

DetailOps == {"meta", "toggle", "holdings", "delete"}
ListOps == {"create", "list_toggle", "list_delete"}
NoCall == [op |-> "none", watched |-> FALSE]

(* watched: the screen that made the call is mounted and waits for it;     *)
(* closed: the administrator has closed the editor it was saved from.      *)
Mutation ==
  [op : DetailOps \cup ListOps, watched : BOOLEAN, closed : BOOLEAN,
   stage : {"sent", "committed"}, commit : 0 .. MaxCommits, draft : Draft,
   rows : [Server!Line -> [ticker : Ticker, part : Nat]]]

TypeOK ==
  /\ Server!TypeOK
  /\ portfolio \in Portfolio
  /\ commits \in 0 .. MaxCommits
  /\ detail \in Query
  /\ stack \in {<<>>, <<"list">>, <<"list", "detail">>, <<"detail">>}
  /\ dialog \in {"none", "meta", "holdings", "delete", "create", "list_delete"}
  /\ draft \in Draft
  /\ call \in [Call -> {NoCall} \cup Mutation]
  /\ mine \in 0 .. MaxCommits
  /\ missed \in BOOLEAN

NoFields == [name |-> Blank, description |-> Blank]
NoDraft == [now |-> NoFields, edited |-> {}, commit |-> 0]
NoRows == Server!Empty
NoQuery == [data |-> None, invalid |-> FALSE, fetch |-> "idle", answer |-> None]

(* The portfolio may be there, or may be the one to be created.            *)
Init ==
  /\ Server!Init
  /\ portfolio \in [state : {"absent", "present"}, name : Text, description : {Blank}]
  /\ commits = 0
  /\ detail = NoQuery
  /\ stack = <<"list">>
  /\ dialog = "none"
  /\ draft = NoDraft
  /\ call = [c \in Call |-> NoCall]
  /\ mine = 0
  /\ missed = FALSE

-----------------------------------------------------------------------------
(* Server                                                                  *)

Present == portfolio.state = "present"

Change == commits < MaxCommits /\ commits' = commits + 1

(* None in the payload leaves the column as it is.                         *)
Given(new, old) == IF new = Blank THEN old ELSE new

UpdatePortfolio(f) ==
  /\ Present
  /\ portfolio' = [portfolio EXCEPT !.name = Given(f.name, @),
                                    !.description = Given(f.description, @)]
  /\ UNCHANGED holdings

(* is_active is in no property: that the portfolio has changed remains.     *)
TogglePortfolio == Present /\ UNCHANGED <<portfolio, holdings>>

(* The holdings are deleted, and the foreign keys take their history.      *)
DeletePortfolio ==
  /\ Present
  /\ portfolio' = [portfolio EXCEPT !.state = "deleted"]
  /\ Server!Cascade

CreatePortfolio(f) ==
  /\ portfolio.state = "absent"
  /\ portfolio' = [portfolio EXCEPT !.state = "present", !.name = f.name,
                                    !.description = f.description]
  /\ UNCHANGED holdings

(* What passes the checks of the screen and of the server.                 *)
Savable == {f \in Typed : f \in Server!Payload}

UpdateHoldings(f) ==
  /\ Present
  /\ Server!Replace(f)
  /\ UNCHANGED portfolio

(* The answer is put on its way to the app.                                *)
Reply(c) ==
  call' = [call EXCEPT ![c] =
             [@ EXCEPT !.stage = "committed", !.commit = commits',
                       !.draft = NoDraft, !.rows = NoRows]]

Handle(c) ==
  LET r == call[c] IN
  \/ r.op = "meta" /\ UpdatePortfolio(r.draft.now)
  \/ r.op \in {"toggle", "list_toggle"} /\ TogglePortfolio
  \/ r.op \in {"delete", "list_delete"} /\ DeletePortfolio
  \/ r.op = "create" /\ CreatePortfolio(r.draft.now)
  \/ r.op = "holdings" /\ UpdateHoldings(r.rows)

AtServer(c) == call[c] # NoCall /\ call[c].stage = "sent"

Serve(c) ==
  /\ AtServer(c)
  /\ Change
  /\ Handle(c)
  /\ Reply(c)
  /\ UNCHANGED <<detail, editors, own>>

(* The other administrators.                                               *)
ServeOther ==
  /\ Change
  /\ \/ \E n \in Text, d \in Text \cup {Blank} :
          UpdatePortfolio([name |-> n, description |-> d])
     \/ TogglePortfolio
     \/ DeletePortfolio
     \/ \E f \in Savable : UpdateHoldings(f)
  /\ UNCHANGED <<detail, editors, call, own>>

-----------------------------------------------------------------------------
(* Queries                                                                 *)

Asked(q) == [q EXCEPT !.fetch = "asked", !.answer = None]

(* Mutant: a fetch in flight is left to answer.                            *)
RefetchUnlessFetching(q) == IF q.fetch # "idle" THEN q ELSE Asked(q)

(* A fetch in flight is dropped for a new one, unless it is the first.     *)
Refetch(q) == IF q.fetch # "idle" /\ q.data = None THEN q ELSE Asked(q)

(* A query no mounted screen uses is only marked.                          *)
Invalidate(q, used) == IF used THEN Refetch(q) ELSE [q EXCEPT !.invalid = TRUE]

Answered(q) == [q EXCEPT !.fetch = "answered", !.answer = Now]
Arrived(q) ==
  [data |-> q.answer, invalid |-> FALSE, fetch |-> "idle", answer |-> None]

(* A fetch that fails is tried again, by the client or the administrator:  *)
(* it counts as one that is not answered yet.                              *)
FetchStep(q, new, found) ==
  \/ q.fetch = "asked" /\ found /\ new = Answered(q)
  \/ q.fetch = "answered" /\ new \in {Arrived(q), Asked(q)}

(* What the server reads now is no older than what was told to succeed.    *)
Fetch ==
  /\ FetchStep(detail, detail', Present)
  /\ missed' = (missed /\ detail.fetch # "asked")
  /\ UNCHANGED <<database, editors, call, mine>>

(* Opening a screen fetches what is missing, marked or older than 30 s.    *)
Mounted(q) ==
  IF q.fetch # "idle" THEN {q}
  ELSE IF q.data = None \/ q.invalid THEN {Asked(q)} ELSE {q, Asked(q)}

-----------------------------------------------------------------------------
(* Screens                                                                 *)

Pending(ops) == \E c \in Call : call[c].watched /\ call[c].op \in ops

(* Mutant: the overlay forgets the mutation of the holdings.               *)
BusyButHoldings == Pending(DetailOps \ {"holdings"})

(* isBusy: the loading overlay lies over the screen.                       *)
Busy == Pending(DetailOps)
ListBusy == Pending(ListOps)

Open(screen) == \E i \in DOMAIN stack : stack[i] = screen
At(screen) == stack # <<>> /\ stack[Len(stack)] = screen
ScreenOf(op) == IF op \in DetailOps THEN "detail" ELSE "list"

(* What the administrator can reach on the screen itself.                  *)
OnDetail == At("detail") /\ dialog = "none" /\ ~ Busy
OnList == At("list") /\ dialog = "none" /\ ~ ListBusy

(* A card of the list may be older than the portfolio's end.               *)
Listed == portfolio.state # "absent"
Shown == detail.data # None

Show(d) == dialog' = d /\ UNCHANGED <<stack, draft>>

(* What a closed editor leaves behind, of what the next may be affected by. *)
Close(d) ==
  IF dialog = d
  THEN dialog' = "none" /\ draft' = [NoDraft EXCEPT !.now.description = draft.now.description]
  ELSE UNCHANGED <<dialog, draft>>

Mutate(op, d, f) ==
  /\ \E c \in Call :
       /\ call[c] = NoCall
       /\ call' = [call EXCEPT ![c] =
                     [op |-> op, watched |-> Open(ScreenOf(op)), closed |-> FALSE,
                      stage |-> "sent", commit |-> 0, draft |-> d, rows |-> f]]
  /\ UNCHANGED <<database, detail, own>>

Screen == UNCHANGED <<database, detail, call, own>>

(* The detail's header and status: Edit, tap to toggle, pull to refresh.   *)
(* Mutant: a description that was typed is left in the editor.             *)
CopiedName(a) ==
  [name |-> a.name,
   description |-> IF draft.now.description = Blank THEN a.description
                   ELSE draft.now.description]

Copied(a) == [name |-> a.name, description |-> a.description]

OpenEditMeta ==
  /\ OnDetail /\ Shown
  /\ draft' = [now |-> Copied(detail.data), edited |-> {},
               commit |-> detail.data.commit]
  /\ dialog' = "meta"
  /\ UNCHANGED stack
  /\ Screen

TapToggle ==
  /\ OnDetail /\ Shown
  /\ Mutate("toggle", NoDraft, NoRows)
  /\ UNCHANGED editors

PullToRefresh ==
  /\ OnDetail
  /\ detail' = Refetch(detail)
  /\ UNCHANGED <<database, editors, call, own>>

(* The Modal of the texts; without a name it has no Save.                  *)
TypeMeta ==
  /\ dialog = "meta"
  /\ \/ \E t \in Text \ {draft.now.name} :
          draft' = [draft EXCEPT !.now = [@ EXCEPT !.name = t], !.edited = @ \cup {"name"}]
     \/ \E t \in (Text \cup {Blank}) \ {draft.now.description} :
          draft' = [draft EXCEPT !.now = [@ EXCEPT !.description = t],
                                  !.edited = @ \cup {"description"}]
  /\ UNCHANGED <<stack, dialog>>
  /\ Screen

SaveMeta ==
  /\ dialog = "meta" /\ draft.now.name # Blank /\ ~ Pending({"meta"})
  /\ Mutate("meta", draft, NoRows)
  /\ UNCHANGED editors

(* The holdings: rows are added, removed and typed into, and Save sends    *)
(* what is valid; the rows it started from do not limit it.                *)
OpenEditHoldings ==
  /\ OnDetail /\ Shown
  /\ Show("holdings")
  /\ Screen

SaveHoldings ==
  /\ dialog = "holdings" /\ ~ Pending({"holdings"})
  /\ \E f \in Savable : Mutate("holdings", NoDraft, f)
  /\ UNCHANGED editors

(* Cancel closes the Modal, also while its mutation is pending.            *)
Dismiss ==
  /\ call' = [c \in Call |->
                IF call[c].watched /\ call[c].op = dialog
                THEN [call[c] EXCEPT !.closed = TRUE] ELSE call[c]]
  /\ Close(dialog)
  /\ UNCHANGED <<stack, database, detail, own>>

CancelEdit == dialog \in {"meta", "holdings"} /\ Dismiss

(* The danger zone, and Delete on a card of the list.                      *)
AskDelete ==
  /\ \/ OnDetail /\ Shown /\ Show("delete")
     \/ OnList /\ Listed /\ Show("list_delete")
  /\ Screen

AnswerDelete ==
  /\ dialog \in {"delete", "list_delete"}
  /\ Show("none")
  /\ Mutate(dialog, NoDraft, NoRows) \/ Screen

(* The rest of a card: Activate or Deactivate, and a tap opens the detail. *)
ToggleListed ==
  /\ OnList /\ Listed
  /\ Mutate("list_toggle", NoDraft, NoRows)
  /\ UNCHANGED editors

OpenDetail ==
  /\ OnList /\ Listed
  /\ stack' = Append(stack, "detail")
  /\ detail' \in Mounted(detail)
  /\ UNCHANGED <<database, dialog, draft, call, own>>

(* + New; the Modal is left by Cancel, or by the success of Create.        *)
OpenCreate ==
  /\ OnList
  /\ portfolio.state = "absent"
  /\ Show("create")
  /\ Screen

Create ==
  /\ dialog = "create" /\ ~ Pending({"create"})
  /\ \E n \in Text, d \in Text \cup {Blank} :
       Mutate("create", [NoDraft EXCEPT !.now = [name |-> n, description |-> d]], NoRows)
  /\ UNCHANGED editors

CancelCreate == dialog = "create" /\ Dismiss

(* Back pops the stack; the screen's own calls go on without it.           *)
Pop ==
  IF stack = <<>> THEN stack ELSE SubSeq(stack, 1, Len(stack) - 1)

Left(screen) == Open(screen) /\ stack' = Pop /\ At(screen)

Unwatched(calls) ==
  [c \in Call |-> IF Left(ScreenOf(calls[c].op)) /\ calls[c] # NoCall
                  THEN [calls[c] EXCEPT !.watched = FALSE] ELSE calls[c]]

Back ==
  /\ stack # <<>> /\ dialog = "none"
  /\ stack' = Pop
  /\ call' = Unwatched(call)
  /\ UNCHANGED <<database, detail, dialog, draft, own>>

OpenList ==
  /\ stack = <<>> /\ dialog = "none"
  /\ stack' = <<"list">>
  /\ UNCHANGED <<database, detail, dialog, draft, call, own>>

-----------------------------------------------------------------------------
(* What a mutation's answer does                                           *)

Done(c) == [call EXCEPT ![c] = NoCall]

(* setShowEditMeta(false), setShowEditHoldings(false), setShowCreate(false).  *)
CloseEditor(c) ==
  Close(IF call[c].watched THEN call[c].op ELSE "no editor")

(* An own change has succeeded, and the detail's query is told of it, or   *)
(* is not.                                                                 *)
Tell(c, heard) ==
  /\ mine' = IF heard /\ call[c].commit > mine THEN call[c].commit ELSE mine
  /\ missed' = (missed \/ ~ heard)

(* On a query that no screen uses the mark is lost when an answer that was *)
(* on its way arrives.                                                     *)
SucceedDetail(c) ==
  /\ call[c].op \in {"meta", "toggle", "holdings"}
  /\ detail' = Invalidate(detail, Open("detail"))
  /\ CloseEditor(c)
  /\ call' = Done(c)
  /\ Tell(c, Open("detail") \/ detail.fetch # "answered")
  /\ UNCHANGED stack

(* router.back(): what it pops is not always the screen that asked.  A     *)
(* Modal goes with its screen, an Alert stays.                             *)
SucceedDelete(c) ==
  /\ call[c].op = "delete"
  /\ stack' = Pop
  /\ Close(IF dialog \in {"meta", "holdings", "create"} THEN dialog ELSE "no editor")
  /\ call' = Unwatched(Done(c))
  /\ Tell(c, FALSE)
  /\ UNCHANGED detail

(* A detail of what did not exist holds nothing older than the creation.   *)
(* A second copy of the detail on top of the first is not followed.        *)
SucceedCreate(c) ==
  /\ call[c].op = "create"
  /\ CloseEditor(c)
  /\ IF At("detail") THEN UNCHANGED <<stack, detail>>
     ELSE stack' = Append(stack, "detail") /\ detail' \in Mounted(detail)
  /\ call' = Done(c)
  /\ UNCHANGED own

(* Only ['admin-portfolios'], the list's own query, is invalidated.        *)
SucceedListed(c) ==
  /\ call[c].op \in {"list_toggle", "list_delete"}
  /\ call' = Done(c)
  /\ Tell(c, FALSE)
  /\ UNCHANGED <<detail, editors>>

Succeed(c) ==
  /\ call[c] # NoCall /\ call[c].stage = "committed"
  /\ SucceedDetail(c) \/ SucceedDelete(c) \/ SucceedCreate(c) \/ SucceedListed(c)
  /\ UNCHANGED database

(* Not found, a change log that fails, no connection, the timeout of 15 s: *)
(* a toast, and the editor stays open.  What the server may still do for a *)
(* call given up is among what ServeOther does.                            *)
Fail(c) ==
  /\ call[c] # NoCall
  /\ call' = Done(c)
  /\ UNCHANGED <<database, detail, editors, own>>

Use ==
  \/ OpenEditMeta \/ TapToggle \/ PullToRefresh \/ TypeMeta \/ SaveMeta
  \/ OpenEditHoldings \/ SaveHoldings \/ CancelEdit
  \/ AskDelete \/ AnswerDelete \/ ToggleListed \/ OpenDetail
  \/ OpenCreate \/ Create \/ CancelCreate \/ Back \/ OpenList

Next ==
  \/ Use \/ Fetch \/ ServeOther
  \/ \E c \in Call : Serve(c) \/ Succeed(c) \/ Fail(c)

Spec == Init /\ [][Next]_vars

-----------------------------------------------------------------------------
(* Properties                                                              *)

(* "Records each change to a portfolio's holdings": when the updates come  *)
(* one at a time the newest history row of a ticker tells the allocation   *)
(* it has, however their percentages were rounded, unless an update has    *)
(* named the ticker twice and none has moved it since.                     *)
HistoryTells == Server!HistoryTells

(* What is typed and passes saveHoldings is stored with a total within     *)
(* 0.01 of 100 plus half a hundredth for each row that may be rounded.     *)
AllocationBounded == Server!AllocationBounded

(* setShowEditMeta(false) and its like may come from a late answer: it     *)
(* never closes an editor opened after the one it saved.                   *)
EditorIsTheSavedOne ==
  \A c \in Call :
    call[c] # NoCall /\ call[c].watched /\ call[c].closed => call[c].op # dialog

(* A detail at rest shows every own change that was told to have           *)
(* succeeded, whatever fetches were in flight meanwhile and whether or not *)
(* the screen was left and opened again.  Until the server is asked anew   *)
(* it may miss one made in the list, one that deletes, and one told after  *)
(* the screen was left with an answer to its query on the way.             *)
OwnChangesShown ==
  Open("detail") /\ detail.fetch = "idle" /\ ~ missed => detail.data.commit >= mine

(* A save of the texts, of a portfolio nobody has changed since it was     *)
(* shown, changes no text the administrator did not edit.                  *)
FieldsKept ==
  [][\A c \in Call :
       /\ Serve(c) /\ call[c].op = "meta" /\ call[c].draft.commit = commits
       => \A f \in {"name", "description"} \ call[c].draft.edited :
            portfolio'[f] = portfolio[f]]_vars

=============================================================================
