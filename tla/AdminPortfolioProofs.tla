-------------------------- MODULE AdminPortfolioProofs --------------------------
(* Theorems about AdminPortfolio and the HoldingsHistory it serves, for    *)
(* any tickers, percentages, texts and number of calls in flight.          *)
EXTENDS AdminPortfolio, FiniteSetTheorems, SequenceTheorems, TLAPS

-----------------------------------------------------------------------------
(* Sums                                                                    *)

(* Total is a recursive function over the subsets of Line: it picks a      *)
(* line, adds its part and goes on with the rest.                          *)
Pick(s) == CHOOSE t \in s : TRUE

Sums(f, S, g) ==
  g = [s \in SUBSET S |-> IF s = {} THEN 0 ELSE f[Pick(s)] + g[s \ {Pick(s)}]]

LEMMA PickIn ==
  ASSUME NEW s, s # {}
  PROVE  Pick(s) \in s
  BY DEF Pick

(* Of the subsets of a finite set in B, one has no smaller one in B.       *)
LEMMA SmallestSubset ==
  ASSUME NEW S, IsFiniteSet(S), NEW B \in SUBSET (SUBSET S), B # {}
  PROVE  \E s \in B : \A u \in SUBSET s : u # s => u \notin B
<1>1. IsWellFoundedOn(StrictSubsetOrdering(S), SUBSET S)
  BY FS_StrictSubsetOrderingWellFounded, FS_FiniteSubsetsOfFinite
<1>2. PICK s \in B : \A u \in B : ~ (<<u, s>> \in StrictSubsetOrdering(S))
  BY <1>1, WFMin
<1>3. ASSUME NEW u \in SUBSET s, u # s, u \in B
      PROVE  <<u, s>> \in StrictSubsetOrdering(S)
  BY <1>3 DEF StrictSubsetOrdering
<1>4. \A u \in SUBSET s : u # s => u \notin B
  BY <1>2, <1>3
<1> QED
  BY <1>4

(* What is added up does not depend on the set the sum is defined over.    *)
LEMMA SumsAgree ==
  ASSUME NEW f, NEW S, NEW T, NEW g, NEW h, Sums(f, S, g), Sums(f, T, h),
         NEW R \in SUBSET (S \cap T), IsFiniteSet(R)
  PROVE  g[R] = h[R]
<1> DEFINE B == {s \in SUBSET R : g[s] # h[s]}
<1> SUFFICES ASSUME B # {} PROVE FALSE
  OBVIOUS
<1>1. PICK s \in B : \A u \in SUBSET s : u # s => u \notin B
  <2>1. B \in SUBSET (SUBSET R)
    OBVIOUS
  <2> HIDE DEF B
  <2> QED
    BY <2>1, SmallestSubset
<1>2. s \in SUBSET S /\ s \in SUBSET T /\ s \in SUBSET R
  OBVIOUS
<1>3. /\ g[s] = IF s = {} THEN 0 ELSE f[Pick(s)] + g[s \ {Pick(s)}]
      /\ h[s] = IF s = {} THEN 0 ELSE f[Pick(s)] + h[s \ {Pick(s)}]
  BY <1>2 DEF Sums
<1>4. s # {}
  BY <1>3
<1>5. s \ {Pick(s)} \in SUBSET s /\ s \ {Pick(s)} # s
  BY <1>4, PickIn
<1>6. g[s \ {Pick(s)}] = h[s \ {Pick(s)}]
  BY <1>1, <1>2, <1>5
<1> QED
  BY <1>3, <1>6

LEMMA SumsExist ==
  ASSUME NEW f, NEW S, IsFiniteSet(S)
  PROVE  \E g : Sums(f, S, g)
<1> DEFINE B == {s \in SUBSET S : ~ \E g : Sums(f, s, g)}
<1> SUFFICES ASSUME B # {} PROVE FALSE
  OBVIOUS
<1>1. PICK s \in B : \A u \in SUBSET s : u # s => u \notin B
  <2>1. B \in SUBSET (SUBSET S)
    OBVIOUS
  <2> HIDE DEF B
  <2> QED
    BY <2>1, SmallestSubset
<1> DEFINE Of(u) == CHOOSE g : Sums(f, u, g)
           Rest(u) == u \ {Pick(u)}
           G == [u \in SUBSET s |-> IF u = {} THEN 0 ELSE f[Pick(u)] + Of(Rest(u))[Rest(u)]]
<1>2. ASSUME NEW u \in SUBSET s, u # s
      PROVE  Sums(f, u, Of(u))
  BY <1>1, <1>2
<1>3. ASSUME NEW u \in SUBSET s, u # {}
      PROVE  G[Rest(u)] = Of(Rest(u))[Rest(u)]
  <2> DEFINE v == Rest(u)
  <2>1. v \in SUBSET s /\ v # s
    BY <1>3, PickIn
  <2>2. Sums(f, v, Of(v))
    BY <2>1, <1>2
  <2>3. Of(v)[v] = IF v = {} THEN 0 ELSE f[Pick(v)] + Of(v)[Rest(v)]
    BY <2>2 DEF Sums
  <2>4. CASE v = {}
    BY <2>1, <2>3, <2>4
  <2>5. CASE v # {}
    <3>1. Rest(v) \in SUBSET s /\ Rest(v) # s /\ Rest(v) \in SUBSET v
      BY <2>1, <2>5
    <3>2. IsFiniteSet(Rest(v))
      BY <3>1, FS_Subset
    <3>3. Sums(f, Rest(v), Of(Rest(v)))
      BY <3>1, <1>2
    <3>4. Of(v)[Rest(v)] = Of(Rest(v))[Rest(v)]
      BY <2>2, <3>1, <3>2, <3>3, SumsAgree
    <3> QED
      BY <2>1, <2>3, <2>5, <3>4
  <2> QED
    BY <2>4, <2>5
<1>4. G = [u \in SUBSET s |-> IF u = {} THEN 0 ELSE f[Pick(u)] + G[Rest(u)]]
  <2> DEFINE H == [u \in SUBSET s |-> IF u = {} THEN 0 ELSE f[Pick(u)] + G[Rest(u)]]
  <2>1. ASSUME NEW u \in SUBSET s PROVE G[u] = H[u]
    <3>1. CASE u = {}
      BY <3>1
    <3>2. CASE u # {}
      <4>1. G[u] = f[Pick(u)] + Of(Rest(u))[Rest(u)]
        BY <3>2
      <4>2. H[u] = f[Pick(u)] + G[Rest(u)]
        BY <3>2
      <4>3. G[Rest(u)] = Of(Rest(u))[Rest(u)]
        BY <3>2, <1>3
      <4> QED
        BY <4>1, <4>2, <4>3
    <3> QED
      BY <3>1, <3>2
  <2> QED
    BY <2>1
<1>5. Sums(f, s, G)
  BY <1>4 DEF Sums
<1> QED
  BY <1>5

Line == Server!Line
Lines == [Line -> [ticker : Ticker, part : Nat]]

LEMMA LineFacts ==
  IsFiniteSet(Line) /\ Cardinality(Line) = MaxRows /\ Line \subseteq Nat
<1>1. 1 \in Int /\ MaxRows \in Int
  BY RowsAssumption
<1>2. IsFiniteSet(1 .. MaxRows)
      /\ Cardinality(1 .. MaxRows) = IF 1 > MaxRows THEN 0 ELSE MaxRows - 1 + 1
  BY <1>1, FS_Interval
<1> QED
  BY <1>2, RowsAssumption DEF Line, Server!Line

LEMMA TotalSums ==
  ASSUME NEW f
  PROVE  \E g : Sums([l \in Line |-> f[l].part], Line, g) /\ Server!Total(f) = g[Line]
<1> DEFINE parts == [l \in Line |-> f[l].part]
<1>1. Server!Total(f) = (CHOOSE g : Sums(parts, Line, g))[Line]
  BY DEF Server!Total, Server!FoldFunction, Server!FoldFunctionOnSet,
         Server!MapThenFoldSet, Sums, Pick, Line
<1> QED
  BY <1>1, SumsExist, LineFacts

LEMMA EmptyTotal == Server!Total(Server!Empty) = 0
<1> DEFINE f == [l \in Line |-> Server!Empty[l].part]
<1>1. PICK g : Sums(f, Line, g) /\ Server!Total(Server!Empty) = g[Line]
  BY TotalSums
<1> DEFINE B == {s \in SUBSET Line : g[s] # 0}
<1> SUFFICES ASSUME B # {} PROVE FALSE
  BY <1>1
<1>2. PICK s \in B : \A u \in SUBSET s : u # s => u \notin B
  <2>1. B \in SUBSET (SUBSET Line)
    OBVIOUS
  <2> HIDE DEF B
  <2> QED
    BY <2>1, SmallestSubset, LineFacts
<1>3. g[s] = IF s = {} THEN 0 ELSE f[Pick(s)] + g[s \ {Pick(s)}]
  BY <1>1 DEF Sums
<1>4. s # {}
  BY <1>3
<1>5. Pick(s) \in Line /\ s \ {Pick(s)} \in SUBSET s /\ s \ {Pick(s)} # s
  BY <1>4, PickIn
<1>6. g[s \ {Pick(s)}] = 0 /\ f[Pick(s)] = 0
  BY <1>2, <1>5 DEF Server!Empty, Line
<1> QED
  BY <1>3, <1>6

(* Each rounded row is at most half a hundredth above what was typed.      *)
LEMMA StoredTotal ==
  ASSUME NEW p \in Lines, NEW r, r = Server!Rows(p)
  PROVE  /\ Server!Total(p) \in Int /\ Server!Total(r) \in Int
         /\ 2 * Server!Total(r) - Server!Total(p) \in 0 .. MaxRows
<1> DEFINE typed == [l \in Line |-> p[l].part]
           stored == [l \in Line |-> r[l].part]
<1>1. PICK g : Sums(typed, Line, g) /\ Server!Total(p) = g[Line]
  BY TotalSums
<1>2. PICK h : Sums(stored, Line, h) /\ Server!Total(r) = h[Line]
  BY TotalSums
<1> DEFINE HalfEach(s) == /\ g[s] \in Int /\ h[s] \in Int
                          /\ 2 * h[s] - g[s] \in 0 .. Cardinality(s)
           B == {s \in SUBSET Line : ~ HalfEach(s)}
<1> SUFFICES ASSUME B # {} PROVE FALSE
  BY <1>1, <1>2, LineFacts
<1>3. PICK s \in B : \A u \in SUBSET s : u # s => u \notin B
  <2>1. B \in SUBSET (SUBSET Line)
    OBVIOUS
  <2> HIDE DEF B
  <2> QED
    BY <2>1, SmallestSubset, LineFacts
<1> DEFINE l == Pick(s)
           rest == s \ {l}
<1>4. /\ g[s] = IF s = {} THEN 0 ELSE typed[l] + g[rest]
      /\ h[s] = IF s = {} THEN 0 ELSE stored[l] + h[rest]
  BY <1>1, <1>2 DEF Sums
<1>5. s # {}
  <2>1. Cardinality({}) = 0
    BY FS_EmptySet
  <2>2. ASSUME s = {} PROVE FALSE
    BY <1>3, <1>4, <2>1, <2>2
  <2> QED
    BY <2>2
<1>6. l \in s /\ l \in Line /\ rest \in SUBSET s /\ rest # s /\ rest \in SUBSET Line
  BY <1>5, PickIn
<1>7. HalfEach(rest)
  BY <1>3, <1>6
<1>8. /\ IsFiniteSet(s) /\ Cardinality(s) \in Nat /\ Cardinality(rest) = Cardinality(s) - 1
  BY <1>6, FS_Subset, FS_CardinalityType, FS_RemoveElement, LineFacts
<1>9. /\ typed[l] \in Nat /\ stored[l] \in Int
      /\ 2 * stored[l] - typed[l] \in 0 .. 1
  <2>1. p[l].part \in Nat /\ r[l].part = Server!Stored(p[l].part)
    BY <1>6 DEF Server!Rows, Line, Lines
  <2>2. typed[l] \in Nat /\ stored[l] = (typed[l] + 1) \div 2
    BY <1>6, <2>1 DEF Server!Stored
  <2>3. \A k \in Nat : (k + 1) \div 2 \in Int /\ 2 * ((k + 1) \div 2) - k \in 0 .. 1
    OBVIOUS
  <2> HIDE DEF typed, stored
  <2> QED
    BY <2>2, <2>3
<1>10. g[s] = typed[l] + g[rest] /\ h[s] = stored[l] + h[rest]
  BY <1>4, <1>5
<1>11. HalfEach(s)
  <2> HIDE DEF l, rest, typed, stored
  <2> QED
    BY <1>7, <1>8, <1>9, <1>10
<1> QED
  BY <1>11

(* Of the lines that name a ticker there is a last one.                    *)
LEMMA LastIn ==
  ASSUME NEW S \in SUBSET Line, S # {}
  PROVE  Server!Last(S) \in S
<1> DEFINE Above(l) == {m \in S : l <= m}
           B == {Above(l) : l \in S}
<1>1. PICK s \in B : \A u \in SUBSET s : u # s => u \notin B
  <2>1. B # {} /\ B \in SUBSET (SUBSET S)
    OBVIOUS
  <2>2. IsFiniteSet(S)
    BY FS_Subset, LineFacts
  <2> HIDE DEF B
  <2> QED
    BY <2>1, <2>2, SmallestSubset
<1>2. PICK l \in S : s = Above(l)
  OBVIOUS
<1>3. \A m \in S : l \in Int /\ m \in Int
  BY LineFacts
<1>4. ASSUME NEW m \in S, ~ (m <= l)
      PROVE  FALSE
  <2>1. \A k \in S : m <= k => l <= k
    BY <1>3, <1>4
  <2>2. Above(m) \in SUBSET s /\ Above(m) # s /\ Above(m) \in B
    BY <1>2, <1>3, <1>4, <2>1
  <2> QED
    BY <1>1, <2>2
<1> QED
  BY <1>4 DEF Server!Last

-----------------------------------------------------------------------------
(* The calls                                                               *)

LEMMA EmptyLines == Server!Empty \in Lines /\ Server!Empty \in Server!Row
<1>1. (CHOOSE t \in Ticker : TRUE) \in Ticker
  BY TickerAssumption
<1> QED
  BY <1>1, WholeAssumption DEF Server!Empty, Server!Row, Line, Lines

LEMMA CallFacts ==
  /\ NoCall.op = "none" /\ ~ NoCall.watched
  /\ \A m \in Mutation : m.op # "none" /\ m # NoCall
  /\ NoDraft \in Draft /\ NoRows \in Lines
<1>1. 0 \in 0 .. MaxCommits
  BY CommitsAssumption
<1>2. NoDraft \in Draft
  BY <1>1 DEF NoDraft, Draft, NoFields, Fields
<1>3. \A m \in Mutation : m.op # "none"
  BY DEF Mutation, DetailOps, ListOps
<1> QED
  BY <1>2, <1>3, EmptyLines DEF NoCall, NoRows

(* A call that has begun: what is saved from an editor is valid.           *)
Sound(m) ==
  m.stage = "sent" =>
    /\ m.op = "create" => m.draft.now.name \in Text
    /\ m.op = "holdings" => m.rows \in Server!Payload

SentInv == \A c \in Call : call[c] # NoCall => Sound(call[c])

(* What a step does to one place for a call: it ends there, goes on, or    *)
(* begins.                                                                 *)
GoesOn(m, n) ==
  /\ m \in Mutation /\ n \in Mutation
  /\ n.op = m.op
  /\ n.watched => m.watched
  /\ \/ n.closed = m.closed
     \/ m.watched /\ m.op = dialog /\ dialog' = "none"
        /\ dialog \in {"meta", "holdings", "create"}
  /\ \/ n.stage = m.stage /\ n.commit = m.commit /\ n.draft = m.draft /\ n.rows = m.rows
     \/ n.stage = "committed" /\ n.commit = commits'

Begins(m, n) ==
  /\ m = NoCall /\ n \in Mutation
  /\ ~ n.closed /\ n.stage = "sent" /\ n.commit = 0
  /\ Sound(n)
  /\ n.op = "meta" => dialog = "meta" /\ n.draft = draft
  /\ n.op \in DetailOps => Shown \/ dialog = n.op
  /\ UNCHANGED <<database, own, detail>>

CallStep == \A c \in Call : call'[c] = NoCall \/ GoesOn(call[c], call'[c]) \/ Begins(call[c], call'[c])

LEMMA CallStays ==
  ASSUME TypeOK, NEW m \in {NoCall} \cup Mutation
  PROVE  m = NoCall \/ GoesOn(m, m)
  BY DEF GoesOn

LEMMA DoneStep ==
  ASSUME TypeOK, NEW c, call' = Done(c)
  PROVE  CallStep
<1> SUFFICES ASSUME NEW e \in Call
             PROVE  call'[e] = NoCall \/ GoesOn(call[e], call'[e])
  BY DEF CallStep
<1>1. call'[e] = NoCall \/ call'[e] = call[e]
  BY DEF Done, TypeOK
<1> QED
  BY <1>1, CallStays DEF TypeOK

LEMMA SameCalls ==
  ASSUME TypeOK, call' = call
  PROVE  CallStep
  BY CallStays DEF CallStep, TypeOK

LEMMA UnwatchedStep ==
  ASSUME TypeOK, NEW calls, calls = call \/ \E c \in Call : calls = Done(c),
         call' = Unwatched(calls)
  PROVE  CallStep
<1> SUFFICES ASSUME NEW e \in Call
             PROVE  call'[e] = NoCall \/ GoesOn(call[e], call'[e])
  BY DEF CallStep
<1>1. call[e] \in {NoCall} \cup Mutation
  BY DEF TypeOK
<1>2. calls[e] = call[e] \/ calls[e] = NoCall
  BY DEF Done, TypeOK
<1>3. call'[e] = calls[e] \/ (calls[e] # NoCall /\ call'[e] = [calls[e] EXCEPT !.watched = FALSE])
  BY DEF Unwatched
<1>4. ASSUME NEW m \in Mutation
      PROVE  GoesOn(m, [m EXCEPT !.watched = FALSE])
  BY DEF GoesOn, Mutation
<1> QED
  BY <1>1, <1>2, <1>3, <1>4, CallStays

LEMMA DismissStep ==
  ASSUME TypeOK, Dismiss, dialog \in {"meta", "holdings", "create"}
  PROVE  CallStep
<1> SUFFICES ASSUME NEW e \in Call
             PROVE  call'[e] = NoCall \/ GoesOn(call[e], call'[e])
  BY DEF CallStep
<1>1. call[e] \in {NoCall} \cup Mutation
  BY DEF TypeOK
<1>2. dialog' = "none"
  BY DEF Dismiss, Close
<1>3. CASE call'[e] = call[e]
  BY <1>1, <1>3, CallStays
<1>4. CASE call[e].watched /\ call[e].op = dialog /\ call'[e] = [call[e] EXCEPT !.closed = TRUE]
  <2>1. call[e] \in Mutation
    BY <1>1, <1>4, CallFacts
  <2> QED
    BY <1>2, <1>4, <2>1 DEF GoesOn, Mutation
<1> QED
  BY <1>3, <1>4 DEF Dismiss

LEMMA ReplyStep ==
  ASSUME TypeOK, NEW c \in Call, AtServer(c), Reply(c), commits' \in 0 .. MaxCommits
  PROVE  CallStep
<1> SUFFICES ASSUME NEW e \in Call
             PROVE  call'[e] = NoCall \/ GoesOn(call[e], call'[e])
  BY DEF CallStep
<1>1. CASE e # c
  BY <1>1, CallStays DEF Reply, TypeOK
<1>2. CASE e = c
  <2>1. call[c] \in Mutation
    BY DEF AtServer, TypeOK
  <2>2. call'[c] = [call[c] EXCEPT !.stage = "committed", !.commit = commits',
                                   !.draft = NoDraft, !.rows = NoRows]
    BY DEF Reply, TypeOK
  <2>3. GoesOn(call[c], call'[c])
    BY <2>1, <2>2, CallFacts DEF GoesOn, Mutation, Lines, Line
  <2> QED
    BY <1>2, <2>3
<1> QED
  BY <1>1, <1>2

LEMMA MutateStep ==
  ASSUME TypeOK, NEW op \in DetailOps \cup ListOps, NEW d \in Draft, NEW f \in Lines,
         Mutate(op, d, f),
         op = "create" => d.now.name \in Text,
         op = "holdings" => f \in Server!Payload,
         op = "meta" => dialog = "meta" /\ d = draft,
         op \in DetailOps => Shown \/ dialog = op
  PROVE  CallStep
<1>1. PICK c \in Call :
        /\ call[c] = NoCall
        /\ call' = [call EXCEPT ![c] =
                     [op |-> op, watched |-> Open(ScreenOf(op)), closed |-> FALSE,
                      stage |-> "sent", commit |-> 0, draft |-> d, rows |-> f]]
  BY DEF Mutate
<1> SUFFICES ASSUME NEW e \in Call
             PROVE  call'[e] = NoCall \/ GoesOn(call[e], call'[e]) \/ Begins(call[e], call'[e])
  BY DEF CallStep
<1>2. CASE e # c
  BY <1>1, <1>2, CallStays DEF TypeOK
<1>3. CASE e = c
  <2> DEFINE m == [op |-> op, watched |-> Open(ScreenOf(op)), closed |-> FALSE,
                   stage |-> "sent", commit |-> 0, draft |-> d, rows |-> f]
  <2>1. call'[e] = m
    BY <1>1, <1>3 DEF TypeOK
  <2>2. m \in Mutation
    BY CommitsAssumption DEF Mutation, Open, Lines, Line
  <2>3. Begins(NoCall, m)
    BY <2>2 DEF Begins, Sound, Mutate
  <2> QED
    BY <1>1, <1>3, <2>1, <2>3
<1> QED
  BY <1>2, <1>3

LEMMA ChangeType ==
  ASSUME TypeOK, Change
  PROVE  commits' \in 0 .. MaxCommits /\ commits' = commits + 1
  BY CommitsAssumption DEF TypeOK, Change

LEMMA UseCalls ==
  ASSUME TypeOK, Use
  PROVE  CallStep
<1>1. CASE OpenEditMeta \/ TypeMeta \/ OpenEditHoldings \/ AskDelete \/ OpenCreate
  BY <1>1, SameCalls DEF OpenEditMeta, TypeMeta, OpenEditHoldings, AskDelete, OpenCreate, Screen
<1>2. CASE PullToRefresh \/ OpenDetail \/ OpenList
  BY <1>2, SameCalls DEF PullToRefresh, OpenDetail, OpenList
<1>3. CASE TapToggle
  BY <1>3, CallFacts, MutateStep DEF TapToggle, DetailOps, ListOps
<1>4. CASE ToggleListed
  BY <1>4, CallFacts, MutateStep DEF ToggleListed, ListOps, DetailOps
<1>5. CASE SaveMeta
  <2>1. draft \in Draft /\ dialog = "meta" /\ Mutate("meta", draft, NoRows)
    BY <1>5 DEF SaveMeta, TypeOK
  <2> QED
    BY <2>1, CallFacts, MutateStep DEF DetailOps
<1>6. CASE SaveHoldings
  <2>1. PICK f \in Savable : Mutate("holdings", NoDraft, f)
    BY <1>6 DEF SaveHoldings
  <2>3. dialog = "holdings"
    BY <1>6 DEF SaveHoldings
  <2>2. f \in Lines /\ f \in Server!Payload
    BY TypedAssumption DEF Savable, Lines, Line, Server!Line
  <2> QED
    BY <2>1, <2>2, <2>3, CallFacts, MutateStep DEF DetailOps
<1>7. CASE AnswerDelete
  <2>1. CASE Screen
    BY <2>1, SameCalls DEF Screen
  <2>2. CASE Mutate(dialog, NoDraft, NoRows)
    <3>1. dialog \in {"delete", "list_delete"}
      BY <1>7 DEF AnswerDelete
    <3> QED
      BY <2>2, <3>1, CallFacts, MutateStep DEF DetailOps, ListOps
  <2> QED
    BY <1>7, <2>1, <2>2 DEF AnswerDelete
<1>8. CASE Create
  <2>1. PICK n \in Text, d \in Text \cup {Blank} :
          Mutate("create", [NoDraft EXCEPT !.now = [name |-> n, description |-> d]], NoRows)
    BY <1>8 DEF Create
  <2> DEFINE new == [NoDraft EXCEPT !.now = [name |-> n, description |-> d]]
  <2>2. new \in Draft /\ new.now.name \in Text
    BY CommitsAssumption DEF NoDraft, Draft, Fields
  <2> QED
    BY <2>1, <2>2, CallFacts, MutateStep DEF ListOps, DetailOps
<1>9. CASE CancelEdit \/ CancelCreate
  BY <1>9, DismissStep DEF CancelEdit, CancelCreate
<1>10. CASE Back
  BY <1>10, UnwatchedStep DEF Back
<1> QED
  BY <1>1, <1>2, <1>3, <1>4, <1>5, <1>6, <1>7, <1>8, <1>9, <1>10 DEF Use

LEMMA SucceedCalls ==
  ASSUME TypeOK, NEW c \in Call, Succeed(c)
  PROVE  CallStep
<1>1. CASE SucceedDetail(c)
  BY <1>1, DoneStep DEF SucceedDetail
<1>2. CASE SucceedDelete(c)
  <2>1. call' = Unwatched(Done(c))
    BY <1>2 DEF SucceedDelete
  <2> QED
    BY <2>1, UnwatchedStep
<1>3. CASE SucceedCreate(c)
  BY <1>3, DoneStep DEF SucceedCreate
<1>4. CASE SucceedListed(c)
  BY <1>4, DoneStep DEF SucceedListed
<1> QED
  BY <1>1, <1>2, <1>3, <1>4 DEF Succeed

LEMMA EveryCallStep ==
  ASSUME TypeOK, [Next]_vars
  PROVE  CallStep
<1>1. CASE UNCHANGED vars
  BY <1>1, SameCalls DEF vars
<1>2. CASE Use
  BY <1>2, UseCalls
<1>3. CASE Fetch \/ ServeOther
  BY <1>3, SameCalls DEF Fetch, ServeOther
<1>4. ASSUME NEW c \in Call, Serve(c)
      PROVE  CallStep
  <2>1. AtServer(c) /\ Change /\ Reply(c)
    BY <1>4 DEF Serve
  <2>2. commits' \in 0 .. MaxCommits
    BY <2>1, ChangeType
  <2> QED
    BY <2>1, <2>2, ReplyStep
<1>5. ASSUME NEW c \in Call, Succeed(c)
      PROVE  CallStep
  BY <1>5, SucceedCalls
<1>6. ASSUME NEW c \in Call, Fail(c)
      PROVE  CallStep
  BY <1>6, DoneStep DEF Fail
<1> QED
  BY <1>1, <1>2, <1>3, <1>4, <1>5, <1>6 DEF Next

LEMMA StepSent == TypeOK /\ SentInv /\ [Next]_vars => SentInv'
<1> SUFFICES ASSUME TypeOK, SentInv, [Next]_vars, NEW c \in Call, call'[c] # NoCall
             PROVE  Sound(call'[c])
  BY DEF SentInv, Sound, Server!Payload
<1>1. GoesOn(call[c], call'[c]) \/ Begins(call[c], call'[c])
  BY EveryCallStep DEF CallStep
<1>2. ASSUME GoesOn(call[c], call'[c])
      PROVE  Sound(call'[c])
  <2>1. Sound(call[c])
    BY <1>2, CallFacts DEF GoesOn, SentInv
  <2> QED
    BY <1>2, <2>1 DEF GoesOn, Sound
<1>3. ASSUME Begins(call[c], call'[c])
      PROVE  Sound(call'[c])
  BY <1>3 DEF Begins
<1> QED
  BY <1>1, <1>2, <1>3

-----------------------------------------------------------------------------
(* The server                                                              *)

(* The rows are those of the last update; of a ticker that is not blurred  *)
(* there is one at most, and it is told.                                   *)
Telling(rows, what, t) ==
  /\ \A l, m \in Server!Naming(rows, t) : l = m
  /\ \A l \in Server!Naming(rows, t) : what[t] = rows[l].part
  /\ Server!Naming(rows, t) = {} => what[t] = 0

RowsInv ==
  /\ row = Server!Empty \/ \E p \in Server!Payload : row = Server!Rows(p)
  /\ told \in [Ticker -> 0 .. Whole + 1]
  /\ blurred \subseteq Ticker
  /\ \A t \in Ticker \ blurred : Telling(row, told, t)

Updated ==
  \/ UNCHANGED holdings
  \/ Server!Cascade
  \/ \E p \in Server!Payload : Server!Replace(p)

LEMMA ServerStep ==
  ASSUME TypeOK, SentInv, ServeOther \/ \E c \in Call : Serve(c)
  PROVE  /\ commits' = commits + 1 /\ commits' \in 0 .. MaxCommits
         /\ portfolio' \in Portfolio
         /\ Updated
         /\ UNCHANGED <<detail, editors, own>>
<1>1. commits' = commits + 1 /\ commits' \in 0 .. MaxCommits
  BY ChangeType DEF ServeOther, Serve
<1>2. ASSUME NEW f \in Fields, UpdatePortfolio(f)
      PROVE  portfolio' \in Portfolio /\ Updated
  <2>1. portfolio \in Portfolio
    BY DEF TypeOK
  <2>2. /\ Given(f.name, portfolio.name) \in Text
        /\ Given(f.description, portfolio.description) \in Text \cup {Blank}
    BY <2>1 DEF Given, Fields, Portfolio
  <2>3. portfolio' = [portfolio EXCEPT !.name = Given(f.name, portfolio.name),
                                       !.description = Given(f.description, portfolio.description)]
    BY <1>2 DEF UpdatePortfolio
  <2>4. portfolio' \in Portfolio
    BY <2>1, <2>2, <2>3 DEF Portfolio
  <2> QED
    BY <1>2, <2>4 DEF UpdatePortfolio, Updated
<1>3. ASSUME TogglePortfolio
      PROVE  portfolio' \in Portfolio /\ Updated
  BY <1>3 DEF TogglePortfolio, Updated, TypeOK
<1>4. ASSUME DeletePortfolio
      PROVE  portfolio' \in Portfolio /\ Updated
  BY <1>4 DEF DeletePortfolio, Updated, TypeOK, Portfolio
<1>5. ASSUME NEW f \in Server!Payload, UpdateHoldings(f)
      PROVE  portfolio' \in Portfolio /\ Updated
  BY <1>5 DEF UpdateHoldings, Updated, TypeOK
<1>6. CASE ServeOther
  <2>1. ASSUME NEW n \in Text, NEW d \in Text \cup {Blank}
        PROVE  [name |-> n, description |-> d] \in Fields
    BY DEF Fields
  <2> QED
    BY <1>1, <1>2, <1>3, <1>4, <1>5, <1>6, <2>1 DEF ServeOther, Savable
<1>7. ASSUME NEW c \in Call, Serve(c)
      PROVE  portfolio' \in Portfolio /\ Updated /\ UNCHANGED <<detail, editors, own>>
  <2>1. call[c] \in Mutation /\ call[c].stage = "sent" /\ Sound(call[c]) /\ Handle(c)
    BY <1>7 DEF Serve, AtServer, TypeOK, SentInv
  <2>2. call[c].draft.now \in Fields
    BY <2>1 DEF Mutation, Draft
  <2>3. CASE call[c].op = "create" /\ CreatePortfolio(call[c].draft.now)
    <3>1. call[c].draft.now.name \in Text /\ call[c].draft.now.description \in Text \cup {Blank}
      BY <2>1, <2>2, <2>3 DEF Sound, Fields
    <3>2. portfolio' \in Portfolio
      BY <2>3, <3>1 DEF CreatePortfolio, TypeOK, Portfolio
    <3> QED
      BY <1>7, <2>3, <3>2 DEF CreatePortfolio, Updated, Serve
  <2>4. CASE call[c].op = "holdings" /\ UpdateHoldings(call[c].rows)
    <3>1. call[c].rows \in Server!Payload
      BY <2>1, <2>4 DEF Sound
    <3> QED
      BY <1>5, <1>7, <2>4, <3>1 DEF Serve
  <2> QED
    BY <1>2, <1>3, <1>4, <1>7, <2>1, <2>2, <2>3, <2>4 DEF Handle, Serve
<1> QED
  BY <1>1, <1>6, <1>7

LEMMA StoredFacts ==
  ASSUME NEW half \in 0 .. 2 * Whole + 2
  PROVE  /\ Server!Stored(half) \in 0 .. Whole + 1
         /\ Server!Stored(half) = 0 <=> half = 0
         /\ \A pct \in Nat : 2 * pct = half => Server!Stored(half) = pct
  BY WholeAssumption DEF Server!Stored

LEMMA RowsFacts ==
  ASSUME NEW p \in Server!Payload
  PROVE  /\ \A l \in Line : p[l].ticker \in Ticker /\ p[l].part \in 0 .. 2 * Whole + 2
         /\ Server!Rows(p) \in Server!Row
         /\ \A t : Server!Naming(Server!Rows(p), t) = Server!Naming(p, t)
         /\ \A l \in Line : Server!Rows(p)[l].part = Server!Stored(p[l].part)
<1>1. \A l \in Line : p[l].ticker \in Ticker /\ p[l].part \in 0 .. 2 * Whole + 2
  BY DEF Server!Payload, Server!Tolerance, Line
<1>2. \A l \in Line : /\ Server!Rows(p)[l].part = Server!Stored(p[l].part)
                      /\ Server!Rows(p)[l].ticker = p[l].ticker
  BY DEF Server!Rows, Line
<1>3. Server!Rows(p) \in Server!Row
  BY <1>1, StoredFacts DEF Server!Rows, Server!Row, Line
<1>4. \A t : Server!Naming(Server!Rows(p), t) = Server!Naming(p, t)
  BY <1>1, <1>2, StoredFacts DEF Server!Naming, Line
<1> QED
  BY <1>1, <1>2, <1>3, <1>4

LEMMA RowsType ==
  ASSUME NEW r, r = Server!Empty \/ \E p \in Server!Payload : r = Server!Rows(p)
  PROVE  r \in Server!Row
  BY RowsFacts, EmptyLines

LEMMA EmptyTelling ==
  \A t \in Ticker : Server!Naming(Server!Empty, t) = {} /\ Telling(Server!Empty, Server!Untold, t)
<1>1. \A t \in Ticker : Server!Naming(Server!Empty, t) = {}
  BY DEF Server!Naming, Server!Empty, Line
<1> QED
  BY <1>1 DEF Telling, Server!Untold

(* What the dictionaries hold of a ticker that is named once, or not.      *)
LEMMA MapFacts ==
  ASSUME NEW p \in Server!Payload, NEW t \in Ticker
  PROVE  /\ Server!NewMap(p)[t] \in 0 .. 2 * Whole + 2
         /\ Server!Naming(p, t) = {} => Server!NewMap(p)[t] = 0
         /\ \A l \in Server!Naming(p, t) :
              (\A m \in Server!Naming(p, t) : m = l) => Server!NewMap(p)[t] = p[l].part
<1>1. Server!NewMap(p)[t] = IF Server!Naming(p, t) = {} THEN 0
                            ELSE p[Server!Last(Server!Naming(p, t))].part
  BY DEF Server!NewMap
<1>2. Server!Naming(p, t) \in SUBSET Line
  BY DEF Server!Naming, Line
<1> QED
  BY <1>1, <1>2, LastIn, RowsFacts, WholeAssumption

(* What is told or unchanged is what is stored.                            *)
LEMMA StepRows == RowsInv /\ Updated => RowsInv'
<1> SUFFICES ASSUME RowsInv, Updated
             PROVE  RowsInv'
  OBVIOUS
<1>1. CASE UNCHANGED holdings
  <2>1. row' = row /\ told' = told /\ blurred' = blurred
    BY <1>1 DEF holdings
  <2> QED
    BY <2>1 DEF RowsInv
<1>2. CASE Server!Cascade
  <2>1. row' = Server!Empty /\ told' = Server!Untold /\ blurred' = {}
    BY <1>2 DEF Server!Cascade
  <2>2. Server!Untold \in [Ticker -> 0 .. Whole + 1]
    BY WholeAssumption DEF Server!Untold
  <2> QED
    BY <2>1, <2>2, EmptyTelling DEF RowsInv
<1>3. ASSUME NEW p \in Server!Payload, Server!Replace(p)
      PROVE  RowsInv'
  <2> DEFINE new == Server!NewMap(p)
  <2>1. PICK old \in Server!OldMaps :
          /\ told' = [t \in Ticker |-> IF t \in Server!Changed(old, new)
                                       THEN Server!Stored(new[t]) ELSE told[t]]
          /\ blurred' = (blurred \ Server!Changed(old, new)) \cup Server!Twice(p)
    BY <1>3 DEF Server!Replace
  <2>2. row' = Server!Rows(p)
    BY <1>3 DEF Server!Replace
  <2>3. told' \in [Ticker -> 0 .. Whole + 1]
    <3>1. \A t \in Ticker : Server!Stored(new[t]) \in 0 .. Whole + 1
      BY MapFacts, StoredFacts
    <3> QED
      BY <2>1, <3>1 DEF RowsInv
  <2>4. blurred' \subseteq Ticker
    BY <2>1 DEF RowsInv, Server!Twice
  <2>5. ASSUME NEW t \in Ticker, t \notin blurred'
        PROVE  Telling(row', told', t)
    <3> DEFINE named == Server!Naming(p, t)
    <3>1. \A l, m \in named : l = m
      BY <2>1, <2>5 DEF Server!Twice
    <3>2. Server!Naming(row', t) = named /\ named \subseteq Line
      BY <2>2, RowsFacts DEF Server!Naming, Line
    <3>3. /\ new[t] \in 0 .. 2 * Whole + 2
          /\ named = {} => new[t] = 0
          /\ \A l \in named : new[t] = p[l].part
      BY <3>1, MapFacts
    <3>4. CASE t \in Server!Changed(old, new)
      <4>1. told'[t] = Server!Stored(new[t])
        BY <2>1, <3>4
      <4>2. \A l \in named : row'[l].part = Server!Stored(new[t])
        BY <2>2, <3>2, <3>3, RowsFacts
      <4>3. named = {} => Server!Stored(new[t]) = 0
        BY <3>3, StoredFacts
      <4> QED
        BY <3>1, <3>2, <4>1, <4>2, <4>3 DEF Telling
    <3>5. CASE t \notin Server!Changed(old, new)
      <4>1. told'[t] = told[t] /\ t \notin blurred
        BY <2>1, <2>5, <3>5
      <4>2. 2 * old[t] = new[t] /\ (old[t] = 0 <=> new[t] = 0)
        BY <3>5 DEF Server!Changed
      <4>3. old[t] = told[t]
        <5>1. Telling(row, told, t)
          BY <4>1 DEF RowsInv
        <5>2. old[t] \in Server!Parts(t)
          BY DEF Server!OldMaps
        <5> QED
          BY <5>1, <5>2 DEF Telling, Server!Parts
      <4>4. told[t] \in Nat
        BY WholeAssumption DEF RowsInv
      <4>5. Server!Stored(new[t]) = told[t]
        BY <3>3, <4>2, <4>3, <4>4, StoredFacts
      <4>6. \A l \in named : row'[l].part = told[t]
        BY <2>2, <3>2, <3>3, <4>5, RowsFacts
      <4>7. named = {} => told[t] = 0
        BY <3>3, <4>2, <4>3
      <4> QED
        BY <3>1, <3>2, <4>1, <4>6, <4>7 DEF Telling
    <3> QED
      BY <3>4, <3>5
  <2> QED
    BY <1>3, <2>2, <2>3, <2>4, <2>5 DEF RowsInv, Server!Payload, Server!Rows
<1> QED
  BY <1>1, <1>2, <1>3 DEF Updated

LEMMA SameHoldings ==
  ASSUME TypeOK, [Next]_vars
  PROVE  UNCHANGED database \/ ServeOther \/ \E c \in Call : Serve(c)
<1>1. CASE UNCHANGED vars
  BY <1>1 DEF vars
<1>2. CASE Use
  BY <1>2 DEF Use, OpenEditMeta, TapToggle, PullToRefresh, TypeMeta, SaveMeta, OpenEditHoldings,
              SaveHoldings, CancelEdit, AskDelete, AnswerDelete, ToggleListed, OpenDetail,
              OpenCreate, Create, CancelCreate, Back, OpenList, Screen, Mutate, Dismiss
<1>3. CASE Fetch
  BY <1>3 DEF Fetch
<1> QED
  BY <1>1, <1>2, <1>3 DEF Next, Succeed, Fail

-----------------------------------------------------------------------------
(* The screens                                                             *)

Stacks == {<<>>, <<"list">>, <<"list", "detail">>, <<"detail">>}

(* The detail is nowhere but on top.                                       *)
LEMMA StackFacts ==
  ASSUME TypeOK
  PROVE  /\ Open("detail") <=> At("detail")
         /\ At("detail") <=> stack \in {<<"list", "detail">>, <<"detail">>}
         /\ Pop \in {<<>>, <<"list">>}
         /\ ~ At("detail") => Append(stack, "detail") \in Stacks
<1>1. CASE stack = <<>>
  BY <1>1 DEF Open, At, Pop, Stacks
<1>2. CASE stack = <<"list">>
  <2>1. Len(stack) = 1 /\ stack[1] = "list"
    BY <1>2
  <2>2. SubSeq(stack, 1, 0) = <<>>
    BY <1>2
  <2>3. Append(stack, "detail") = <<"list", "detail">>
    <3> DEFINE Names == {"list", "detail"}
               new == Append(stack, "detail")
               two == <<"list", "detail">>
    <3>1. stack \in Seq(Names) /\ two \in Seq(Names) /\ Len(two) = 2 /\ "detail" \in Names
      BY <1>2
    <3>2. /\ new \in Seq(Names) /\ Len(new) = Len(stack) + 1 /\ new[Len(stack) + 1] = "detail"
          /\ \A i \in 1 .. Len(stack) : new[i] = stack[i]
      <4> HIDE DEF Names
      <4> QED
        BY <3>1, AppendProperties
    <3> HIDE DEF Names, new
    <3>3. \A i \in 1 .. Len(new) : new[i] = two[i]
      BY <2>1, <3>2
    <3>4. Len(new) = Len(two)
      BY <2>1, <3>1, <3>2
    <3>5. new = two
      BY <3>1, <3>2, <3>3, <3>4, SeqEqual
    <3> QED
      BY <3>5 DEF new
  <2> QED
    BY <1>2, <2>1, <2>2, <2>3 DEF Open, At, Pop, Stacks
<1>3. CASE stack = <<"list", "detail">>
  <2>1. Len(stack) = 2 /\ stack[1] = "list" /\ stack[2] = "detail"
    BY <1>3
  <2>2. SubSeq(stack, 1, 1) = <<"list">>
    <3> DEFINE new == SubSeq(stack, 1, 1)
    <3>1. \A i \in 1 .. 1 : stack[i] \in {"list", "detail"}
      BY <2>1
    <3>2. new \in Seq({"list", "detail"}) /\ Len(new) = 1
      BY <3>1, SubSeqProperties
    <3>3. \A i \in 1 .. 1 - 1 + 1 : new[i] = stack[1 + i - 1]
      BY <3>1, SubSeqProperties
    <3>4. new[1] = "list"
      BY <2>1, <3>3
    <3>5. <<"list">> \in Seq({"list", "detail"}) /\ Len(<<"list">>) = 1
      OBVIOUS
    <3>6. \A i \in 1 .. Len(new) : new[i] = <<"list">>[i]
      BY <3>2, <3>4
    <3> QED
      BY <3>2, <3>5, <3>6, SeqEqual
  <2> QED
    BY <1>3, <2>1, <2>2 DEF Open, At, Pop, Stacks
<1>4. CASE stack = <<"detail">>
  <2>1. Len(stack) = 1 /\ stack[1] = "detail"
    BY <1>4
  <2>2. SubSeq(stack, 1, 0) = <<>>
    BY <1>4
  <2> QED
    BY <1>4, <2>1, <2>2 DEF Open, At, Pop, Stacks
<1> QED
  BY <1>1, <1>2, <1>3, <1>4 DEF TypeOK

LEMMA OpenPrime ==
  ASSUME stack' \in {<<>>, <<"list">>}
  PROVE  ~ Open("detail")'
<1>1. CASE stack' = <<>>
  BY <1>1 DEF Open
<1>2. CASE stack' = <<"list">>
  <2>1. Len(stack') = 1 /\ stack'[1] = "list"
    BY <1>2
  <2> QED
    BY <1>2, <2>1 DEF Open
<1> QED
  BY <1>1, <1>2

LEMMA QueryFacts ==
  ASSUME TypeOK
  PROVE  /\ Now \in Answer
         /\ \A q \in Query :
              /\ Refetch(q) \in Query /\ Asked(q) \in Query
              /\ Answered(q) \in Query /\ Arrived(q) \in Query
              /\ \A used \in BOOLEAN : Invalidate(q, used) \in Query
              /\ Mounted(q) \subseteq Query
<1>1. Now \in Answer
  BY DEF Now, Answer, TypeOK, Portfolio
<1>2. ASSUME NEW q \in Query
      PROVE  Refetch(q) \in Query /\ Answered(q) \in Query /\ Arrived(q) \in Query
             /\ [q EXCEPT !.invalid = TRUE] \in Query
  BY <1>1 DEF Query, Refetch, Asked, Answered, Arrived
<1>3. \A q \in Query : Asked(q) \in Query
  BY DEF Query, Asked
<1> QED
  BY <1>1, <1>2, <1>3 DEF Invalidate, Mounted

LEMMA FetchType ==
  ASSUME TypeOK, FetchStep(detail, detail', Present)
  PROVE  detail' \in Query
  BY QueryFacts DEF TypeOK, FetchStep

LEMMA CloseType ==
  ASSUME TypeOK, NEW d, Close(d)
  PROVE  /\ draft' \in Draft
         /\ \/ dialog' = dialog /\ draft' = draft
            \/ dialog' = "none"
<1>1. draft.now.description \in Text \cup {Blank} /\ 0 \in 0 .. MaxCommits
  BY CommitsAssumption DEF TypeOK, Draft, Fields
<1>2. [NoDraft EXCEPT !.now.description = draft.now.description] \in Draft
  BY <1>1 DEF NoDraft, NoFields, Draft, Fields
<1> QED
  BY <1>2 DEF Close, TypeOK

(* What the editors may hold and which of them may be open.                *)
Dialogs == {"none", "meta", "holdings", "delete", "create", "list_delete"}
Editing == stack' \in Stacks /\ dialog' \in Dialogs /\ draft' \in Draft

LEMMA TypeMetaForm ==
  ASSUME TypeOK, TypeMeta
  PROVE  /\ draft' \in Draft /\ draft'.commit = draft.commit
         /\ draft.edited \subseteq draft'.edited
         /\ \A f \in {"name", "description"} \ draft'.edited : draft'.now[f] = draft.now[f]
<1>1. draft \in Draft /\ draft.now \in Fields
  BY DEF TypeOK, Draft
<1>2. ASSUME NEW t \in Text,
             draft' = [draft EXCEPT !.now = [@ EXCEPT !.name = t], !.edited = @ \cup {"name"}]
      PROVE  /\ draft' \in Draft /\ draft'.commit = draft.commit
             /\ draft'.edited = draft.edited \cup {"name"}
             /\ draft'.now.description = draft.now.description
  BY <1>1, <1>2 DEF Draft, Fields
<1>3. ASSUME NEW t \in Text \cup {Blank},
             draft' = [draft EXCEPT !.now = [@ EXCEPT !.description = t],
                                    !.edited = @ \cup {"description"}]
      PROVE  /\ draft' \in Draft /\ draft'.commit = draft.commit
             /\ draft'.edited = draft.edited \cup {"description"}
             /\ draft'.now.name = draft.now.name
  BY <1>1, <1>3 DEF Draft, Fields
<1> QED
  BY <1>2, <1>3 DEF TypeMeta

OwnType == mine \in 0 .. MaxCommits /\ missed \in BOOLEAN

LEMMA TellType ==
  ASSUME TypeOK, NEW c \in Call, call[c] # NoCall, NEW heard, Tell(c, heard)
  PROVE  OwnType'
<1>1. call[c].commit \in 0 .. MaxCommits
  BY DEF TypeOK, Mutation
<1> QED
  BY <1>1 DEF Tell, OwnType, TypeOK

LEMMA UseTypes ==
  ASSUME TypeOK, Use
  PROVE  Editing /\ detail' \in Query /\ OwnType'
<1> USE DEF Editing, Stacks, Dialogs
<1>1. ASSUME Screen \/ UNCHANGED <<detail, own>>
      PROVE  detail' \in Query /\ OwnType'
  BY <1>1 DEF Screen, TypeOK, OwnType, own
<1>a. ASSUME UNCHANGED own PROVE OwnType'
  BY <1>a DEF TypeOK, OwnType, own
<1>2. CASE OpenEditMeta
  <2>1. detail.data \in Answer /\ 0 \in 0 .. MaxCommits
    BY <1>2, CommitsAssumption DEF OpenEditMeta, Shown, TypeOK, Query
  <2>2. draft' \in Draft
    BY <1>2, <2>1 DEF OpenEditMeta, Copied, Draft, Fields, Answer
  <2> QED
    BY <1>1, <1>2, <2>2 DEF OpenEditMeta, TypeOK
<1>3. CASE TypeMeta
  BY <1>1, <1>3, TypeMetaForm DEF TypeMeta, TypeOK
<1>4. CASE OpenEditHoldings \/ AskDelete \/ OpenCreate
  BY <1>1, <1>4 DEF OpenEditHoldings, AskDelete, OpenCreate, Show, TypeOK
<1>5. CASE TapToggle \/ SaveMeta \/ SaveHoldings \/ ToggleListed \/ Create
  BY <1>1, <1>5 DEF TapToggle, SaveMeta, SaveHoldings, ToggleListed, Create, Mutate, editors, TypeOK
<1>6. CASE AnswerDelete
  BY <1>1, <1>6 DEF AnswerDelete, Show, Mutate, Screen, TypeOK
<1>7. CASE CancelEdit \/ CancelCreate
  BY <1>1, <1>7, CloseType DEF CancelEdit, CancelCreate, Dismiss, TypeOK
<1>8. CASE PullToRefresh
  BY <1>a, <1>8, QueryFacts DEF PullToRefresh, editors, TypeOK
<1>9. CASE OpenDetail
  <2>1. stack = <<"list">> \/ ~ At("detail")
    BY <1>9, StackFacts DEF OpenDetail, OnList, At
  <2>2. ~ At("detail")
    BY <1>9 DEF OpenDetail, OnList, At
  <2> QED
    BY <1>a, <1>9, <2>2, StackFacts, QueryFacts DEF OpenDetail, TypeOK
<1>10. CASE Back
  BY <1>1, <1>10, StackFacts DEF Back, TypeOK
<1>11. CASE OpenList
  BY <1>1, <1>11 DEF OpenList, TypeOK
<1> QED
  BY <1>2, <1>3, <1>4, <1>5, <1>6, <1>7, <1>8, <1>9, <1>10, <1>11 DEF Use

LEMMA SucceedTypes ==
  ASSUME TypeOK, NEW c \in Call, Succeed(c)
  PROVE  Editing /\ detail' \in Query /\ OwnType'
<1> USE DEF Editing, Stacks, Dialogs
<1>1. ASSUME NEW heard, Tell(c, heard) PROVE OwnType'
  BY <1>1, TellType DEF Succeed
<1>2. CASE SucceedDetail(c)
  <2>1. Open("detail") \in BOOLEAN
    BY DEF Open
  <2>2. detail' \in Query
    BY <1>2, <2>1, QueryFacts DEF SucceedDetail, TypeOK
  <2> QED
    BY <1>1, <1>2, <2>2, CloseType DEF SucceedDetail, CloseEditor, TypeOK
<1>3. CASE SucceedDelete(c)
  BY <1>1, <1>3, StackFacts, CloseType DEF SucceedDelete, TypeOK
<1>4. CASE SucceedCreate(c)
  <2>1. draft' \in Draft /\ dialog' \in Dialogs
    BY <1>4, CloseType DEF SucceedCreate, CloseEditor, TypeOK
  <2>2. stack' \in Stacks /\ detail' \in Query
    BY <1>4, StackFacts, QueryFacts DEF SucceedCreate, TypeOK
  <2> QED
    BY <1>4, <2>1, <2>2 DEF SucceedCreate, TypeOK, OwnType, own
<1>5. CASE SucceedListed(c)
  BY <1>1, <1>5 DEF SucceedListed, editors, TypeOK
<1> QED
  BY <1>2, <1>3, <1>4, <1>5 DEF Succeed

LEMMA CallTypes ==
  ASSUME TypeOK, [Next]_vars
  PROVE  call' \in [Call -> {NoCall} \cup Mutation]
<1>1. \A c \in Call : call'[c] \in {NoCall} \cup Mutation
  BY EveryCallStep DEF CallStep, GoesOn, Begins
<1>2. call' = [c \in Call |-> call'[c]]
  <2>1. CASE UNCHANGED call
    BY <2>1 DEF TypeOK
  <2>2. CASE Use
    <3>1. call \in [Call -> {NoCall} \cup Mutation]
      BY DEF TypeOK
    <3>2. ASSUME NEW op, NEW d, NEW f, Mutate(op, d, f)
          PROVE  DOMAIN call' = Call /\ call' = [c \in Call |-> call'[c]]
      BY <3>1, <3>2 DEF Mutate
    <3>3. CASE Dismiss \/ call' = Unwatched(call)
      BY <3>3 DEF Dismiss, Unwatched
    <3> QED
      BY <2>1, <2>2, <3>2, <3>3
      DEF Use, OpenEditMeta, TapToggle, PullToRefresh, TypeMeta, SaveMeta, OpenEditHoldings,
          SaveHoldings, CancelEdit, AskDelete, AnswerDelete, ToggleListed, OpenDetail,
          OpenCreate, Create, CancelCreate, Back, OpenList, Screen
  <2>3. ASSUME NEW c \in Call, Serve(c) \/ Succeed(c) \/ Fail(c)
        PROVE  call' = [e \in Call |-> call'[e]]
    <3> DEFINE New(x) == [call EXCEPT ![c] = x]
    <3>0. \A x : New(x) = [e \in Call |-> New(x)[e]]
      BY DEF TypeOK
    <3>1. CASE Serve(c)
      <4>1. \E x : call' = New(x)
        BY <3>1 DEF Serve, Reply
      <4> QED
        BY <3>0, <4>1
    <3>2. CASE call' = Done(c)
      BY <3>0, <3>2 DEF Done
    <3>3. CASE call' = Unwatched(Done(c))
      BY <3>3 DEF Unwatched
    <3> QED
      BY <2>3, <3>1, <3>2, <3>3
      DEF Succeed, SucceedDetail, SucceedDelete, SucceedCreate, SucceedListed, Fail
  <2> QED
    BY <2>1, <2>2, <2>3 DEF Next, vars, Fetch, ServeOther
<1> QED
  BY <1>1, <1>2

(* The invariant of the types, the rows and the calls.                     *)
BaseInv == TypeOK /\ SentInv /\ RowsInv

LEMMA InitBase == Init => BaseInv
<1> SUFFICES ASSUME Init PROVE BaseInv
  OBVIOUS
<1>1. RowsInv
  <2>1. row = Server!Empty /\ told = Server!Untold /\ blurred = {}
    BY DEF Init, Server!Init
  <2>2. Server!Untold \in [Ticker -> 0 .. Whole + 1]
    BY WholeAssumption DEF Server!Untold
  <2> QED
    BY <2>1, <2>2, EmptyTelling DEF RowsInv
<1>2. Server!TypeOK
  BY <1>1, RowsType DEF RowsInv, Server!TypeOK
<1>3. \A c \in Call : call[c] = NoCall
  BY DEF Init
<1>4. /\ call \in [Call -> {NoCall} \cup Mutation]
      /\ draft \in Draft
      /\ commits \in 0 .. MaxCommits /\ mine \in 0 .. MaxCommits
  BY CallFacts, CommitsAssumption DEF Init
<1>5. portfolio \in Portfolio
  BY DEF Init, Portfolio
<1>6. detail \in Query
  BY DEF Init, NoQuery, Query
<1>7. TypeOK
  BY <1>2, <1>4, <1>5, <1>6 DEF Init, TypeOK
<1> QED
  BY <1>1, <1>3, <1>7 DEF BaseInv, SentInv

LEMMA StepBase == BaseInv /\ [Next]_vars => BaseInv'
<1> SUFFICES ASSUME BaseInv, [Next]_vars PROVE BaseInv'
  OBVIOUS
<1> USE DEF BaseInv
<1>1. SentInv'
  BY StepSent
<1>2. RowsInv' /\ commits' \in 0 .. MaxCommits /\ portfolio' \in Portfolio
  <2>1. CASE UNCHANGED database
    <3>1. RowsInv'
      BY <2>1, StepRows DEF database, Updated
    <3> QED
      BY <2>1, <3>1 DEF database, TypeOK
  <2>2. CASE ServeOther \/ \E c \in Call : Serve(c)
    BY <2>2, ServerStep, StepRows
  <2> QED
    BY <2>1, <2>2, SameHoldings
<1>3. Server!TypeOK'
  BY <1>2, RowsType DEF RowsInv, Server!TypeOK
<1>4. Editing /\ detail' \in Query /\ OwnType'
  <2>1. CASE UNCHANGED <<detail, editors, own>>
    BY <2>1 DEF Editing, editors, Stacks, Dialogs, TypeOK, OwnType, own
  <2>2. CASE Fetch
    BY <2>2, FetchType DEF Fetch, Editing, editors, Stacks, Dialogs, TypeOK, OwnType
  <2> QED
    BY <2>1, <2>2, UseTypes, SucceedTypes DEF Next, vars, ServeOther, Serve, Fail
<1>5. TypeOK'
  BY <1>2, <1>3, <1>4, CallTypes DEF TypeOK, Editing, Stacks, Dialogs, OwnType
<1> QED
  BY <1>1, <1>2, <1>5

(* The tables, the cached answers, the editors and the calls keep their    *)
(* types, whatever percentages are typed.                                  *)
THEOREM TypeCorrect == Spec => []TypeOK
<1>1. BaseInv => TypeOK
  BY DEF BaseInv
<1> QED
  BY <1>1, InitBase, StepBase, PTL DEF Spec

(* After any updates the newest history row of a ticker tells what is      *)
(* stored, unless the ticker was named twice and has not moved since.      *)
THEOREM HistoryIsTrue == Spec => []HistoryTells
<1>1. BaseInv => HistoryTells
  <2> SUFFICES ASSUME RowsInv, NEW t \in Ticker \ blurred
               PROVE  told[t] = IF Server!Naming(row, t) = {} THEN 0
                                ELSE row[Server!Last(Server!Naming(row, t))].part
    BY DEF BaseInv, HistoryTells, Server!HistoryTells
  <2>1. Telling(row, told, t)
    BY DEF RowsInv
  <2>2. Server!Naming(row, t) \in SUBSET Line
    BY DEF Server!Naming, Line
  <2> QED
    BY <2>1, <2>2, LastIn DEF Telling
<1> QED
  BY <1>1, InitBase, StepBase, PTL DEF Spec

(* For any lines and percentages the stored total is as close to the     *)
(* whole as the check and the rounding leave it.                           *)
THEOREM AllocationIsWhole == Spec => []AllocationBounded
<1>1. BaseInv => AllocationBounded
  <2> SUFFICES ASSUME RowsInv, Server!Total(row) # 0
               PROVE  2 * Server!Distance(Server!Total(row), Whole) <=
                        Server!Tolerance + MaxRows
    BY DEF BaseInv, AllocationBounded, Server!AllocationBounded
  <2>1. CASE row = Server!Empty
    BY <2>1, EmptyTotal
  <2>2. ASSUME NEW p \in Server!Payload, row = Server!Rows(p)
        PROVE  2 * Server!Distance(Server!Total(row), Whole) <=
                 Server!Tolerance + MaxRows
    <3>1. p \in Lines
      BY WholeAssumption DEF Server!Payload, Server!Tolerance, Lines, Line
    <3> DEFINE typed == Server!Total(p)
               stored == Server!Total(row)
    <3>2. typed \in Int /\ stored \in Int /\ 2 * stored - typed \in 0 .. MaxRows
      BY <2>2, <3>1, StoredTotal
    <3>3. Server!Distance(typed, 2 * Whole) <= 2
      BY DEF Server!Payload, Server!Tolerance
    <3>4. MaxRows \in Nat /\ Whole \in Nat
      BY RowsAssumption, WholeAssumption
    <3> HIDE DEF typed, stored
    <3>5. 2 * Server!Distance(stored, Whole) <= 2 + MaxRows
      BY <3>2, <3>3, <3>4 DEF Server!Distance
    <3> QED
      BY <3>5 DEF stored, Server!Tolerance
  <2> QED
    BY <2>1, <2>2 DEF RowsInv
<1> QED
  BY <1>1, InitBase, StepBase, PTL DEF Spec

-----------------------------------------------------------------------------
(* Editors that late answers close                                         *)

LEMMA DialogStep ==
  ASSUME TypeOK, [Next]_vars
  PROVE  \/ dialog' \in {dialog, "none", "delete", "list_delete"}
         \/ dialog' \in {"meta", "holdings"} /\ ~ Busy /\ UNCHANGED call
         \/ dialog' = "create" /\ ~ ListBusy /\ UNCHANGED call
<1>1. CASE OpenEditMeta \/ OpenEditHoldings
  BY <1>1 DEF OpenEditMeta, OpenEditHoldings, Show, OnDetail, Screen
<1>2. CASE OpenCreate
  BY <1>2 DEF OpenCreate, Show, OnList, Screen
<1>3. CASE AskDelete \/ AnswerDelete
  BY <1>3 DEF AskDelete, AnswerDelete, Show
<1>4. ASSUME NEW d, Close(d)
      PROVE  dialog' \in {dialog, "none"}
  BY <1>4 DEF Close
<1>5. CASE CancelEdit \/ CancelCreate
  BY <1>4, <1>5 DEF CancelEdit, CancelCreate, Dismiss
<1>6. CASE TapToggle \/ PullToRefresh \/ TypeMeta \/ SaveMeta \/ SaveHoldings \/ ToggleListed
           \/ OpenDetail \/ Create \/ Back \/ OpenList
  BY <1>6 DEF TapToggle, PullToRefresh, TypeMeta, SaveMeta, SaveHoldings, ToggleListed,
              OpenDetail, Create, Back, OpenList, editors
<1>7. ASSUME NEW c \in Call, Succeed(c)
      PROVE  dialog' \in {dialog, "none"}
  <2>1. CASE SucceedDetail(c) \/ SucceedCreate(c)
    BY <1>4, <2>1 DEF SucceedDetail, SucceedCreate, CloseEditor
  <2>2. CASE SucceedDelete(c)
    BY <1>4, <2>2 DEF SucceedDelete
  <2>3. CASE SucceedListed(c)
    BY <2>3 DEF SucceedListed, editors
  <2> QED
    BY <1>7, <2>1, <2>2, <2>3 DEF Succeed
<1>8. CASE UNCHANGED editors
  BY <1>8 DEF editors
<1> QED
  BY <1>1, <1>2, <1>3, <1>5, <1>6, <1>7, <1>8 DEF Next, Use, vars, Fetch, ServeOther, Serve, Fail

(* An editor that was closed is not open again while its call is watched.  *)
EditorInv ==
  \A c \in Call :
    call[c] # NoCall /\ call[c].closed =>
      /\ call[c].op \in {"meta", "holdings", "create"}
      /\ call[c].watched => call[c].op # dialog

LEMMA StepEditor == TypeOK /\ EditorInv /\ [Next]_vars => EditorInv'
<1> SUFFICES ASSUME TypeOK, EditorInv, [Next]_vars,
                    NEW c \in Call, call'[c] # NoCall, call'[c].closed
             PROVE  /\ call'[c].op \in {"meta", "holdings", "create"}
                    /\ call'[c].watched => call'[c].op # dialog'
  BY DEF EditorInv
<1> DEFINE m == call[c]
           n == call'[c]
<1>1. GoesOn(m, n)
  BY EveryCallStep DEF CallStep, Begins
<1>2. CASE n.closed = m.closed
  <2>1. m # NoCall
    BY <1>1, CallFacts DEF GoesOn
  <2>2. /\ n.op = m.op /\ (n.watched => m.watched)
        /\ m.op \in {"meta", "holdings", "create"}
        /\ m.watched => m.op # dialog
    BY <1>1, <1>2, <2>1 DEF GoesOn, EditorInv
  <2>3. CASE dialog' \in {dialog, "none", "delete", "list_delete"}
    BY <2>2, <2>3
  <2>4. CASE dialog' \in {"meta", "holdings"} /\ ~ Busy
    BY <2>2, <2>4 DEF Busy, Pending, DetailOps
  <2>5. CASE dialog' = "create" /\ ~ ListBusy
    BY <2>2, <2>5 DEF ListBusy, Pending, ListOps
  <2> QED
    BY <2>3, <2>4, <2>5, DialogStep
<1>3. CASE n.closed # m.closed
  BY <1>1, <1>3 DEF GoesOn
<1> QED
  BY <1>2, <1>3

(* No late answer closes an editor opened after the one it saved, with any *)
(* number of calls in flight: the overlay keeps the editors shut while a   *)
(* call of a mounted screen is pending.                                    *)
THEOREM LateAnswersCloseTheirOwn == Spec => []EditorIsTheSavedOne
<1>1. Init => EditorInv
  BY DEF Init, EditorInv
<1>2. TypeOK /\ EditorInv /\ [Next]_vars => EditorInv'
  BY StepEditor
<1>3. EditorInv => EditorIsTheSavedOne
  BY DEF EditorInv, EditorIsTheSavedOne
<1> QED
  BY <1>1, <1>2, <1>3, TypeCorrect, PTL DEF Spec

-----------------------------------------------------------------------------
(* The detail after an own change                                          *)

(* What a step does to the query and to what was told of it.               *)
ScreenStep ==
  \/ UNCHANGED <<stack, detail, own>>
  \/ detail' = Refetch(detail) /\ UNCHANGED <<stack, own>>
  \/ /\ FetchStep(detail, detail', Present)
     /\ missed' = (missed /\ detail.fetch # "asked")
     /\ UNCHANGED <<database, stack, mine>>
  \/ ~ At("detail") /\ detail' \in Mounted(detail) /\ UNCHANGED own
  \/ /\ stack' \in {Pop, <<"list">>} /\ UNCHANGED <<detail, own>>
  \/ \E c \in Call :
       \/ /\ call[c] # NoCall /\ call[c].op \in DetailOps
          /\ detail' = Invalidate(detail, Open("detail"))
          /\ Tell(c, Open("detail") \/ detail.fetch # "answered")
          /\ UNCHANGED stack
       \/ /\ UNCHANGED detail
          /\ Tell(c, FALSE)
          /\ stack' \in {stack, Pop}

LEMMA EveryScreenStep ==
  ASSUME TypeOK, [Next]_vars
  PROVE  ScreenStep
<1> USE DEF ScreenStep
<1>1. CASE UNCHANGED <<stack, detail, own>>
  BY <1>1
<1>2. CASE Use
  <2>1. CASE PullToRefresh
    BY <2>1 DEF PullToRefresh, editors
  <2>2. CASE OpenDetail
    BY <2>2 DEF OpenDetail, OnList, At
  <2>3. CASE Back
    BY <2>3 DEF Back
  <2>4. CASE OpenList
    BY <2>4 DEF OpenList
  <2>5. CASE CancelEdit \/ CancelCreate
    BY <1>1, <2>5 DEF CancelEdit, CancelCreate, Dismiss
  <2>6. CASE OpenEditMeta \/ TypeMeta \/ OpenEditHoldings \/ AskDelete \/ OpenCreate
    BY <1>1, <2>6 DEF OpenEditMeta, TypeMeta, OpenEditHoldings, AskDelete, OpenCreate, Show, Screen
  <2>7. CASE TapToggle \/ SaveMeta \/ SaveHoldings \/ ToggleListed \/ Create
    BY <1>1, <2>7 DEF TapToggle, SaveMeta, SaveHoldings, ToggleListed, Create, Mutate, editors
  <2>8. CASE AnswerDelete
    BY <1>1, <2>8 DEF AnswerDelete, Show, Mutate, Screen
  <2> QED
    BY <1>2, <2>1, <2>2, <2>3, <2>4, <2>5, <2>6, <2>7, <2>8 DEF Use
<1>3. CASE Fetch
  BY <1>3 DEF Fetch, editors
<1>4. ASSUME NEW c \in Call, Succeed(c)
      PROVE  ScreenStep
  <2>1. CASE SucceedDetail(c)
    BY <1>4, <2>1 DEF Succeed, SucceedDetail, DetailOps
  <2>2. CASE SucceedDelete(c)
    BY <2>2 DEF SucceedDelete
  <2>3. CASE SucceedCreate(c)
    BY <1>1, <2>3 DEF SucceedCreate
  <2>4. CASE SucceedListed(c)
    BY <2>4 DEF SucceedListed, editors
  <2> QED
    BY <1>4, <2>1, <2>2, <2>3, <2>4 DEF Succeed
<1> QED
  BY <1>1, <1>2, <1>3, <1>4 DEF Next, vars, ServeOther, Serve, Fail, editors

(* An answer on its way is no older than what the query was told of, and   *)
(* neither is one at rest that is not marked.                              *)
ShownInv ==
  /\ mine <= commits
  /\ \A c \in Call : call[c] # NoCall => call[c].commit <= commits
  /\ detail.fetch = "answered" =>
       detail.answer # None /\ (~ missed => detail.answer.commit >= mine)
  /\ Open("detail") /\ detail.fetch = "idle" => detail.data # None /\ ~ detail.invalid
  /\ detail.fetch = "idle" /\ detail.data # None /\ ~ detail.invalid /\ ~ missed =>
       detail.data.commit >= mine

(* What is done in the detail is done with data on the screen.             *)
DataInv ==
  /\ dialog \in {"meta", "holdings", "delete"} => detail.data # None
  /\ \A c \in Call : call[c] # NoCall /\ call[c].op \in DetailOps => detail.data # None

LEMMA CommitsGrow ==
  ASSUME BaseInv, [Next]_vars
  PROVE  commits \in Nat /\ commits' \in Nat /\ commits <= commits'
<1>1. commits \in Nat
  BY CommitsAssumption DEF BaseInv, TypeOK
<1>2. CASE UNCHANGED database
  BY <1>1, <1>2 DEF database
<1>3. CASE ServeOther \/ \E c \in Call : Serve(c)
  BY <1>1, <1>3, ServerStep DEF BaseInv
<1> QED
  BY <1>2, <1>3, SameHoldings DEF BaseInv

LEMMA CallsInThePast ==
  ASSUME BaseInv, [Next]_vars, \A c \in Call : call[c] # NoCall => call[c].commit <= commits
  PROVE  \A c \in Call : call'[c] # NoCall => call'[c].commit <= commits'
<1> SUFFICES ASSUME NEW c \in Call, call'[c] # NoCall
             PROVE  call'[c].commit <= commits'
  OBVIOUS
<1>1. commits \in Nat /\ commits' \in Nat /\ commits <= commits'
  BY CommitsGrow
<1>2. CASE GoesOn(call[c], call'[c])
  <2>1. call[c] # NoCall /\ call[c].commit \in Nat /\ call[c].commit <= commits
    BY <1>2, CallFacts, CommitsAssumption DEF GoesOn, Mutation
  <2>2. call'[c].commit = call[c].commit \/ call'[c].commit = commits'
    BY <1>2 DEF GoesOn
  <2> QED
    BY <1>1, <2>1, <2>2
<1>3. CASE Begins(call[c], call'[c])
  BY <1>1, <1>3 DEF Begins
<1> QED
  BY <1>2, <1>3, EveryCallStep DEF BaseInv, CallStep

LEMMA DataStays ==
  ASSUME BaseInv, ShownInv, [Next]_vars, detail.data # None
  PROVE  detail'.data # None
<1>1. detail \in Query
  BY DEF BaseInv, TypeOK
<1>2. \A q \in {Asked(detail), Answered(detail), Refetch(detail), [detail EXCEPT !.invalid = TRUE]} :
        q.data = detail.data
  BY <1>1 DEF Asked, Answered, Refetch, Query
<1>3. detail.fetch = "answered" => Arrived(detail).data # None
  BY DEF Arrived, ShownInv
<1> QED
  BY <1>2, <1>3, EveryScreenStep DEF BaseInv, ScreenStep, FetchStep, Mounted, Invalidate

LEMMA DialogOpens ==
  ASSUME TypeOK, [Next]_vars, dialog' \in {"meta", "holdings", "delete"}
  PROVE  dialog' = dialog \/ Shown
<1>1. CASE OpenEditMeta \/ OpenEditHoldings
  BY <1>1 DEF OpenEditMeta, OpenEditHoldings
<1>2. CASE OpenCreate \/ AskDelete \/ AnswerDelete
  BY <1>2 DEF OpenCreate, AskDelete, AnswerDelete, Show
<1>3. ASSUME NEW d, Close(d)
      PROVE  dialog' = dialog
  BY <1>3 DEF Close
<1>4. CASE CancelEdit \/ CancelCreate
  BY <1>3, <1>4 DEF CancelEdit, CancelCreate, Dismiss
<1>5. CASE TapToggle \/ PullToRefresh \/ TypeMeta \/ SaveMeta \/ SaveHoldings \/ ToggleListed
           \/ OpenDetail \/ Create \/ Back \/ OpenList
  BY <1>5 DEF TapToggle, PullToRefresh, TypeMeta, SaveMeta, SaveHoldings, ToggleListed,
              OpenDetail, Create, Back, OpenList, editors
<1>6. ASSUME NEW c \in Call, Succeed(c)
      PROVE  dialog' = dialog
  <2>1. CASE SucceedDetail(c) \/ SucceedCreate(c)
    BY <1>3, <2>1 DEF SucceedDetail, SucceedCreate, CloseEditor
  <2>2. CASE SucceedDelete(c)
    BY <1>3, <2>2 DEF SucceedDelete
  <2>3. CASE SucceedListed(c)
    BY <2>3 DEF SucceedListed, editors
  <2> QED
    BY <1>6, <2>1, <2>2, <2>3 DEF Succeed
<1>7. CASE UNCHANGED editors
  BY <1>7 DEF editors
<1> QED
  BY <1>1, <1>2, <1>4, <1>5, <1>6, <1>7 DEF Next, Use, vars, Fetch, ServeOther, Serve, Fail

LEMMA StepData == BaseInv /\ ShownInv /\ DataInv /\ [Next]_vars => DataInv'
<1> SUFFICES ASSUME BaseInv, ShownInv, DataInv, [Next]_vars PROVE DataInv'
  OBVIOUS
<1>1. ASSUME dialog' \in {"meta", "holdings", "delete"}
      PROVE  detail'.data # None
  <2>1. detail.data # None
    BY <1>1, DialogOpens DEF BaseInv, DataInv, Shown
  <2> QED
    BY <2>1, DataStays
<1>2. ASSUME NEW c \in Call, call'[c] # NoCall, call'[c].op \in DetailOps
      PROVE  detail'.data # None
  <2>1. CASE GoesOn(call[c], call'[c])
    <3>1. call[c] # NoCall /\ call[c].op \in DetailOps
      BY <1>2, <2>1, CallFacts DEF GoesOn
    <3> QED
      BY <3>1, DataStays DEF DataInv
  <2>2. CASE Begins(call[c], call'[c])
    <3>1. Shown \/ dialog = call'[c].op
      BY <1>2, <2>2 DEF Begins
    <3>2. dialog = call'[c].op => dialog \in {"meta", "holdings", "delete"}
      BY <1>2 DEF BaseInv, TypeOK, DetailOps
    <3> QED
      BY <3>1, <3>2, DataStays DEF DataInv, Shown
  <2> QED
    BY <1>2, <2>1, <2>2, EveryCallStep DEF BaseInv, CallStep
<1> QED
  BY <1>1, <1>2 DEF DataInv

LEMMA StepShown == BaseInv /\ ShownInv /\ DataInv /\ [Next]_vars => ShownInv'
<1> SUFFICES ASSUME BaseInv, ShownInv, DataInv, [Next]_vars PROVE ShownInv'
  OBVIOUS
<1>1. commits \in Nat /\ commits' \in Nat /\ commits <= commits' /\ mine \in Nat
  BY CommitsGrow, CommitsAssumption DEF BaseInv, TypeOK
<1>2. \A c \in Call : call'[c] # NoCall => call'[c].commit <= commits'
  BY CallsInThePast DEF ShownInv
<1>3. detail \in Query /\ \A a \in Answer : a.commit \in Nat /\ a # None
  BY CommitsAssumption DEF BaseInv, TypeOK, Answer, None
<1> DEFINE Fits(q, owned, skipped, open) ==
      /\ q.fetch = "answered" =>
           q.answer # None /\ (~ skipped => q.answer.commit >= owned)
      /\ open /\ q.fetch = "idle" => q.data # None /\ ~ q.invalid
      /\ q.fetch = "idle" /\ q.data # None /\ ~ q.invalid /\ ~ skipped => q.data.commit >= owned
<1>4. mine <= commits /\ Fits(detail, mine, missed, Open("detail"))
  BY DEF ShownInv
<1> SUFFICES mine' <= commits' /\ Fits(detail', mine', missed', Open("detail")')
  BY <1>2 DEF ShownInv
<1>5. UNCHANGED mine => mine' <= commits'
  BY <1>1, <1>4
<1>6. Asked(detail).fetch = "asked"
  BY <1>3 DEF Asked, Query
<1>7. CASE UNCHANGED <<stack, detail, own>>
  BY <1>4, <1>5, <1>7 DEF own, Open
<1>8. CASE detail' = Refetch(detail) /\ UNCHANGED <<stack, own>>
  BY <1>4, <1>5, <1>6, <1>8 DEF own, Open, Refetch
<1>9. CASE /\ FetchStep(detail, detail', Present)
           /\ missed' = (missed /\ detail.fetch # "asked")
           /\ UNCHANGED <<database, stack, mine>>
  <2>1. CASE detail' = Answered(detail)
    <3>1. detail'.fetch = "answered" /\ detail'.answer = Now
      BY <1>3, <2>1 DEF Answered, Query
    <3>2. Now # None /\ Now.commit = commits
      BY <1>3, QueryFacts DEF Now, BaseInv
    <3> QED
      BY <1>1, <1>4, <1>5, <1>9, <3>1, <3>2
  <2>2. CASE detail.fetch = "answered" /\ detail' = Arrived(detail)
    <3>1. detail'.fetch = "idle" /\ detail'.data = detail.answer /\ ~ detail'.invalid
      BY <2>2 DEF Arrived
    <3> QED
      BY <1>4, <1>5, <1>9, <2>2, <3>1
  <2>3. CASE detail' = Asked(detail)
    BY <1>5, <1>6, <1>9, <2>3
  <2> QED
    BY <1>9, <2>1, <2>2, <2>3 DEF FetchStep
<1>10. CASE ~ At("detail") /\ detail' \in Mounted(detail) /\ UNCHANGED own
  <2>1. CASE detail' = Asked(detail)
    BY <1>5, <1>6, <1>10, <2>1 DEF own
  <2>2. CASE detail' = detail /\ (detail.fetch # "idle" \/ ~ (detail.data = None \/ detail.invalid))
    BY <1>4, <1>5, <1>10, <2>2 DEF own
  <2> QED
    BY <1>10, <2>1, <2>2 DEF Mounted
<1>11. ASSUME stack' \in {Pop, <<"list">>}
       PROVE  ~ Open("detail")'
  BY <1>11, StackFacts, OpenPrime DEF BaseInv
<1>12. CASE stack' \in {Pop, <<"list">>} /\ UNCHANGED <<detail, own>>
  BY <1>4, <1>5, <1>11, <1>12 DEF own
<1>13. ASSUME NEW c \in Call, call[c] # NoCall, call[c].op \in DetailOps, UNCHANGED stack,
              detail' = Invalidate(detail, Open("detail")),
              Tell(c, Open("detail") \/ detail.fetch # "answered")
       PROVE  mine' <= commits' /\ Fits(detail', mine', missed', Open("detail")')
  <2>1. call[c].commit \in Nat /\ call[c].commit <= commits
    BY <1>13, CommitsAssumption DEF ShownInv, BaseInv, TypeOK, Mutation
  <2>2. mine' <= commits'
    BY <1>1, <1>4, <1>13, <2>1 DEF Tell
  <2>3. CASE Open("detail")
    <3>1. detail'.fetch = "asked"
      BY <1>6, <1>13, <2>3 DEF Invalidate, Refetch, DataInv
    <3> QED
      BY <2>2, <3>1
  <2>4. CASE ~ Open("detail")
    <3>1. detail' = [detail EXCEPT !.invalid = TRUE]
      BY <1>13, <2>4 DEF Invalidate
    <3>2. detail'.fetch = detail.fetch /\ detail'.answer = detail.answer /\ detail'.invalid
      BY <1>3, <3>1 DEF Query
    <3>3. ~ Open("detail")'
      BY <1>13, <2>4 DEF Open
    <3>4. detail.fetch = "answered" => missed'
      BY <1>13, <2>4 DEF Tell
    <3> QED
      BY <1>4, <2>2, <3>2, <3>3, <3>4
  <2> QED
    BY <2>3, <2>4
<1>14. ASSUME NEW c \in Call, UNCHANGED detail, Tell(c, FALSE), stack' \in {stack, Pop}
       PROVE  mine' <= commits' /\ Fits(detail', mine', missed', Open("detail")')
  <2>1. mine' = mine /\ missed'
    BY <1>14 DEF Tell
  <2>2. stack' = stack => (Open("detail")' <=> Open("detail"))
    BY DEF Open
  <2> QED
    BY <1>4, <1>5, <1>11, <1>14, <2>1, <2>2
<1> QED
  BY <1>7, <1>8, <1>9, <1>10, <1>12, <1>13, <1>14, EveryScreenStep DEF ScreenStep, BaseInv

(* The detail at rest is never older than an own change its query was told *)
(* of, however many fetches, changes and screens race.                     *)
THEOREM DetailShowsOwnChanges == Spec => []OwnChangesShown
<1>1. Init => ShownInv /\ DataInv
  <2> SUFFICES ASSUME Init PROVE ShownInv /\ DataInv
    OBVIOUS
  <2>1. ~ Open("detail")
    <3>1. Len(stack) = 1 /\ stack[1] = "list"
      BY DEF Init
    <3> QED
      BY <3>1 DEF Init, Open
  <2> QED
    BY <2>1, CommitsAssumption DEF Init, ShownInv, DataInv, NoQuery
<1>2. ShownInv => OwnChangesShown
  BY DEF ShownInv, OwnChangesShown
<1> QED
  BY <1>1, <1>2, InitBase, StepBase, StepShown, StepData, PTL DEF Spec

-----------------------------------------------------------------------------
(* The texts a save leaves alone                                           *)

TextFields == {"name", "description"}

Agrees(texts, edited) ==
  \A f \in TextFields \ edited : texts[f] = portfolio[f]

(* An answer, and a draft, that no change has made old.                    *)
Recent(answer) ==
  answer # None =>
    /\ answer.commit <= commits
    /\ answer.commit = commits => Agrees(answer, {})

Untouched(d) == d.commit <= commits /\ (d.commit = commits => Agrees(d.now, d.edited))

AnswersInv == Recent(detail.data) /\ Recent(detail.answer)

DraftsInv ==
  /\ dialog = "meta" => Untouched(draft)
  /\ \A c \in Call :
       call[c] # NoCall /\ call[c].op = "meta" /\ call[c].stage = "sent"
         => Untouched(call[c].draft)

(* A change makes old all there is; nothing else changes the texts.        *)
LEMMA GetsOld ==
  ASSUME BaseInv, [Next]_vars
  PROVE  \/ UNCHANGED <<portfolio, commits>>
         \/ /\ commits \in Nat /\ commits' = commits + 1
            /\ UNCHANGED <<detail, draft, dialog>>
<1>1. CASE UNCHANGED database
  BY <1>1 DEF database
<1>2. CASE ServeOther \/ \E c \in Call : Serve(c)
  BY <1>2, ServerStep, CommitsGrow DEF BaseInv, editors
<1> QED
  BY <1>1, <1>2, SameHoldings DEF BaseInv

LEMMA StepAnswers == BaseInv /\ AnswersInv /\ [Next]_vars => AnswersInv'
<1> SUFFICES ASSUME BaseInv, AnswersInv, [Next]_vars PROVE AnswersInv'
  OBVIOUS
<1>1. detail \in Query /\ \A a \in Answer : a.commit \in Nat
  BY CommitsAssumption DEF BaseInv, TypeOK, Answer
<1>2. CASE UNCHANGED <<portfolio, commits>>
  <2>1. /\ detail'.data \in {detail.data, detail.answer}
        /\ detail'.answer \in {detail.answer, None, Now}
    <3>1. Asked(detail).data = detail.data /\ Asked(detail).answer = None
      BY <1>1 DEF Asked, Query
    <3>2. Answered(detail).data = detail.data /\ Answered(detail).answer = Now
      BY <1>1 DEF Answered, Query
    <3>3. Arrived(detail).data = detail.answer /\ Arrived(detail).answer = None
      BY DEF Arrived
    <3>4. [detail EXCEPT !.invalid = TRUE].data = detail.data
          /\ [detail EXCEPT !.invalid = TRUE].answer = detail.answer
      BY <1>1 DEF Query
    <3>5. detail' \in {detail, Asked(detail), Answered(detail), Arrived(detail),
                      [detail EXCEPT !.invalid = TRUE]}
      BY EveryScreenStep DEF BaseInv, ScreenStep, FetchStep, Mounted, Invalidate, Refetch
    <3> QED
      BY <3>1, <3>2, <3>3, <3>4, <3>5
  <2>2. Recent(Now)
    <3>1. commits \in Nat
      BY CommitsAssumption DEF BaseInv, TypeOK
    <3> QED
      BY <3>1 DEF Recent, Now, Agrees, TextFields
  <2>3. Recent(None)
    BY DEF Recent
  <2>4. Recent(detail'.data) /\ Recent(detail'.answer)
    BY <2>1, <2>2, <2>3 DEF AnswersInv
  <2> QED
    BY <1>2, <2>4 DEF AnswersInv, Recent, Agrees
<1>3. CASE commits \in Nat /\ commits' = commits + 1 /\ UNCHANGED detail
  <2>1. ASSUME NEW a \in {None} \cup Answer, Recent(a), a # None
        PROVE  a.commit <= commits' /\ a.commit # commits'
    BY <1>1, <1>3, <2>1 DEF Recent
  <2>2. detail.data \in {None} \cup Answer /\ detail.answer \in {None} \cup Answer
    BY <1>1 DEF Query
  <2> QED
    BY <1>3, <2>1, <2>2 DEF AnswersInv, Recent
<1> QED
  BY <1>2, <1>3, GetsOld

LEMMA DraftStep ==
  ASSUME TypeOK, [Next]_vars, dialog' = "meta"
  PROVE  (dialog = "meta" /\ UNCHANGED draft) \/ OpenEditMeta \/ TypeMeta
<1>1. CASE OpenEditHoldings \/ OpenCreate
  BY <1>1 DEF OpenEditHoldings, OpenCreate, Show
<1>2. CASE AskDelete \/ AnswerDelete
  BY <1>2 DEF AskDelete, AnswerDelete, Show
<1>3. ASSUME NEW d, Close(d)
      PROVE  dialog = "meta" /\ UNCHANGED draft
  BY <1>3 DEF Close
<1>4. CASE CancelEdit \/ CancelCreate
  BY <1>3, <1>4 DEF CancelEdit, CancelCreate, Dismiss
<1>5. CASE TapToggle \/ PullToRefresh \/ SaveMeta \/ SaveHoldings \/ ToggleListed
           \/ OpenDetail \/ Create \/ Back \/ OpenList
  BY <1>5 DEF TapToggle, PullToRefresh, SaveMeta, SaveHoldings, ToggleListed,
              OpenDetail, Create, Back, OpenList, editors
<1>6. ASSUME NEW c \in Call, Succeed(c)
      PROVE  dialog = "meta" /\ UNCHANGED draft
  <2>1. CASE SucceedDetail(c) \/ SucceedCreate(c)
    BY <1>3, <2>1 DEF SucceedDetail, SucceedCreate, CloseEditor
  <2>2. CASE SucceedDelete(c)
    BY <1>3, <2>2 DEF SucceedDelete
  <2>3. CASE SucceedListed(c)
    BY <2>3 DEF SucceedListed, editors
  <2> QED
    BY <1>6, <2>1, <2>2, <2>3 DEF Succeed
<1>7. CASE UNCHANGED editors
  BY <1>7 DEF editors
<1> QED
  BY <1>1, <1>2, <1>4, <1>5, <1>6, <1>7 DEF Next, Use, vars, Fetch, ServeOther, Serve, Fail

(* The same of the next state.                                             *)
StaysUntouched(d) ==
  /\ d.commit <= commits'
  /\ d.commit = commits' => \A f \in TextFields \ d.edited : d.now[f] = portfolio'[f]

LEMMA UntouchedStays ==
  ASSUME BaseInv, [Next]_vars, NEW d \in Draft, Untouched(d)
  PROVE  StaysUntouched(d)
<1>1. d.commit \in Nat
  BY CommitsAssumption DEF Draft
<1>2. CASE UNCHANGED <<portfolio, commits>>
  BY <1>2 DEF Untouched, Agrees, StaysUntouched
<1>3. CASE commits \in Nat /\ commits' = commits + 1
  <2>1. d.commit <= commits' /\ d.commit # commits'
    BY <1>1, <1>3 DEF Untouched
  <2> QED
    BY <2>1 DEF StaysUntouched
<1> QED
  BY <1>2, <1>3, GetsOld

LEMMA StepDrafts == BaseInv /\ AnswersInv /\ DraftsInv /\ [Next]_vars => DraftsInv'
<1> SUFFICES ASSUME BaseInv, AnswersInv, DraftsInv, [Next]_vars PROVE DraftsInv'
  OBVIOUS
<1>1. draft \in Draft
  BY DEF BaseInv, TypeOK
<1>2. ASSUME dialog' = "meta"
      PROVE  StaysUntouched(draft')
  <2>1. CASE dialog = "meta" /\ UNCHANGED draft
    BY <1>1, <2>1, UntouchedStays DEF DraftsInv
  <2>2. CASE OpenEditMeta
    <3>1. /\ detail.data # None /\ UNCHANGED <<portfolio, commits>>
          /\ draft' = [now |-> Copied(detail.data), edited |-> {}, commit |-> detail.data.commit]
      BY <2>2 DEF OpenEditMeta, Shown, Screen, database
    <3>2. Recent(detail.data)
      BY DEF AnswersInv
    <3>3. /\ Copied(detail.data).name = detail.data.name
          /\ Copied(detail.data).description = detail.data.description
      BY DEF Copied
    <3> QED
      BY <3>1, <3>2, <3>3 DEF Recent, Agrees, StaysUntouched, TextFields
  <2>3. CASE TypeMeta
    <3>1. dialog = "meta" /\ UNCHANGED <<portfolio, commits>>
      BY <2>3 DEF TypeMeta, Screen, database
    <3>2. Untouched(draft)
      BY <3>1 DEF DraftsInv
    <3>3. /\ draft'.commit = draft.commit /\ draft.edited \subseteq draft'.edited
          /\ \A f \in TextFields \ draft'.edited : draft'.now[f] = draft.now[f]
      BY <2>3, TypeMetaForm DEF BaseInv, TextFields
    <3> QED
      BY <3>1, <3>2, <3>3 DEF Untouched, Agrees, StaysUntouched
  <2> QED
    BY <1>2, <2>1, <2>2, <2>3, DraftStep DEF BaseInv
<1>3. ASSUME NEW c \in Call, call'[c] # NoCall, call'[c].op = "meta", call'[c].stage = "sent"
      PROVE  StaysUntouched(call'[c].draft)
  <2>1. CASE GoesOn(call[c], call'[c])
    <3>1. /\ call[c] # NoCall /\ call[c].op = "meta" /\ call[c].stage = "sent"
          /\ call'[c].draft = call[c].draft /\ call[c].draft \in Draft
      BY <1>3, <2>1, CallFacts DEF GoesOn, Mutation
    <3>2. Untouched(call[c].draft)
      BY <3>1 DEF DraftsInv
    <3> QED
      BY <3>1, <3>2, UntouchedStays
  <2>2. CASE Begins(call[c], call'[c])
    <3>1. dialog = "meta" /\ call'[c].draft = draft
      BY <1>3, <2>2 DEF Begins
    <3>2. Untouched(draft)
      BY <3>1 DEF DraftsInv
    <3> QED
      BY <1>1, <3>1, <3>2, UntouchedStays
  <2> QED
    BY <1>3, <2>1, <2>2, EveryCallStep DEF BaseInv, CallStep
<1> QED
  BY <1>2, <1>3 DEF DraftsInv, Untouched, Agrees, StaysUntouched

(* A save of what nobody has changed meanwhile changes no text that was    *)
(* not edited, however many answers and calls are late.                    *)
THEOREM UneditedTextsStay == Spec => FieldsKept
<1>1. Init => AnswersInv /\ DraftsInv
  BY DEF Init, NoQuery, AnswersInv, Recent, DraftsInv
<1>2. ASSUME BaseInv, DraftsInv, NEW c \in Call, Serve(c), call[c].op = "meta",
             call[c].draft.commit = commits, NEW f \in TextFields \ call[c].draft.edited
      PROVE  portfolio'[f] = portfolio[f]
  <2>1. /\ call[c] # NoCall /\ call[c].stage = "sent" /\ UpdatePortfolio(call[c].draft.now)
    BY <1>2 DEF Serve, AtServer, Handle
  <2>2. call[c].draft.now[f] = portfolio[f]
    BY <1>2, <2>1 DEF DraftsInv, Untouched, Agrees
  <2>3. portfolio \in Portfolio
    BY <1>2 DEF BaseInv, TypeOK
  <2> DEFINE texts == call[c].draft.now
  <2>4. /\ portfolio'.name = Given(texts.name, portfolio.name)
        /\ portfolio'.description = Given(texts.description, portfolio.description)
    BY <2>1, <2>3 DEF UpdatePortfolio, Portfolio
  <2>5. CASE f = "name"
    BY <2>2, <2>4, <2>5 DEF Given
  <2>6. CASE f = "description"
    BY <2>2, <2>4, <2>6 DEF Given
  <2> QED
    BY <2>5, <2>6 DEF TextFields
<1>3. BaseInv /\ DraftsInv /\ [Next]_vars =>
        [\A c \in Call :
          /\ Serve(c) /\ call[c].op = "meta" /\ call[c].draft.commit = commits
          => \A f \in {"name", "description"} \ call[c].draft.edited :
               portfolio'[f] = portfolio[f]]_vars
  BY <1>2 DEF TextFields
<1> QED
  BY <1>1, <1>3, InitBase, StepBase, StepAnswers, StepDrafts, PTL DEF Spec, FieldsKept

=============================================================================
