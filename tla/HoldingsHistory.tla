---------------------------- MODULE HoldingsHistory ----------------------------
(***************************************************************************)
(* The holdings of one portfolio and their history: update_holdings,       *)
(* record_holding_history and replace_holdings, as operators on the two    *)
(* tables; AdminPortfolio calls them.                                      *)
(*                                                                         *)
(* A payload is a list of lines, each a ticker and its percentage; nothing *)
(* keeps two lines from naming one ticker, and each becomes a row.  The    *)
(* history knows a ticker once: it compares two dictionaries.              *)
(*                                                                         *)
(* A payload gives percentages to the thousandth or finer; the columns are *)
(* NUMERIC(18, 2), so a row holds the nearest hundredth.  A payload is in  *)
(* half hundredths here and a row in hundredths.  The 0.001 below which a  *)
(* difference is no change is less than the half hundredth.  saveHoldings  *)
(* insists on more than zero: 0 here is a line that is not there.          *)
(***************************************************************************)
EXTENDS Integers, Functions

CONSTANTS
  Ticker,    \* what a portfolio can hold
  MaxRows,   \* bound on the lines of a payload
  Whole      \* one hundred per cent, in hundredths

VARIABLES
  row,     \* the rows of portfolio_holdings, by the line each comes from
  told,    \* the allocation the newest history row of each ticker tells, or 0
  blurred  \* history: tickers named twice and not told anew since

Line == 1 .. MaxRows

Total(f) == FoldFunction(+, 0, [l \in Line |-> f[l].part])
Distance(a, b) == IF a < b THEN b - a ELSE a - b

(* The check at the head of update_holdings: within 0.01 of 100.           *)
Tolerance == 2
Payload ==
  {p \in [Line -> [ticker : Ticker, part : 0 .. 2 * Whole + Tolerance]] :
     Distance(Total(p), 2 * Whole) <= Tolerance}

(* Mutant: rounding up by a whole hundredth.                               *)
StoredUp(half) == IF half = 0 THEN 0 ELSE half \div 2 + 1

Stored(half) == (half + 1) \div 2
Row == [Line -> [ticker : Ticker, part : 0 .. Whole + 1]]
Rows(p) == [l \in Line |-> [ticker |-> p[l].ticker, part |-> Stored(p[l].part)]]

TypeOK ==
  /\ row \in Row
  /\ told \in [Ticker -> 0 .. Whole + 1]
  /\ blurred \subseteq Ticker

Empty == [l \in Line |-> [ticker |-> CHOOSE t \in Ticker : TRUE, part |-> 0]]
Untold == [t \in Ticker |-> 0]
Init == row = Empty /\ told = Untold /\ blurred = {}

Naming(f, t) == {l \in Line : f[l].ticker = t /\ f[l].part # 0}
Twice(f) == {t \in Ticker : \E l, m \in Naming(f, t) : l # m}

(* The dictionary of the rows: of two rows of a ticker the one read last,  *)
(* and the query does not say which that is.                               *)
Parts(t) ==
  IF Naming(row, t) = {} THEN {0} ELSE {row[l].part : l \in Naming(row, t)}
OldMaps ==
  {old \in [Ticker -> UNION {Parts(t) : t \in Ticker}] :
     \A t \in Ticker : old[t] \in Parts(t)}

(* The dictionary of the payload, where the last line of a ticker wins.    *)
Last(lines) == CHOOSE l \in lines : \A m \in lines : m <= l
NewMap(p) ==
  [t \in Ticker |-> IF Naming(p, t) = {} THEN 0 ELSE p[Last(Naming(p, t))].part]

(* Mutant: too coarse a threshold.                                         *)
ChangedCoarsely(old, new) ==
  {t \in Ticker : (old[t] = 0) # (new[t] = 0) \/ Distance(2 * old[t], new[t]) > 2}

(* A ticker gets a history row when the payload adds it, removes it or     *)
(* moves it by more than the threshold.                                    *)
Changed(old, new) ==
  {t \in Ticker : (old[t] = 0) # (new[t] = 0) \/ 2 * old[t] # new[t]}

(* The dictionaries are compared; then DELETE takes every row there is,    *)
(* and the INSERTs put one for each line.                                  *)
Replace(p) ==
  /\ \E old \in OldMaps :
       LET new == NewMap(p)
           moved == Changed(old, new)
       IN  /\ told' = [t \in Ticker |-> IF t \in moved THEN Stored(new[t]) ELSE told[t]]
           /\ blurred' = (blurred \ moved) \cup Twice(p)
  /\ row' = Rows(p)

(* ON DELETE CASCADE: the history goes with its portfolio.                 *)
Cascade == row' = Empty /\ told' = Untold /\ blurred' = {}

-----------------------------------------------------------------------------
(* Properties                                                              *)

(* "Records each change to a portfolio's holdings": the newest history row *)
(* of a ticker tells the allocation it has, whatever the updates before    *)
(* were and however their percentages were rounded.  Of a ticker that an   *)
(* update named twice it tells one line, and may be wrong until it moves.  *)
HistoryTells ==
  \A t \in Ticker \ blurred :
    told[t] = IF Naming(row, t) = {} THEN 0 ELSE row[Last(Naming(row, t))].part

(* What the rows add up to is within 0.01 of 100 plus half a hundredth for *)
(* each row that may have been rounded.                                    *)
AllocationBounded ==
  Total(row) # 0 => 2 * Distance(Total(row), Whole) <= Tolerance + MaxRows

=============================================================================
