------------------------------ MODULE Ingestion ------------------------------
(***************************************************************************)
(* The first pass: TransactionIngester.prepare_history reads the merged    *)
(* broker rows one at a time, keeps a provisional count of every holding,  *)
(* refuses a history that gives up more than it holds or overdraws a day,  *)
(* and records what the matching walk replays.                             *)
(*                                                                         *)
(* The rows of a date come in the order the parsers gave them, which is    *)
(* not chronology.  Before the first of them is read the day is planned:   *)
(* which names its renames make one holding, and what its reorganisations  *)
(* do to a holding.                                                        *)
(*                                                                         *)
(* Only counts of shares, gift values and cash are kept.  The cost the     *)
(* first pass carries beside a count is an estimate nothing reads, and a   *)
(* missing or malformed column is a row of action "OTHER".  An account is  *)
(* one broker's, in one currency.  Spin-offs, written options and the      *)
(* splits Trading 212 exports leave out are not part of this module.       *)
(*                                                                         *)
(* A definition Name_Slip is what a slip in Name's code would make of it,  *)
(* and no part of the specification.                                       *)
(***************************************************************************)
EXTENDS History, FiniteSetsExt

CONSTANTS
  Tickers,       \* how many tickers there are
  Account,       \* the declared accounts, each with one cash balance
  NamedByIsin,   \* tickers with an ISIN of their own
  balance_check, \* whether a day may not close overdrawn
  Ledgers        \* the merged histories the pass may be given

\* A ticker is its place in alphabetical order.
Symbol == 1 .. Tickers

Increasing == {"BUY", "REINVEST_SHARES", "STOCK_ACTIVITY", "TRANSFER_FROM_SPOUSE"}
Sales == {"SELL", "CASH_MERGER", "FULL_REDEMPTION"}
Decreasing == Sales \cup {"GIFT", "GIFT_UNCONNECTED", "TRANSFER_TO_SPOUSE"}
Action == Increasing \cup Decreasing
  \cup {"FEE", "STOCK_SPLIT", "RENAME", "EXCESS_REPORTED_INCOME", "CASH", "OTHER"}

RENAME_DAY_UNSUPPORTED_ACTIONS ==
  {"STOCK_SPLIT", "FEE", "EXCESS_REPORTED_INCOME"} \cup (Increasing \ {"BUY"})
  \cup (Decreasing \ {"SELL"})

(***************************************************************************)
(* A row: `renamed` is the ticker a RENAME retires.  A reorganisation      *)
(* states a change to the whole holding (source "raw"), to one account     *)
(* ("broker"), or the counts either side of it ("paired"), in `event`.     *)
(* `instants` are its timestamps; `place` is its place in a file whose     *)
(* rows are in the order they happened, 0 in any other file.               *)
(***************************************************************************)
Row ==
  [date : Day, action : Action, symbol : Symbol, renamed : Symbol, account : Account,
   quantity : Int, price : Nat, cash : Int, source : {"raw", "broker", "paired"},
   instants : SUBSET Nat, place : Nat,
   event : [before : Nat, after : Nat, ratio : Ratio \cup {NoRatio}]]

(***************************************************************************)
(* _transaction_sort_key: the merged rows are in order of date, and within *)
(* one vests and transfers from a spouse come first, those to a spouse and *)
(* gifts last.                                                             *)
(***************************************************************************)
SortOrder(entry) ==
  IF entry.action \in {"STOCK_ACTIVITY", "TRANSFER_FROM_SPOUSE"} THEN 0
  ELSE IF entry.action \in {"TRANSFER_TO_SPOUSE", "GIFT", "GIFT_UNCONNECTED"} THEN 2
  ELSE 1

Sorted(ledger) ==
  \A i, j \in 1 .. Len(ledger) : i < j =>
    \/ ledger[i].date < ledger[j].date
    \/ ledger[i].date = ledger[j].date /\ SortOrder(ledger[i]) <= SortOrder(ledger[j])

ASSUME IngestionAssumption ==
  /\ Tickers \in Nat \ {0}
  /\ NamedByIsin \subseteq Symbol
  /\ balance_check \in BOOLEAN
  /\ \A ledger \in Ledgers :
       /\ ledger \in Seq(Row) /\ Sorted(ledger)
       /\ \A i \in 1 .. Len(ledger) :
            ledger[i].action \in Increasing \cup Decreasing => ledger[i].quantity > 0

VARIABLES
  rows,          \* the merged history
  next,          \* the row being read
  phase,         \* where in the row the pass is, or how it ended
  refusal,       \* why it was refused
  planned,       \* the dates planned
  portfolio,     \* the provisional count of every holding there is an entry for
  sources,       \* holding_sources: the accounts that put units into each holding
  pool_quantity, \* the count each row pools, in the units its day ends in
  balance,       \* the cash of each account
  logs,          \* the record of each day and ticker that the walk replays
  renames,       \* rename_list: the name each ticker is renamed to on each day
  components,    \* rename_components: what each ticker's holding can give up
  capacities,    \* split_day_capacity: the same, on a reorganisation day
  splits         \* what each reorganisation does

vars == <<rows, next, phase, refusal, planned, portfolio, sources, pool_quantity,
          balance, logs, renames, components, capacities, splits>>

row == rows[next]
Phases == {"open", "plan", "row", "post", "ingested", "refused"}

NoPrice == -1
NoCapacity == -1

(***************************************************************************)
(* The logs of one day and ticker: units acquired, disposed of and given   *)
(* to a spouse; whether it was sold, whether a fee was read, whether it    *)
(* was given and to whom; the value connected gifts stated and the ERI     *)
(* report's price.                                                         *)
(***************************************************************************)
Log ==
  [acquired : Nat, disposed : Nat, transferred : Nat, sale_day : BOOLEAN,
   fee_day : BOOLEAN, gift : {"none", "connected", "unconnected"},
   gift_price : {NoPrice} \cup Nat, eri : Nat]
NoLog ==
  [acquired |-> 0, disposed |-> 0, transferred |-> 0, sale_day |-> FALSE,
   fee_day |-> FALSE, gift |-> "none", gift_price |-> NoPrice, eri |-> 0]

Init ==
  /\ rows \in Ledgers
  /\ next = 1
  /\ phase = "open"
  /\ refusal = "none"
  /\ planned = {}
  /\ portfolio = <<>>
  /\ sources = [s \in Symbol |-> {}]
  /\ pool_quantity = [i \in 1 .. Len(rows) |-> rows[i].quantity]
  /\ balance = [a \in Account |-> 0]
  /\ logs = [d \in Day |-> [s \in Symbol |-> NoLog]]
  /\ renames = [d \in Day |-> [s \in Symbol |-> s]]
  /\ components = [d \in Day |-> [s \in Symbol |-> [names |-> {}, capacity |-> 0]]]
  /\ capacities = [d \in Day |-> [s \in Symbol |-> NoCapacity]]
  /\ splits = [d \in Day |-> [s \in Symbol |-> NoSplit]]

Refuse(reason) ==
  /\ phase' = "refused"
  /\ refusal' = reason
  /\ UNCHANGED <<rows, next, planned, portfolio, sources, pool_quantity, balance,
                 logs, renames, components, capacities, splits>>

----------------------------------------------------------------------------
\* The provisional count under a name: none when there is no entry for it.
Held(s) == IF s \in DOMAIN portfolio THEN portfolio[s] ELSE 0
WithHolding(s, quantity) ==
  [n \in DOMAIN portfolio \cup {s} |-> IF n = s THEN quantity ELSE portfolio[n]]
WithoutHolding(s) == [n \in DOMAIN portfolio \ {s} |-> portfolio[n]]

RowsOn(d) == {i \in DOMAIN rows : rows[i].date = d}
Sign(i) ==
  IF rows[i].action \in Increasing THEN 1
  ELSE IF rows[i].action \in Decreasing THEN -1 ELSE 0
Increases(indices) == {i \in indices : Sign(i) > 0}

\* signed_quantity, of rows that pool the counts `pooled`.
SignedQuantity(indices, pooled) == MapThenSumSet(LAMBDA i : Sign(i) * pooled[i], indices)

----------------------------------------------------------------------------
(***************************************************************************)
(* plan_renames.  A ticker renamed to two names or renamed onward the same *)
(* day is refused; otherwise the tickers the day's renames connect are one *)
(* holding, which can give up what its names open with and what the day    *)
(* adds to any of them, unless a row of the day reads the pool itself.     *)
(***************************************************************************)
RenamePairs(indices) ==
  {<<rows[i].renamed, rows[i].symbol>> : i \in {j \in indices : rows[j].action = "RENAME"}}

ConnectedNames(pairs, s) ==
  LET closed == {S \in SUBSET Symbol : \A p \in pairs : p[1] \in S <=> p[2] \in S}
  IN  {n \in Symbol : \A S \in closed : s \in S => n \in S}

RenamesConflict(pairs) ==
  \E p, q \in pairs : (p[1] = q[1] /\ p[2] # q[2]) \/ p[2] = q[1]

EndName(d, s) == renames[d][s]
NamesOn(d, s) == ConnectedNames({<<n, EndName(d, n)>> : n \in Symbol}, s)

Component(d, names, s) ==
  LET mine == {i \in RowsOn(d) : rows[i].symbol \in names}
  IN  IF \/ \E i \in RowsOn(d) : rows[i].action = "EXCESS_REPORTED_INCOME"
         \/ \E i \in mine : rows[i].action \in RENAME_DAY_UNSUPPORTED_ACTIONS
        THEN [names |-> {}, capacity |-> 0]
        ELSE [names |-> names,
              capacity |-> MapThenSumSet(LAMBDA n : Held(n), names)
                           + SignedQuantity(Increases(mine), pool_quantity)]

(***************************************************************************)
(* _open_transaction_day, up to its reorganisations: every earlier day has *)
(* closed, so the accounts of a holding that is empty now are forgotten,   *)
(* and the day's renames are planned.                                      *)
(***************************************************************************)
SourcesAtOpen_ZeroEntryKept ==
  [s \in Symbol |-> IF s \in DOMAIN portfolio THEN sources[s] ELSE {}]
SourcesAtOpen == [s \in Symbol |-> IF Held(s) = 0 THEN {} ELSE sources[s]]

OpenTransactionDay ==
  /\ phase = "open"
  /\ next <= Len(rows)
  /\ row.date \notin planned
  /\ LET pairs == RenamePairs(RowsOn(row.date))
         renamed == UNION {{p[1], p[2]} : p \in pairs}
     IN  IF RenamesConflict(pairs) THEN Refuse("rename")
         ELSE /\ planned' = planned \cup {row.date}
              /\ sources' = SourcesAtOpen
              /\ renames' = [renames EXCEPT ![row.date] =
                   [s \in Symbol |->
                      IF \E p \in pairs : p[1] = s
                        THEN (CHOOSE p \in pairs : p[1] = s)[2] ELSE s]]
              /\ components' = [components EXCEPT ![row.date] =
                   [s \in Symbol |->
                      IF s \in renamed
                        THEN Component(row.date, ConnectedNames(pairs, s), s)
                        ELSE @[s]]]
              /\ phase' = "plan"
              /\ UNCHANGED <<rows, next, refusal, portfolio, pool_quantity, balance,
                             logs, capacities, splits>>

----------------------------------------------------------------------------
(***************************************************************************)
(* _sole_reorganisation: one row, or the one RAW row among rows of brokers *)
(* that may all report the same event.                                     *)
(***************************************************************************)
SplitRowsOn(d, s) ==
  {i \in RowsOn(d) : rows[i].action = "STOCK_SPLIT" /\ rows[i].symbol = s}
RawRows(indices) == {i \in indices : rows[i].source = "raw"}

OneEvent(raw, others) ==
  LET change == MapThenSumSet(LAMBDA i : rows[i].quantity, others)
      size(n) == IF n < 0 THEN -n ELSE n
  IN  /\ \A i, j \in others : i # j /\ rows[i].account = rows[j].account =>
           rows[i].instants # {} /\ rows[i].instants = rows[j].instants
      /\ \A i \in others : rows[i].quantity * rows[raw].quantity > 0
      /\ size(change) <= size(rows[raw].quantity)

NotSole(indices) ==
  /\ Cardinality(indices) > 1
  /\ \/ Cardinality(RawRows(indices)) # 1
     \/ \E raw \in RawRows(indices) : ~OneEvent(raw, indices \ {raw})
SoleReorganisation(indices) ==
  IF Cardinality(indices) = 1 THEN CHOOSE i \in indices : TRUE
  ELSE CHOOSE i \in RawRows(indices) : TRUE

(***************************************************************************)
(* _relative_to_split: which side of reorganisation i row j falls on.  Two *)
(* instants settle both sides, one only the later; a file in the order it  *)
(* happened settles either.                                                *)
(***************************************************************************)
RelativeToSplit(i, j) ==
  LET instants == rows[i].instants
      at == Max(rows[j].instants)
  IN  IF instants # {} /\ rows[j].instants # {}
        THEN IF at > Max(instants) THEN "after"
             ELSE IF Cardinality(instants) > 1 /\ at < Min(instants) THEN "before"
             ELSE "unknown"
      ELSE IF rows[i].place > 0 /\ rows[j].place > 0
        THEN IF rows[j].place < rows[i].place THEN "before" ELSE "after"
      ELSE "unknown"

\* The rows a reorganisation has to place, and those that came before it.
RowsAround(i) ==
  {j \in RowsOn(rows[i].date) \ {i} :
     rows[j].symbol \in NamesOn(rows[i].date, rows[i].symbol) /\ Sign(j) # 0}
RowsBefore(i) == {j \in RowsAround(i) : RelativeToSplit(i, j) = "before"}

DayOpen(i) == MapThenSumSet(LAMBDA n : Held(n), NamesOn(rows[i].date, rows[i].symbol))
AtEvent(i) ==
  DayOpen(i) + MapThenSumSet(LAMBDA j : Sign(j) * rows[j].quantity, RowsBefore(i))

\* _stock_split_event: the counts either side, and the ratio between them.
Event(i) ==
  IF rows[i].source = "paired" THEN rows[i].event
  ELSE LET after == AtEvent(i) + rows[i].quantity
       IN  [before |-> AtEvent(i), after |-> after,
            ratio |-> [num |-> after, den |-> AtEvent(i)]]

Contributors_OpeningForgotten(i) == {rows[j].account : j \in Increases(RowsBefore(i))}
Contributors(i) ==
  sources[rows[i].symbol] \cup {rows[j].account : j \in Increases(RowsBefore(i))}

(***************************************************************************)
(* _plan_stock_split.  Rows before the event are restated into the units   *)
(* the day ends in, the opening holding is scaled, and when the holding is *)
(* the one the broker counted a correction makes the day close on its      *)
(* count.  All of it is decided here, once.                                *)
(***************************************************************************)
Resolved(i) == Event(i).ratio # NoRatio
Restated(i) ==
  [j \in DOMAIN rows |->
     IF Resolved(i) /\ j \in RowsBefore(i)
       THEN scale_quantity(rows[j].quantity, Event(i).ratio) ELSE pool_quantity[j]]

ScaledOpen(i) ==
  IF Resolved(i) THEN scale_quantity(DayOpen(i), Event(i).ratio) ELSE Event(i).after
Leaves(i) ==
  IF Resolved(i) THEN scale_quantity(AtEvent(i), Event(i).ratio) ELSE Event(i).after

BrokerExact(i) == Resolved(i) /\ AtEvent(i) = Event(i).before
UncorrectedClose(i) == ScaledOpen(i) + SignedQuantity(RowsAround(i), Restated(i))
ExpectedDayClose_BeforeRowsTwice(i) ==
  IF BrokerExact(i)
    THEN Event(i).after + SignedQuantity(RowsAround(i), Restated(i))
    ELSE UncorrectedClose(i)
ExpectedDayClose(i) ==
  IF BrokerExact(i)
    THEN Event(i).after + SignedQuantity(RowsAround(i) \ RowsBefore(i), Restated(i))
    ELSE UncorrectedClose(i)

Transformation(i) ==
  [ratio |-> Event(i).ratio, day_open |-> DayOpen(i), scaled_open |-> ScaledOpen(i),
   delta |-> ExpectedDayClose(i) - UncorrectedClose(i),
   day_close |-> ExpectedDayClose(i), planned |-> TRUE]

\* The correction is in the provisional count from the day's start, and
\* what the day can give up is that and everything it adds.
OpensAt_Uncorrected(i) == Transformation(i).scaled_open
OpensAt(i) == Transformation(i).scaled_open + Transformation(i).delta

DayCapacity(i) == OpensAt(i) + SignedQuantity(Increases(RowsAround(i)), Restated(i))

SplitRefused_CloseUnchecked(i) ==
  \/ \E j \in RowsAround(i) : RelativeToSplit(i, j) = "unknown"
  \/ AtEvent(i) <= 0
  \/ rows[i].source # "paired" /\ Event(i).after <= 0
  \/ rows[i].source = "broker" /\ Contributors(i) \ {rows[i].account} # {}
  \/ ~Resolved(i) /\ (RowsBefore(i) # {} \/ AtEvent(i) # Event(i).before)
  \/ Leaves(i) <= 0

SplitRefused(i) ==
  \/ \E j \in RowsAround(i) : RelativeToSplit(i, j) = "unknown"
  \/ AtEvent(i) <= 0
  \/ rows[i].source # "paired" /\ Event(i).after <= 0
  \/ rows[i].source = "broker" /\ Contributors(i) \ {rows[i].account} # {}
  \/ ~Resolved(i) /\ (RowsBefore(i) # {} \/ AtEvent(i) # Event(i).before)
  \/ Leaves(i) <= 0
  \/ ExpectedDayClose(i) < 0

Unplanned ==
  {s \in Symbol : SplitRowsOn(row.date, s) # {} /\ ~splits[row.date][s].planned}

\* plan_stock_splits, one ticker in alphabetical order per step.
PlanStockSplit ==
  /\ phase = "plan"
  /\ Unplanned # {}
  /\ LET symbol == Min(Unplanned)
         found == SplitRowsOn(row.date, symbol)
         i == SoleReorganisation(found)
     IN  IF NotSole(found) \/ SplitRefused(i) THEN Refuse("split")
         ELSE /\ pool_quantity' = Restated(i)
              /\ splits' = [splits EXCEPT ![row.date][symbol] = Transformation(i)]
              /\ portfolio' = WithHolding(symbol, OpensAt(i))
              /\ capacities' = [capacities EXCEPT ![row.date] =
                   [s \in Symbol |->
                      IF s \in NamesOn(row.date, symbol) THEN DayCapacity(i) ELSE @[s]]]
              /\ UNCHANGED <<rows, next, phase, refusal, planned, sources, balance,
                             logs, renames, components>>

\* The rest of _open_transaction_day: an increase adds its account.
NoteSource ==
  /\ next <= Len(rows)
  /\ \/ phase = "open" /\ row.date \in planned
     \/ phase = "plan" /\ Unplanned = {}
  /\ sources' = IF Sign(next) > 0
                  THEN [sources EXCEPT ![row.symbol] = @ \cup {row.account}] ELSE sources
  /\ phase' = "row"
  /\ UNCHANGED <<rows, next, refusal, planned, portfolio, pool_quantity, balance, logs,
                 renames, components, capacities, splits>>

----------------------------------------------------------------------------
\* Reading a row of one of these actions; its units and its day's log.
Reading(actions) == phase = "row" /\ row.action \in actions
units == pool_quantity[next]
log == logs[row.date][row.symbol]
Record(entry) == logs' = [logs EXCEPT ![row.date][row.symbol] = entry]
Handled == phase' = "post" /\ UNCHANGED <<rows, next, refusal, planned, pool_quantity,
                                          balance, renames, components, capacities, splits>>

AddAcquisition ==
  /\ Reading(Increasing)
  /\ portfolio' = WithHolding(row.symbol, Held(row.symbol) + units)
  /\ Record([log EXCEPT !.acquired = @ + units])
  /\ Handled
  /\ UNCHANGED sources

(***************************************************************************)
(* _available_units: what a decrease may take.  The day's capacity on a    *)
(* reorganisation day; on a day that renames the holding its capacity less *)
(* what its names have sold; the running count on any other.               *)
(***************************************************************************)
Taken_ThisNameOnly(component) == log.disposed
Taken(component) ==
  MapThenSumSet(LAMBDA n : logs[row.date][n].disposed, component.names)

AvailableUnits_RunningCount ==
  LET component == components[row.date][row.symbol]
  IN  IF component.capacity # 0 THEN component.capacity - Taken(component)
      ELSE Held(row.symbol)
AvailableUnits ==
  LET component == components[row.date][row.symbol]
  IN  IF capacities[row.date][row.symbol] # NoCapacity
        THEN capacities[row.date][row.symbol]
      ELSE IF component.capacity # 0 THEN component.capacity - Taken(component)
      ELSE Held(row.symbol)

\* The units leave the provisional count; an entry at zero is dropped.
GiveUp ==
  portfolio' = IF Held(row.symbol) = units THEN WithoutHolding(row.symbol)
               ELSE WithHolding(row.symbol, Held(row.symbol) - units)

\* A sale on a day of gifts to a connected person is refused.
AddDisposal ==
  /\ Reading(Sales)
  /\ IF AvailableUnits < units THEN Refuse("shortfall")
     ELSE IF log.gift = "connected" THEN Refuse("gift")
     ELSE /\ GiveUp
          /\ Record([log EXCEPT !.disposed = @ + units, !.sale_day = TRUE])
          /\ Handled
          /\ UNCHANGED sources

AddTransferToSpouse ==
  /\ Reading({"TRANSFER_TO_SPOUSE"})
  /\ IF AvailableUnits < units THEN Refuse("shortfall")
     ELSE /\ GiveUp
          /\ Record([log EXCEPT !.transferred = @ + units])
          /\ Handled
          /\ UNCHANGED sources

(***************************************************************************)
(* Gifts of one day go to one kind of recipient; to a connected person     *)
(* they stand beside no sale and all state one value per unit.             *)
(***************************************************************************)
GiftsClash_SaleUnseen(kind) ==
  \/ log.gift \notin {"none", kind}
  \/ kind = "connected" /\ log.gift_price \notin {NoPrice, row.price}
GiftsClash(kind) ==
  \/ kind = "connected" /\ log.sale_day
  \/ log.gift \notin {"none", kind}
  \/ kind = "connected" /\ log.gift_price \notin {NoPrice, row.price}

AddGift ==
  /\ Reading({"GIFT", "GIFT_UNCONNECTED"})
  /\ LET kind == IF row.action = "GIFT" THEN "connected" ELSE "unconnected"
     IN  IF AvailableUnits < units THEN Refuse("shortfall")
         ELSE IF GiftsClash(kind) THEN Refuse("gift")
         ELSE /\ GiveUp
              /\ Record([log EXCEPT !.disposed = @ + units, !.gift = kind,
                           !.gift_price = IF kind = "connected" THEN row.price ELSE @])
              /\ Handled
              /\ UNCHANGED sources

\* A fee adds cost and no shares; it may not be a receipt.
AddManagementFee ==
  /\ Reading({"FEE"})
  /\ IF row.cash > 0 THEN Refuse("row")
     ELSE /\ Record([log EXCEPT !.fee_day = TRUE])
          /\ Handled
          /\ UNCHANGED <<portfolio, sources>>

\* The units and the accounts behind them take the new name.
AddRename ==
  /\ Reading({"RENAME"})
  /\ portfolio' = [n \in (DOMAIN portfolio \ {row.renamed}) \cup {row.symbol} |->
       IF n = row.symbol THEN Held(n) + Held(row.renamed) ELSE portfolio[n]]
  /\ sources' = [s \in Symbol |->
       IF s = row.renamed THEN {}
       ELSE IF s = row.symbol THEN sources[s] \cup sources[row.renamed] ELSE sources[s]]
  /\ Handled
  /\ UNCHANGED logs

\* Cash that moves alone, and reorganisations, which were applied already.
PassOver ==
  /\ Reading({"CASH", "STOCK_SPLIT"})
  /\ Handled
  /\ UNCHANGED <<portfolio, sources, logs>>

RefuseOther ==
  /\ Reading({"OTHER"})
  /\ Refuse("row")

(***************************************************************************)
(* add_eri: a report is recorded for the fund's own ticker and for every   *)
(* ticker the renames of the run connect to it that no ISIN names, in      *)
(* alphabetical order, up to one that has a report of that date already:   *)
(* the same price is a duplicate, another price a conflict.  A ticker      *)
(* renamed twice keeps the last name its rows give it.                     *)
(***************************************************************************)
RunRenames ==
  RenamePairs({i \in DOMAIN rows :
    \A j \in DOMAIN rows : j > i /\ rows[j].action = "RENAME"
                             => rows[j].renamed # rows[i].renamed})

EriNames_RenamesReadSoFar(s) == {s} \cup (NamesOn(row.date, s) \ NamedByIsin)
EriNames(s) == {s} \cup (ConnectedNames(RunRenames, s) \ NamedByIsin)

AddEri ==
  /\ Reading({"EXCESS_REPORTED_INCOME"})
  /\ LET reported == {s \in EriNames(row.symbol) : logs[row.date][s].eri > 0}
         first == Min(reported)
         fresh == {s \in EriNames(row.symbol) : \A t \in reported : s < t}
     IN  IF row.price > 0 /\ reported # {} /\ logs[row.date][first].eri # row.price
           THEN Refuse("row")
           ELSE /\ logs' = [logs EXCEPT ![row.date] =
                     [s \in Symbol |->
                        IF s \in fresh THEN [@[s] EXCEPT !.eri = row.price] ELSE @[s]]]
                /\ next' = next + 1
                /\ phase' = "open"
                /\ UNCHANGED <<rows, refusal, planned, portfolio, sources, pool_quantity,
                               balance, renames, components, capacities, splits>>

----------------------------------------------------------------------------
(***************************************************************************)
(* The end of a row: its cash is posted, an account may not close the day  *)
(* overdrawn, and the day's last row gathers what is left under retired    *)
(* names (reconcile_rename_day).                                           *)
(***************************************************************************)
CashMoved(i) ==
  IF rows[i].action \in Sales \cup {"BUY", "REINVEST_SHARES", "FEE", "CASH"}
    THEN rows[i].cash ELSE 0

LaterToday == {i \in RowsOn(row.date) :
                 i > next /\ rows[i].action # "EXCESS_REPORTED_INCOME"}
DayCloses_EriCloses ==
  \A i \in RowsOn(row.date) : i > next => rows[i].account # row.account
DayCloses == \A i \in LaterToday : rows[i].account # row.account

Gathered ==
  LET end(n) == EndName(row.date, n)
  IN  [n \in {end(m) : m \in DOMAIN portfolio} |->
         MapThenSumSet(LAMBDA m : Held(m), {m \in DOMAIN portfolio : end(m) = n})]
GatheredSources ==
  [s \in Symbol |-> UNION {sources[m] : m \in {n \in Symbol : EndName(row.date, n) = s}}]

PostRow ==
  /\ phase = "post"
  /\ LET new_balance == balance[row.account] + CashMoved(next)
     IN  IF balance_check /\ DayCloses /\ new_balance < 0 THEN Refuse("balance")
         ELSE /\ balance' = [balance EXCEPT ![row.account] = new_balance]
              /\ portfolio' = IF LaterToday = {} THEN Gathered ELSE portfolio
              /\ sources' = IF LaterToday = {} THEN GatheredSources ELSE sources
              /\ next' = next + 1
              /\ phase' = "open"
              /\ UNCHANGED <<rows, refusal, planned, pool_quantity, logs, renames,
                             components, capacities, splits>>

Finish ==
  /\ phase = "open"
  /\ next > Len(rows)
  /\ phase' = "ingested"
  /\ UNCHANGED <<rows, next, refusal, planned, portfolio, sources, pool_quantity, balance,
                 logs, renames, components, capacities, splits>>

Next ==
  \/ OpenTransactionDay
  \/ PlanStockSplit
  \/ NoteSource
  \/ AddAcquisition
  \/ AddDisposal
  \/ AddTransferToSpouse
  \/ AddGift
  \/ AddManagementFee
  \/ AddRename
  \/ PassOver
  \/ RefuseOther
  \/ AddEri
  \/ PostRow
  \/ Finish

Spec == Init /\ [][Next]_vars
=============================================================================
