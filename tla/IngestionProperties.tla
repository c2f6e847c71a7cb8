------------------------- MODULE IngestionProperties -------------------------
(***************************************************************************)
(* What must hold of the first pass, whatever the rows and their order.    *)
(***************************************************************************)
EXTENDS Ingestion

(***************************************************************************)
(* The count the matching walk rebuilds from what the first pass recorded: *)
(* each day restates and corrects, adds and takes away, and moves renamed  *)
(* holdings at its close.                                                  *)
(***************************************************************************)
Carried(split, entry, opening) ==
  (IF split.planned THEN split.scaled_open + split.delta ELSE opening)
  + entry.acquired - entry.disposed - entry.transferred

Rebuilt(reorganised, logged, renamed) ==
  LET close[d \in 0 .. LastDay] ==
        IF d = 0 THEN [s \in Symbol |-> 0]
        ELSE [s \in Symbol |->
                SumFunctionOnSet(
                  [n \in Symbol |-> Carried(reorganised[d][n], logged[d][n], close[d - 1][n])],
                  {n \in Symbol : renamed[d][n] = s})]
  IN  close

Replay == Rebuilt(splits, logs, renames)

(***************************************************************************)
(* A reorganised holding is not pooled that day with another name that     *)
(* held units, which the walk refuses, or that is reorganised as well.     *)
(***************************************************************************)
ReorganisedApart ==
  \A d \in Day, s \in Symbol : splits[d][s].planned =>
    \A n \in NamesOn(d, s) \ {s} : Replay[d - 1][n] = 0 /\ ~splits[d][n].planned

\* Every row read so far belongs to a day that has closed.
BetweenDays ==
  \/ phase = "ingested"
  \/ phase = "open" /\ next <= Len(rows) /\ row.date \notin planned
LastClosed == IF phase = "ingested" THEN LastDay ELSE row.date - 1

(***************************************************************************)
(* The two passes agree at every day's close, under every name, whatever   *)
(* order the rows of a day came in, and no holding has gone short: what    *)
(* the first pass checks later rows against is what the walk will hold.    *)
(***************************************************************************)
PassesAgreeAtEachClose ==
  BetweenDays =>
    LET counts == Replay[LastClosed]
    IN  \A s \in Symbol : /\ Held(s) = counts[s]
                          /\ ReorganisedApart => Held(s) >= 0

(***************************************************************************)
(* What the walk is given about a holding that is never renamed is a       *)
(* history it may be given: the Matcher module assumes no more than this.  *)
(***************************************************************************)
HandedOver(s) ==
  [d \in Day |->
     [purchased |-> [quantity |-> logs[d][s].acquired, amount |-> 0],
      reorganised |-> [quantity |-> 0, amount |-> 0], cost_only |-> 0,
      disposed |-> [quantity |-> logs[d][s].disposed, amount |-> 0,
                    kind |-> IF logs[d][s].gift = "connected" THEN "gift"
                             ELSE IF logs[d][s].gift = "unconnected" /\ ~logs[d][s].sale_day
                               THEN "gift-unconnected" ELSE "sell"],
      transferred |-> logs[d][s].transferred, eri |-> logs[d][s].eri,
      split |-> splits[d][s]]]

HandsOverAcceptedHistory ==
  phase = "ingested" =>
    \A s \in Symbol :
      (\A d \in Day : NamesOn(d, s) = {s}) =>
        HandedOver(s) \in PreparedHistory /\ Accepted(HandedOver(s))

(***************************************************************************)
(* An overdraft is judged once a day is complete: a history is refused for *)
(* one exactly when some account that had a row on a day closes that day   *)
(* below zero, never for the order its rows were read in.                  *)
(***************************************************************************)
ClosingCash(a, d) ==
  MapThenSumSet(CashMoved, {i \in DOMAIN rows : rows[i].account = a /\ rows[i].date <= d})
Overdrawn(d) ==
  \E i \in RowsOn(d) : /\ rows[i].action # "EXCESS_REPORTED_INCOME"
                       /\ ClosingCash(rows[i].account, d) < 0

OverdraftsAreReal ==
  /\ refusal = "balance" => Overdrawn(row.date)
  /\ phase = "ingested" /\ balance_check => \A d \in Day : ~Overdrawn(d)

(***************************************************************************)
(* Sales on a day that renames their holding are refused exactly when      *)
(* together they exceed what the holding can give up under all its names,  *)
(* whichever name each states and wherever the rename's row is read: what  *)
(* the names closed the day before with and what the day adds to them.     *)
(* None of the names may have closed short, or they could cancel out to a  *)
(* capacity of 0, which is read as a holding that was never there.         *)
(***************************************************************************)
RowsUnder(d, names) == {i \in RowsOn(d) : rows[i].symbol \in names}
SoldOn(d, names) ==
  MapThenSumSet(LAMBDA i : pool_quantity[i],
                {i \in RowsUnder(d, names) : rows[i].action = "SELL"})
CanGiveUp(d, names) ==
  MapThenSumSet(LAMBDA n : Replay[d - 1][n], names)
  + SignedQuantity(Increases(RowsUnder(d, names)), pool_quantity)
SoldTooMuch(d, s) ==
  components[d][s].names # {} /\ SoldOn(d, NamesOn(d, s)) > CanGiveUp(d, NamesOn(d, s))

RenameDayOrderFree ==
  /\ refusal = "shortfall" /\ components[row.date][row.symbol].names # {} =>
       SoldTooMuch(row.date, row.symbol)
  /\ phase = "ingested" =>
       \A d \in Day, s \in Symbol :
         (\A n \in NamesOn(d, s) : Replay[d - 1][n] >= 0) => ~SoldTooMuch(d, s)

(***************************************************************************)
(* A decrease on a day that reorganises its holding is never refused for   *)
(* where it sits among the day's increases and its event: the day was      *)
(* judged as a whole when it was planned.  What a day so judged gives up,  *)
(* in the units it ends in, is no more than what it opens with, restated   *)
(* and corrected, and what it adds.                                        *)
(***************************************************************************)
ReorganisesHolding(d, s) == \E n \in NamesOn(d, s) : SplitRowsOn(d, n) # {}

ReorganisationDayOrderFree ==
  /\ refusal = "shortfall" => ~ReorganisesHolding(row.date, row.symbol)
  /\ phase = "ingested" =>
       \A d \in Day, s \in Symbol : splits[d][s].planned =>
         splits[d][s].scaled_open + splits[d][s].delta
           + SignedQuantity(RowsUnder(d, NamesOn(d, s)), pool_quantity) >= 0

(***************************************************************************)
(* Which accounts a holding came from since a day last closed with none of *)
(* it, by the rows themselves.                                             *)
(***************************************************************************)
CameFrom ==
  LET counts == Replay
      from[d \in 0 .. LastDay] ==
        IF d = 0 THEN [s \in Symbol |-> {}]
        ELSE [s \in Symbol |->
                IF counts[d][s] = 0 THEN {}
                ELSE UNION {from[d - 1][n]
                            \cup {rows[i].account : i \in
                                    {j \in Increases(RowsOn(d)) : rows[j].symbol = n}} :
                            n \in {m \in Symbol : EndName(d, m) = s}}]
  IN  from

(***************************************************************************)
(* The accounts kept beside a holding are those that put units into it     *)
(* since it last closed a day empty: none forgotten, though the running    *)
(* count touched zero during a day or the holding changed its name, and    *)
(* none outliving the units.                                               *)
(***************************************************************************)
SourcesMatchHolding ==
  BetweenDays =>
    LET from == CameFrom[LastClosed]
    IN  \A s \in Symbol : Held(s) # 0 => sources[s] = from[s]

(***************************************************************************)
(* A broker's own reorganisation row, which states a change to one         *)
(* account, is read as a change to the whole holding only when the whole   *)
(* holding came from that account.                                         *)
(***************************************************************************)
BrokerDeltaIsWhole ==
  \A i \in DOMAIN rows :
    /\ rows[i].action = "STOCK_SPLIT" /\ rows[i].source = "broker"
    /\ splits[rows[i].date][rows[i].symbol].planned
    /\ SplitRowsOn(rows[i].date, rows[i].symbol) = {i}
    => CameFrom[rows[i].date - 1][rows[i].symbol]
       \cup {rows[j].account : j \in Increases(RowsBefore(i))} \subseteq {rows[i].account}

(***************************************************************************)
(* A gift to a connected person is the whole of its day's disposal: no     *)
(* sale, no other recipient and no second value stands beside it, so a     *)
(* loss on the day can be restricted as one.                               *)
(***************************************************************************)
ConnectedGiftStandsAlone ==
  phase = "ingested" =>
    \A i, j \in DOMAIN rows :
      /\ rows[i].action = "GIFT"
      /\ rows[j].action \in Decreasing \ {"TRANSFER_TO_SPOUSE"}
      /\ rows[j].date = rows[i].date /\ rows[j].symbol = rows[i].symbol
      => rows[j].action = "GIFT" /\ rows[j].price = rows[i].price

(***************************************************************************)
(* An ERI report is recorded under every ticker its fund is held under in  *)
(* the run, though the rename that says so is read later: by every rename  *)
(* row of the run, and, what holds, when none renames a ticker twice and   *)
(* no ticker belongs to two funds that report on one date, in which case   *)
(* the later report is taken for a duplicate of the earlier, or refused.   *)
(***************************************************************************)
FundNames(s) == {s} \cup (ConnectedNames(RenamePairs(DOMAIN rows), s) \ NamedByIsin)
Reports == {i \in DOMAIN rows : rows[i].action = "EXCESS_REPORTED_INCOME" /\ rows[i].price > 0}
ReportsFollowEveryRename ==
  phase = "ingested" =>
    \A i \in Reports : \A s \in FundNames(rows[i].symbol) :
      logs[rows[i].date][s].eri = rows[i].price

RenamedOnce ==
  \A i, j \in DOMAIN rows :
    /\ rows[i].action = "RENAME" /\ rows[j].action = "RENAME"
    /\ rows[i].renamed = rows[j].renamed
    => rows[i].symbol = rows[j].symbol
FundsApart ==
  \A i, j \in Reports :
    rows[i].date = rows[j].date /\ rows[i].symbol # rows[j].symbol
    => FundNames(rows[i].symbol) \cap FundNames(rows[j].symbol) = {}
ReportsReachEveryName == RenamedOnce /\ FundsApart => ReportsFollowEveryRename

(***************************************************************************)
(* A day that reorganises the holding the broker counted closes on the     *)
(* broker's count: what it stated after the event and what came later in   *)
(* the day, however fractions were rounded on the way.                     *)
(***************************************************************************)
StatedUnits(indices) == MapThenSumSet(LAMBDA i : Sign(i) * rows[i].quantity, indices)
ClosesOnBrokersCount ==
  BetweenDays =>
    \A i \in DOMAIN rows :
      LET d == rows[i].date
          s == rows[i].symbol
          before == splits[d][s].day_open + StatedUnits(RowsBefore(i))
          after == IF rows[i].source = "paired" THEN rows[i].event.after
                   ELSE before + rows[i].quantity
      IN  /\ d <= LastClosed
          /\ SplitRowsOn(d, s) = {i} /\ NamesOn(d, s) = {s}
          /\ splits[d][s].ratio # NoRatio
          /\ rows[i].source = "paired" => rows[i].event.before = before
          => Replay[d][s] = after + StatedUnits(RowsAround(i) \ RowsBefore(i))
=============================================================================
