------------------------------ MODULE MCMatcher ------------------------------
(***************************************************************************)
(* Families of small histories the walk is checked on.  A family is every  *)
(* sequence of LastDay rows from an alphabet of day records that begins    *)
(* with a purchase, for what comes before one is quiet, and that the first *)
(* pass accepts.                                                           *)
(***************************************************************************)
EXTENDS MatcherProperties

Quiet ==
  [purchased |-> Nothing, reorganised |-> Nothing, cost_only |-> 0,
   disposed |-> [quantity |-> 0, amount |-> 0, kind |-> "sell"],
   transferred |-> 0, eri |-> 0, split |-> NoSplit]

Bought(q, a) == [Quiet EXCEPT !.purchased = [quantity |-> q, amount |-> a]]
Selling(record, q, a, kind) ==
  [record EXCEPT !.disposed = [quantity |-> q, amount |-> a, kind |-> kind]]
Sold(q, a) == Selling(Quiet, q, a, "sell")
Giving(record, q) == [record EXCEPT !.transferred = q]

Family(rows) == {h \in [Day -> rows] : TotalQuantity(h[1]) > 0 /\ Accepted(h)}

(***************************************************************************)
(* Purchases, sales, gifts and transfers to a spouse: counts that do not   *)
(* divide evenly, days that buy and dispose at once, the disposal smaller, *)
(* equal and larger, a sale and a transfer after the same purchases.       *)
(***************************************************************************)
TradingRows ==
  {Quiet, Bought(3, 100), Sold(1, 70), Sold(3, 121),
   Selling(Bought(3, 100), 2, 101, "sell"), Selling(Bought(1, 50), 2, 101, "gift")}
SpouseRows ==
  {Quiet, Bought(2, 101), Giving(Quiet, 1), Giving(Bought(3, 80), 1),
   Giving(Sold(1, 70), 1),
   Giving(Selling(Bought(1, 50), 1, 20, "exempt"), 1)}
IdentificationHistories == Family(TradingRows) \cup Family(SpouseRows)

(***************************************************************************)
(* Costs off the ten-decimal grid and thousands of it wide, so that a      *)
(* misplaced cost stands clear of the roundings; management fees, shares received by     *)
(* reorganisation, restatements up and down, corrected by the broker or    *)
(* not, and reorganisations no ratio is known of.                          *)
(***************************************************************************)
Received(record, q, a) == [record EXCEPT !.reorganised = [quantity |-> q, amount |-> a]]
WithFee(record, a) == [record EXCEPT !.cost_only = a]
CostRows ==
  {Quiet, Bought(3, 100001), Bought(2, 53002), WithFee(Quiet, 7001),
   WithFee(Received(Bought(1, 20002), 2, 31001), 5003), Sold(1, 70001), Sold(3, 120001),
   Selling(Received(Bought(2, 40002), 1, 10001), 1, 35002, "sell")}

Split(record, num, den, open, scaled, delta) ==
  [record EXCEPT !.split =
     [ratio |-> [num |-> num, den |-> den], day_open |-> open, scaled_open |-> scaled,
      delta |-> delta, planned |-> TRUE,
      day_close |-> scaled + delta + TotalQuantity(record) - SameDayClaims(record)]]
SplitRows ==
  {Quiet, Bought(4, 100001), Bought(2, 61001), Sold(2, 50002), Giving(Quiet, 1),
   Split(Quiet, 2, 1, 2, 4, 0), Split(Quiet, 3, 2, 4, 6, -1), Split(Quiet, 1, 2, 4, 2, 0),
   Split(Bought(2, 30001), 2, 1, 4, 8, 1), Split(Sold(2, 30002), 3, 2, 2, 3, 0),
   Split(Quiet, 0, 0, 2, 3, 0)}

\* The last day of these is quiet.
QuietAtEnd(rows) ==
  {h \in Family(rows \cup {Quiet}) : h[LastDay] = Quiet}

\* Excess reported income on every kind of day.
Reporting(record, price) == [record EXCEPT !.eri = price]
EriRows ==
  {Quiet, Reporting(Quiet, 3000), Bought(2, 60001), Bought(3, 99001), Sold(1, 40002),
   Sold(2, 90001), Reporting(Sold(1, 40001), 6000), Reporting(Bought(2, 72001), 3000)}
EriHistories == Family(EriRows)
CostHistories == QuietAtEnd(CostRows) \cup QuietAtEnd(SplitRows) \cup EriHistories

\* A holding sold whole and bought back across a report off the grid.
OffGridEriHistories ==
  Family({Quiet, Bought(2, 60), Sold(2, 90), Reporting(Quiet, 1), Reporting(Quiet, 3)})

\* Shares that cost nothing, sold and bought back, and a day that buys and sells.
FreeShareHistories ==
  Family({Bought(1, 0), Sold(1, 70), Selling(Bought(2, 101), 1, 60, "sell")})
=============================================================================
