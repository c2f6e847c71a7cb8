------------------------------- MODULE History -------------------------------
(***************************************************************************)
(* What the first pass hands the matcher about one holding: the prepared   *)
(* history, one record per day.  Days are 1..LastDay.  The holding has one *)
(* name throughout; renames and the source side of a spin-off belong to    *)
(* several holdings and are not part of this module.                       *)
(***************************************************************************)
EXTENDS Amounts, Sequences

CONSTANTS
  LastDay,               \* the last day anything is recorded on
  TaxYearStart,          \* the first day the report covers
  TaxYearEnd,            \* the last day the report covers, where the walk stops
  BED_AND_BREAKFAST_DAYS \* how many days a disposal looks ahead

ASSUME HistoryAssumption ==
  /\ LastDay \in Nat \ {0}
  /\ TaxYearEnd \in 1 .. LastDay
  /\ TaxYearStart \in 1 .. TaxYearEnd
  /\ BED_AND_BREAKFAST_DAYS \in Nat \ {0}

Day == 1 .. LastDay

\* How a disposal is reported: see _disposal_log_prefix.
DisposalKind == {"sell", "gift", "gift-unconnected", "exempt"}

(***************************************************************************)
(* A reorganisation planned by the first pass: the ratio (none when the    *)
(* broker's counts do not settle it), the count the day opens with, what   *)
(* that is restated to, the correction to the broker's own count and the   *)
(* count the day must close with.  A day without one has NoSplit.          *)
(***************************************************************************)
NoRatio == [num |-> 0, den |-> 0]
NoSplit == [ratio |-> Unscaled, day_open |-> 0, scaled_open |-> 0,
            delta |-> 0, day_close |-> 0, planned |-> FALSE]
SplitTransformation ==
  [ratio : Ratio \cup {NoRatio}, day_open : Nat, scaled_open : Nat,
   delta : Int, day_close : Nat, planned : {TRUE}]

(***************************************************************************)
(* purchased, reorganised and cost_only are the three parts of the day's   *)
(* DayAcquisitions; disposed and transferred are its entries in            *)
(* disposal_list and transfer_to_spouse_list; eri is the price per unit of *)
(* an excess reported income report, nought on a day without one.          *)
(***************************************************************************)
DayRecord ==
  [purchased   : [quantity : Nat, amount : Nat],
   reorganised : [quantity : Nat, amount : Nat],
   cost_only   : Nat,
   disposed    : [quantity : Nat, amount : Int, kind : DisposalKind],
   transferred : Nat,
   eri         : Nat,
   split       : {NoSplit} \cup SplitTransformation]

PreparedHistory == [Day -> DayRecord]

\* Everything the day put into the holding.
TotalQuantity(record) == record.purchased.quantity + record.reorganised.quantity
TotalAmount(record) ==
  record.purchased.amount + record.reorganised.amount + record.cost_only

\* What the day's own disposals take out of its acquisition first.
SameDayClaims(record) == record.disposed.quantity + record.transferred

(***************************************************************************)
(* The holding at the close of each day as the first pass counts it, and   *)
(* the histories it accepts: no day gives up more than it holds.           *)
(***************************************************************************)
AfterReorganisation(record, opening) ==
  IF record.split.planned THEN record.split.scaled_open + record.split.delta
  ELSE opening

Capacity(record, opening) ==
  AfterReorganisation(record, opening) + TotalQuantity(record)

Holding(records) ==
  LET close[d \in 0 .. LastDay] ==
        IF d = 0 THEN 0
        ELSE Capacity(records[d], close[d - 1]) - SameDayClaims(records[d])
  IN  close

Accepted(records) ==
  LET close == Holding(records)
  IN  \A d \in Day :
        /\ close[d] >= 0
        /\ records[d].split.planned =>
             /\ records[d].split.day_open = close[d - 1]
             /\ records[d].split.day_close = close[d]
=============================================================================
