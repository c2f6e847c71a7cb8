-------------------------- MODULE MatcherProperties --------------------------
(***************************************************************************)
(* What must hold of the matching walk, whatever the history.              *)
(***************************************************************************)
EXTENDS Matcher, FiniteSetsExt, Functions

Identifying == {"same_day", "bed_and_breakfast", "section_104", "finish"}

Tally == [quantity : Nat, amount : Int]
Context ==
  [quantity : Nat, amount : Int, no_gain_no_loss : BOOLEAN,
   left : Int, amount_left : Int, held : Int, cost : Int,
   proceeds : Int, gain : Int, base : Int,
   look : Day, ratio : Ratio, settled : BOOLEAN,
   eris : SUBSET Day, eri_price : Nat]
Report ==
  [count : Nat, proceeds : Int, allowable : Int, gains : Int, loss : Int,
   gift_loss : Int, exempt : Int, transferred : Int]
OutcomeType ==
  [report : Report, portfolio : Position, eris_distribution : [Day -> Tally]]

\* Every variable keeps its type.
TypeOK ==
  /\ history \in PreparedHistory
  /\ day \in Day /\ day <= TaxYearEnd
  /\ phase \in Phases
  /\ portfolio \in Position
  /\ bnb_list \in [Day -> Tally]
  /\ claimed_before \in [Day -> Nat]
  /\ ctx \in Context
  /\ eris_distribution \in [Day -> Tally]
  /\ report \in Report
  /\ identified \in [Day -> Nat]
  /\ previous \in Seq(OutcomeType)

----------------------------------------------------------------------------
(***************************************************************************)
(* No unit of an acquisition is identified with two disposals: what the    *)
(* day's own sale and transfer took and what earlier disposals claimed     *)
(* together never exceed what the day bought (matching.py, the same-day    *)
(* rule, the 30-day claims and the refusal of contending disposals).       *)
(***************************************************************************)
NoAcquisitionIdentifiedTwice ==
  \A d \in Day :
    identified[d] + bnb_list[d].quantity <= history[d].purchased.quantity

(***************************************************************************)
(* The same-day rule comes first: an earlier disposal never claims units   *)
(* that the acquisition day's own disposals will be identified against.    *)
(***************************************************************************)
OwnDayComesFirst ==
  \A d \in Day : bnb_list[d].quantity > 0 =>
    bnb_list[d].quantity + SameDayClaims(history[d])
      <= history[d].purchased.quantity

(***************************************************************************)
(* What is still to be identified is never more than the pool the disposal *)
(* sees, so neither the 30-day rule nor the pool divides by nothing.       *)
(***************************************************************************)
PoolCoversDisposal ==
  phase \in Identifying => ctx.left >= 0 /\ ctx.left <= ctx.held

(***************************************************************************)
(* The two passes agree: at every day's close the rebuilt pool holds what  *)
(* the first pass counted.                                                 *)
(***************************************************************************)
PassesAgreeOnUnits ==
  phase = "close" => portfolio.quantity = Holding(history)[day]

\* No assertion of the walk fails on a history the first pass accepted.
NoAssertionFails == phase # "fault"

(***************************************************************************)
(* A repurchase takes on the basis the disposal it replaces carried, which *)
(* may be nil but is never negative, so an acquisition never brings a      *)
(* negative cost into the pool (the assertion in process_acquisition).     *)
(***************************************************************************)
RepurchaseBasisNotNegative ==
  phase = "acquire" => ModifiedAmount(today, bnb_list[day]) >= 0

(***************************************************************************)
(* Cost is neither made nor lost beyond rounding: everything acquired and  *)
(* every ERI charge is in the pool, was allowed to a disposal or a         *)
(* transfer, or is on its way to a repurchase.  An addition to the pool,   *)
(* the pool a disposal writes back and a share of an acquisition are each  *)
(* rounded once, by half a grid unit at most, and a reported gain by half  *)
(* a penny; Roundings counts them.  Stated for reports that cover every    *)
(* day and exempt no disposal.                                             *)
(***************************************************************************)
Acquired(d) ==
  \/ d < day
  \/ d = day /\ phase \notin {"open", "acquire"}
CostIn ==
  MapThenSumSet(LAMBDA d : eris_distribution[d].amount, Day)
  + MapThenSumSet(LAMBDA d :
      IF Acquired(d) THEN TotalAmount(history[d])
      ELSE IF bnb_list[d].quantity = 0 THEN 0
      ELSE ShareOfCost(bnb_list[d].quantity, history[d].purchased.quantity,
                       history[d].purchased.amount), Day)
CostOut ==
  report.allowable + report.transferred + ctx.base
  + (IF phase \in Identifying THEN ctx.cost ELSE portfolio.amount)
  + MapThenSumSet(LAMBDA d : IF Acquired(d) THEN 0 ELSE bnb_list[d].amount, Day)

DisposalsOn(d) ==
  (IF history[d].disposed.quantity > 0 THEN 1 ELSE 0)
  + (IF history[d].transferred > 0 THEN 1 ELSE 0)
\* The disposals by now that may have claimed units of the day.
Claimants(d) == {e \in Day : e < d /\ d <= e + BED_AND_BREAKFAST_DAYS /\ e <= day}
ShareRoundings(d) ==
  IF bnb_list[d].quantity = 0 THEN 0 ELSE 1 + MapThenSumSet(DisposalsOn, Claimants(d))
Roundings ==
  Cardinality({d \in Day : Acquired(d) /\ TotalQuantity(history[d]) + TotalAmount(history[d]) > 0})
  + MapThenSumSet(DisposalsOn, 1 .. day)
  + MapThenSumSet(ShareRoundings, Day)
Dust == GRID * Roundings + PENNY * report.count

CostConserved ==
  phase \notin {"refused", "fault"} =>
    2 * (CostIn - CostOut) \in -Dust .. Dust

(***************************************************************************)
(* A claim made on an acquisition counts only if it is made before the     *)
(* walk prices that acquisition: no step adds one to a day already priced, *)
(* where the pool would keep a cost some disposal was also allowed.        *)
(***************************************************************************)
ClaimsPrecedeAcquisition ==
  [][\A d \in Day : Acquired(d) /\ phase # "done" =>
       bnb_list'[d] = bnb_list[d]]_vars

(***************************************************************************)
(* A claim across reorganisations takes, in the acquisition's units, the   *)
(* same shares the disposal gave up in its own: every reorganisation in    *)
(* between has a ratio, and the two counts differ from the ratio of them   *)
(* all by rounding at most, whichever way they are converted               *)
(* (_match_across_splits).                                                 *)
(***************************************************************************)
SplitsBetween(first, last) ==
  {d \in Day : first < d /\ d <= last /\ history[d].split.planned}
RatioBetween(first, last) ==
  FoldSet(LAMBDA d, ratio : ComposeRatios(history[d].split.ratio, ratio), Unscaled,
          SplitsBetween(first, last))

ClaimsFollowTheRatio ==
  [][phase = "bed_and_breakfast" /\ bnb_list' # bnb_list =>
       LET ratio    == RatioBetween(day, ctx'.look)
           matched  == ctx.left - ctx'.left
           consumed == bnb_list'[ctx'.look].quantity - bnb_list[ctx'.look].quantity
           error    == 2 * (consumed * ratio.den - matched * ratio.num)
           bound    == IF ratio.num > ratio.den THEN ratio.num ELSE ratio.den
       IN  /\ \A d \in SplitsBetween(day, ctx'.look) : history[d].split.ratio # NoRatio
           /\ matched > 0 /\ consumed > 0
           /\ error \in -bound .. bound]_vars

(***************************************************************************)
(* Calculating again over the same prepared history gives the same report. *)
(***************************************************************************)
RecalculationAgrees ==
  phase = "done" /\ previous # <<>> => Outcome = previous[1]

(* The units then held, and those disposed of by then and repurchased later. *)
ClaimsFrom(first) ==
  SumFunctionOnSet([d \in Day |-> bnb_list[d].quantity], first .. LastDay)
TreatedAsHeld == portfolio.quantity + ClaimsFrom(day)

(***************************************************************************)
(* Excess reported income reaches every unit: once a report's day closes,  *)
(* at least the units then held are charged, and with them the units       *)
(* disposed of by then and repurchased later within the 30 days, which are *)
(* treated as held (process_eri and _match_bed_and_breakfast).             *)
(***************************************************************************)
EriReachesEveryUnit ==
  phase = "open" /\ day > 1 /\ history[day - 1].eri > 0 =>
    eris_distribution[day - 1].quantity >= TreatedAsHeld

(***************************************************************************)
(* Excess reported income is due once on a unit: by the close of a report's *)
(* day no more units are charged than are then held, or were disposed of   *)
(* and repurchased later within the 30 days and so are treated as held.    *)
(***************************************************************************)
EriChargedOncePerUnit ==
  phase = "open" /\ day > 1 =>
    eris_distribution[day - 1].quantity <= TreatedAsHeld

(***************************************************************************)
(* The walk implements the order of identification, step for step, on      *)
(* holdings that are not reorganised.  A failed assertion gives up the     *)
(* calculation as a refusal does.                                          *)
(***************************************************************************)
DisposalsToday ==
  {kind \in {"sale", "transfer"} :
     IF kind = "sale" THEN today.disposed.quantity > 0 ELSE today.transferred > 0}

DueNow ==
  CASE phase \in {"open", "acquire", "reconcile", "dispose"} -> DisposalsToday
    [] phase = "transfer" \/ (phase \in Identifying /\ ~ctx.no_gain_no_loss) ->
         DisposalsToday \ {"sale"}
    [] OTHER -> {}

Identification == INSTANCE ShareIdentification WITH
  due     <- DueNow,
  left    <- IF phase \in Identifying THEN ctx.left ELSE 0,
  own     <- identified,
  claims  <- [d \in Day |-> bnb_list[d].quantity],
  refused <- phase \in {"refused", "fault"}

NeverReorganised == \A d \in Day : ~history[d].split.planned

ImplementsIdentification == Identification!Spec
=============================================================================
