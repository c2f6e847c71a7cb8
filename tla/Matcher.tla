------------------------------- MODULE Matcher -------------------------------
(***************************************************************************)
(* The second pass over one holding: Matcher.walk replays the prepared     *)
(* history day by day and identifies every disposal first against the      *)
(* day's own purchases, then against those of the following days, then     *)
(* against the Section 104 pool.                                           *)
(*                                                                         *)
(* One action per step of the walk.  process_disposal is several: its      *)
(* context is `ctx`, and the 30-day search is one action per day searched. *)
(* A CalculationError ends the walk in phase "refused", a failed assertion *)
(* in phase "fault".                                                       *)
(*                                                                         *)
(* A disposal's fees are left out: they are shared out exactly as its      *)
(* proceeds are and then added to both sides of every gain.                *)
(*                                                                         *)
(* A definition Name_Slip is what a slip in Name's code would make of it,  *)
(* and no part of the specification; PROJECT.json pairs each one with the  *)
(* property that tells the two apart.                                      *)
(***************************************************************************)
EXTENDS History

CONSTANT Histories   \* the prepared histories the walk may be given

ASSUME HistoriesAssumption == Histories \subseteq PreparedHistory

VARIABLES
  history,           \* PreparedHistory: what the first pass recorded
  day,               \* the day being walked
  phase,             \* where in the day the walk is, or how it ended
  portfolio,         \* the holding's Section 104 pool
  bnb_list,          \* what earlier disposals claimed of each day's purchases
  claimed_before,    \* the counts of bnb_list as a day of transfers opened
  ctx,               \* DisposalContext of the disposal being identified
  eris_distribution, \* units and income charged to each day's ERI report
  report,            \* the totals of WalkResult
  identified,        \* units of a day's purchases its own disposals took
  previous           \* reports of the calculations already finished

vars == <<history, day, phase, portfolio, bnb_list, claimed_before, ctx,
          eris_distribution, report, identified, previous>>

today == history[day]

Phases == {"open", "acquire", "reconcile", "dispose", "transfer", "close",
           "same_day", "bed_and_breakfast", "section_104", "finish",
           "done", "refused", "fault"}

Nothing == [quantity |-> 0, amount |-> 0]

NoReport ==
  [count |-> 0, proceeds |-> 0, allowable |-> 0, gains |-> 0, loss |-> 0,
   gift_loss |-> 0, exempt |-> 0, transferred |-> 0]

(***************************************************************************)
(* quantity, amount: the disposal as recorded.  left, amount_left: what is *)
(* not identified yet.  held, cost: the pool as the disposal sees it.      *)
(* proceeds, gain, base: totals of the parts identified so far.  look: the *)
(* last day searched.  ratio: the reorganisations passed on the way there, *)
(* settled is FALSE once one of them has no ratio.  eris, eri_price: the   *)
(* ERI reports passed on the way and the sum of their prices.              *)
(***************************************************************************)
DisposalContext(quantity, amount, no_gain_no_loss) ==
  [quantity |-> quantity, amount |-> amount, no_gain_no_loss |-> no_gain_no_loss,
   left |-> quantity, amount_left |-> amount,
   held |-> portfolio.quantity, cost |-> portfolio.amount,
   proceeds |-> 0, gain |-> 0, base |-> 0,
   look |-> day, ratio |-> Unscaled, settled |-> TRUE,
   eris |-> IF today.eri > 0 THEN {day} ELSE {}, eri_price |-> today.eri]

NoContext ==
  [quantity |-> 0, amount |-> 0, no_gain_no_loss |-> FALSE,
   left |-> 0, amount_left |-> 0, held |-> 0, cost |-> 0,
   proceeds |-> 0, gain |-> 0, base |-> 0,
   look |-> 1, ratio |-> Unscaled, settled |-> TRUE, eris |-> {}, eri_price |-> 0]

\* A calculator and its run state as they are created.
Init ==
  /\ history \in Histories
  /\ day = 1
  /\ phase = "open"
  /\ portfolio = NoPosition
  /\ bnb_list = [d \in Day |-> Nothing]
  /\ claimed_before = [d \in Day |-> 0]
  /\ ctx = NoContext
  /\ eris_distribution = [d \in Day |-> Nothing]
  /\ report = NoReport
  /\ identified = [d \in Day |-> 0]
  /\ previous = <<>>

----------------------------------------------------------------------------
(***************************************************************************)
(* The day opens: the claims already made are noted if the day has a       *)
(* transfer, and a reorganisation restates the opening holding.            *)
(***************************************************************************)
SplitDisagrees ==
  today.split.planned /\ portfolio.quantity # today.split.day_open

OpenDay ==
  /\ phase = "open"
  /\ claimed_before' = [d \in Day |->
       IF today.transferred > 0 THEN bnb_list[d].quantity ELSE 0]
  /\ phase' = IF SplitDisagrees THEN "refused" ELSE "acquire"
  /\ portfolio' = IF today.split.planned /\ ~SplitDisagrees
                    THEN [portfolio EXCEPT !.quantity = today.split.scaled_open]
                    ELSE portfolio
  /\ UNCHANGED <<history, day, bnb_list, ctx, eris_distribution, report,
                 identified, previous>>

(***************************************************************************)
(* process_acquisition.  What an earlier disposal claimed leaves the pool  *)
(* at the price it was given and comes back at the cost the disposal took  *)
(* out of the pool.  Cost with no units to be part of is refused.          *)
(***************************************************************************)
ModifiedAmount_PricedOverTheDay(record, claim) ==
  IF record.purchased.quantity > 0
    THEN TotalAmount(record) + claim.amount
         - ShareOfCost(claim.quantity, TotalQuantity(record), TotalAmount(record))
    ELSE TotalAmount(record)
ModifiedAmount(record, claim) ==
  IF record.purchased.quantity > 0
    THEN TotalAmount(record) + claim.amount
         - ShareOfCost(claim.quantity, record.purchased.quantity,
                       record.purchased.amount)
    ELSE TotalAmount(record)

CostWithoutUnits ==
  /\ today.cost_only # 0
  /\ portfolio.quantity + TotalQuantity(today) = 0

AcquisitionBreaks ==
  \/ /\ today.purchased.quantity > 0
     /\ bnb_list[day].quantity > today.purchased.quantity
  \/ ModifiedAmount(today, bnb_list[day]) < 0

ProcessAcquisition ==
  /\ phase = "acquire"
  /\ phase' = IF CostWithoutUnits THEN "refused"
              ELSE IF AcquisitionBreaks THEN "fault" ELSE "reconcile"
  /\ portfolio' =
       IF phase' = "reconcile" /\ TotalQuantity(today) + TotalAmount(today) > 0
         THEN AddToPosition(portfolio, TotalQuantity(today),
                            ModifiedAmount(today, bnb_list[day]))
         ELSE portfolio
  /\ UNCHANGED <<history, day, bnb_list, claimed_before, ctx,
                 eris_distribution, report, identified, previous>>

(***************************************************************************)
(* record_split_reconciliations: the correction to the broker's own count, *)
(* after the day's acquisitions and before its disposals.                  *)
(***************************************************************************)
RecordSplitReconciliations ==
  /\ phase = "reconcile"
  /\ LET quantity == portfolio.quantity + today.split.delta
     IN  /\ phase' = IF quantity < 0 THEN "refused" ELSE "dispose"
         /\ portfolio' = IF quantity < 0 THEN portfolio
                         ELSE [portfolio EXCEPT !.quantity = quantity]
  /\ UNCHANGED <<history, day, bnb_list, claimed_before, ctx,
                 eris_distribution, report, identified, previous>>

----------------------------------------------------------------------------
\* process_disposal up to its three identification steps.
BeginDisposal(quantity, amount, no_gain_no_loss) ==
  /\ phase' = IF quantity <= portfolio.quantity THEN "same_day" ELSE "fault"
  /\ ctx' = DisposalContext(quantity, amount, no_gain_no_loss)

StartSale ==
  /\ phase = "dispose"
  /\ IF today.disposed.quantity > 0
       THEN BeginDisposal(today.disposed.quantity, today.disposed.amount, FALSE)
       ELSE phase' = "transfer" /\ UNCHANGED ctx
  /\ UNCHANGED <<history, day, portfolio, bnb_list, claimed_before,
                 eris_distribution, report, identified, previous>>

(***************************************************************************)
(* _contending_acquisitions: the days a sale and a transfer of today would *)
(* both be identified against.  Only claims made before today are settled, *)
(* and a later day's own disposals have first call on its purchases.       *)
(***************************************************************************)
Window == {d \in Day : d > day /\ d <= day + BED_AND_BREAKFAST_DAYS}

HasSharesGoingSpare(d) ==
  /\ history[d].purchased.quantity > 0
  /\ history[d].purchased.quantity - claimed_before[d]
       - (IF d = day THEN 0 ELSE SameDayClaims(history[d])) > 0

Contended_Unasked == {}
Contended == {d \in {day} \cup Window : HasSharesGoingSpare(d)}

\* _record_transfers_to_spouse: a transfer of the day, after its sale.
StartTransfer ==
  /\ phase = "transfer"
  /\ IF today.transferred = 0 THEN phase' = "close" /\ UNCHANGED ctx
     ELSE IF today.disposed.quantity > 0 /\ Contended # {}
       THEN phase' = "refused" /\ UNCHANGED ctx
       ELSE BeginDisposal(today.transferred, 0, TRUE)
  /\ UNCHANGED <<history, day, portfolio, bnb_list, claimed_before,
                 eris_distribution, report, identified, previous>>

(***************************************************************************)
(* DisposalContext.take_share: the proceeds of `units`, the part that      *)
(* finishes the disposal taking whatever is left.                          *)
(***************************************************************************)
TakeShare_AlwaysPart(units) == normalize_amount(units * ctx.amount, ctx.quantity)
TakeShare(units) ==
  IF units = ctx.left THEN ctx.amount_left
  ELSE normalize_amount(units * ctx.amount, ctx.quantity)

Identify_PoolKeepsUnits(units, allowable, removed) ==
  LET proceeds == IF ctx.no_gain_no_loss THEN allowable ELSE TakeShare(units)
  IN  [ctx EXCEPT !.left = @ - units,
                  !.amount_left = @ - TakeShare(units),
                  !.cost = @ - removed,
                  !.proceeds = @ + proceeds,
                  !.gain = @ + proceeds - allowable,
                  !.base = @ + allowable]
\* The context once `units` are identified at `allowable`, `removed` of pool cost.
Identify(units, allowable, removed) ==
  LET proceeds == IF ctx.no_gain_no_loss THEN allowable ELSE TakeShare(units)
  IN  [ctx EXCEPT !.left = @ - units,
                  !.amount_left = @ - TakeShare(units),
                  !.held = @ - units,
                  !.cost = @ - removed,
                  !.proceeds = @ + proceeds,
                  !.gain = @ + proceeds - allowable,
                  !.base = @ + allowable]

\* _match_same_day: against the day's real purchases only.
MatchSameDay ==
  /\ phase = "same_day"
  /\ LET purchased == today.purchased
         units == IF ctx.left < purchased.quantity THEN ctx.left
                  ELSE purchased.quantity
         cost  == normalize_amount(units * purchased.amount, purchased.quantity)
     IN  IF units > 0
           THEN /\ ctx' = Identify(units, cost, cost)
                /\ identified' = [identified EXCEPT ![day] = @ + units]
           ELSE UNCHANGED <<ctx, identified>>
  /\ phase' = "bed_and_breakfast"
  /\ UNCHANGED <<history, day, portfolio, bnb_list, claimed_before,
                 eris_distribution, report, previous>>

----------------------------------------------------------------------------
(***************************************************************************)
(* _match_bed_and_breakfast, one day of its search per step.  What the     *)
(* disposal already passed on the way there comes with it.                 *)
(***************************************************************************)
SearchDay == ctx.look + 1
Searching ==
  /\ ctx.left > 0
  /\ SearchDay \in Window

(***************************************************************************)
(* What a later day's purchases still have to give: nothing at all when    *)
(* the day disposes of more than it bought.  That no day is claimed for    *)
(* more than it bought, which the search asserts on its way, is the        *)
(* invariant OwnDayComesFirst.                                             *)
(***************************************************************************)
Available_OwnDayIgnored(d) ==
  history[d].purchased.quantity - bnb_list[d].quantity
Available_ClaimsIgnored(d) ==
  IF SameDayClaims(history[d]) > history[d].purchased.quantity THEN 0
  ELSE history[d].purchased.quantity - SameDayClaims(history[d])
Available(d) ==
  LET record == history[d]
  IN  IF \/ record.purchased.quantity = 0
         \/ SameDayClaims(record) > record.purchased.quantity
        THEN 0
      ELSE record.purchased.quantity - SameDayClaims(record) - bnb_list[d].quantity

\* The context once the next day is reached, with what lies on the way there.
ReachedContext_EriPassedBy ==
  LET found == history[SearchDay]
  IN  [ctx EXCEPT
         !.look = SearchDay,
         !.settled = @ /\ (found.split.planned => found.split.ratio # NoRatio),
         !.ratio = IF found.split.planned /\ found.split.ratio # NoRatio
                     THEN ComposeRatios(@, found.split.ratio) ELSE @]
ReachedContext ==
  LET found == history[SearchDay]
  IN  [ctx EXCEPT
         !.look = SearchDay,
         !.settled = @ /\ (found.split.planned => found.split.ratio # NoRatio),
         !.ratio = IF found.split.planned /\ found.split.ratio # NoRatio
                     THEN ComposeRatios(@, found.split.ratio) ELSE @,
         !.eris = IF found.eri > 0 THEN @ \cup {SearchDay} ELSE @,
         !.eri_price = @ + found.eri]

(***************************************************************************)
(* _match_across_splits: what the disposal takes, in its own units, and    *)
(* what that consumes of the acquisition, in the acquisition's.            *)
(***************************************************************************)
MatchedUnits(reached, available) ==
  LET convertible == unscale_quantity(available, reached.ratio)
  IN  IF ctx.left < convertible THEN ctx.left ELSE convertible

ConsumedUnits_NotScaled(reached, available) == MatchedUnits(reached, available)
ConsumedUnits(reached, available) ==
  LET matched == MatchedUnits(reached, available)
      scaled  == scale_quantity(matched, reached.ratio)
  IN  IF matched = unscale_quantity(available, reached.ratio) \/ scaled > available
        THEN available ELSE scaled

\* The basis an acquisition will take on for the units a disposal claims of it.
ClaimedBasis(reached, matched, delta) == delta + matched * reached.eri_price

\* The day in bnb_list a claim is recorded under: the acquisition's.
ClaimedDay_OfDisposal(reached) == day
ClaimedDay(reached) == reached.look

(***************************************************************************)
(* The claim itself: the pool gives up its average cost of the units, the  *)
(* acquisition will take that cost on in place of its own, and every ERI   *)
(* report passed on the way is charged on the units as if they were held.  *)
(***************************************************************************)
Claim(reached, matched, consumed) ==
  LET record == history[reached.look]
      allowable == ShareOfCost(consumed, record.purchased.quantity,
                               record.purchased.amount)
      delta == normalize_amount(matched * ctx.cost, ctx.held)
      after == Identify(matched, allowable, delta)
  IN  /\ ctx' = [reached EXCEPT
                   !.left = after.left, !.amount_left = after.amount_left,
                   !.held = after.held, !.cost = after.cost,
                   !.proceeds = after.proceeds, !.gain = after.gain,
                   !.base = after.base]
      \* The last units gone must leave no cost behind: asserted before the
      \* claim is recorded.
      /\ phase' = IF after.held = 0 /\ after.cost # 0 THEN "fault"
                  ELSE "bed_and_breakfast"
      /\ bnb_list' =
           IF phase' = "fault" THEN bnb_list
           ELSE [bnb_list EXCEPT ![ClaimedDay(reached)] =
                  [quantity |-> @.quantity + consumed,
                   amount |-> @.amount + ClaimedBasis(reached, matched, delta)]]
      /\ eris_distribution' = [d \in Day |->
           IF d \in reached.eris
             THEN [quantity |-> eris_distribution[d].quantity + matched,
                   amount |-> eris_distribution[d].amount + matched * history[d].eri]
             ELSE eris_distribution[d]]

\* A day with nothing to give is passed over.
SearchPassesDay ==
  /\ phase = "bed_and_breakfast"
  /\ Searching
  /\ Available(SearchDay) = 0
  /\ ctx' = ReachedContext
  /\ UNCHANGED <<history, day, phase, portfolio, bnb_list, claimed_before,
                 eris_distribution, report, identified, previous>>

(***************************************************************************)
(* A match needs every ratio on the way, and both counts of it to be       *)
(* expressible; a match that is not is refused.                            *)
(***************************************************************************)
Inexpressible(reached, available) ==
  \/ ~reached.settled
  \/ unscale_quantity(available, reached.ratio) <= 0
  \/ ConsumedUnits(reached, available) <= 0

SearchRefusesDay ==
  /\ phase = "bed_and_breakfast"
  /\ Searching
  /\ Available(SearchDay) # 0
  /\ Inexpressible(ReachedContext, Available(SearchDay))
  /\ phase' = "refused"
  /\ UNCHANGED <<history, day, portfolio, bnb_list, claimed_before, ctx,
                 eris_distribution, report, identified, previous>>

SearchMatchesDay ==
  /\ phase = "bed_and_breakfast"
  /\ Searching
  /\ LET available == Available(SearchDay)
     IN  /\ available # 0
         /\ ~Inexpressible(ReachedContext, available)
         /\ Claim(ReachedContext, MatchedUnits(ReachedContext, available),
                  ConsumedUnits(ReachedContext, available))
  /\ UNCHANGED <<history, day, portfolio, claimed_before, report, identified,
                 previous>>

EndSearch ==
  /\ phase = "bed_and_breakfast"
  /\ ~Searching
  /\ phase' = "section_104"
  /\ UNCHANGED <<history, day, portfolio, bnb_list, claimed_before, ctx,
                 eris_distribution, report, identified, previous>>

\* _match_section_104: whatever is left, at the pool's average cost.
MatchSection104 ==
  /\ phase = "section_104"
  /\ LET delta == normalize_amount(ctx.left * ctx.cost, ctx.held)
         after == Identify(ctx.left, delta, delta)
     IN  IF ctx.left > 0
           THEN /\ ctx' = after
                /\ phase' = IF after.held = 0 /\ normalize_amount(after.cost, 1) # 0
                              THEN "fault" ELSE "finish"
           ELSE phase' = "finish" /\ UNCHANGED ctx
  /\ UNCHANGED <<history, day, portfolio, bnb_list, claimed_before,
                 eris_distribution, report, identified, previous>>

----------------------------------------------------------------------------
(***************************************************************************)
(* The end of process_disposal and what walk does with its result: the     *)
(* pool is written back and, in the reported year, the totals grow by the  *)
(* disposal under its kind.  A transfer adds to none of them.              *)
(***************************************************************************)
ReportWith(kind, proceeds, gain) ==
  IF kind = "exempt" THEN [report EXCEPT !.exempt = @ + proceeds]
  ELSE [report EXCEPT
          !.count = @ + 1,
          !.proceeds = @ + proceeds,
          !.allowable = @ + proceeds - gain,
          !.gains = IF gain > 0 THEN @ + gain ELSE @,
          !.gift_loss = IF gain <= 0 /\ kind = "gift" THEN @ + gain ELSE @,
          !.loss = IF gain <= 0 /\ kind # "gift" THEN @ + gain ELSE @]

FinishReport ==
  IF day < TaxYearStart THEN report
  ELSE IF ctx.no_gain_no_loss
    THEN [report EXCEPT !.transferred = @ + ctx.base]
    ELSE ReportWith(today.disposed.kind, today.disposed.amount,
                    round_pennies(ctx.gain))

\* What walk and its caller assert of a finished disposal.
FinishBreaks ==
  \/ ctx.left # 0
  \/ ctx.no_gain_no_loss /\ ctx.gain # 0
  \/ ~ctx.no_gain_no_loss /\ day >= TaxYearStart
       /\ normalize_amount(ctx.amount - ctx.proceeds, 1) # 0

FinishDisposal ==
  /\ phase = "finish"
  /\ portfolio' = [quantity |-> ctx.held, amount |-> normalize_amount(ctx.cost, 1)]
  /\ phase' = IF FinishBreaks THEN "fault"
              ELSE IF ctx.no_gain_no_loss THEN "close" ELSE "transfer"
  /\ report' = IF FinishBreaks THEN report ELSE FinishReport
  /\ ctx' = NoContext
  /\ UNCHANGED <<history, day, bnb_list, claimed_before, eris_distribution,
                 identified, previous>>

(***************************************************************************)
(* The day closes: a reorganisation must have left the holding where the   *)
(* first pass said, and the day's ERI report is added to the cost of what  *)
(* is still held and charged.                                              *)
(***************************************************************************)
CloseDisagrees ==
  today.split.planned /\ portfolio.quantity # today.split.day_close

AtTheEnd == day = TaxYearEnd

CloseDay ==
  /\ phase = "close"
  /\ LET income == portfolio.quantity * today.eri
     IN  IF CloseDisagrees
           THEN /\ phase' = "refused"
                /\ UNCHANGED <<day, portfolio, eris_distribution>>
           ELSE /\ day' = IF AtTheEnd THEN day ELSE day + 1
                /\ phase' = IF AtTheEnd THEN "done" ELSE "open"
                /\ portfolio' = [portfolio EXCEPT !.amount = @ + income]
                /\ eris_distribution' =
                     IF income = 0 THEN eris_distribution
                     ELSE [eris_distribution EXCEPT ![day] =
                             [quantity |-> @.quantity + portfolio.quantity,
                              amount |-> @.amount + income]]
  /\ UNCHANGED <<history, bnb_list, claimed_before, ctx, report, identified,
                 previous>>

(***************************************************************************)
(* calculate_capital_gain called again: the run state starts from nothing, *)
(* over the same prepared history.                                         *)
(***************************************************************************)
MaxRuns == 2

Outcome == [report |-> report, portfolio |-> portfolio,
            eris_distribution |-> eris_distribution]

ClaimsAfterReset_Kept == bnb_list
ClaimsAfterReset == [d \in Day |-> Nothing]

Recalculate ==
  /\ phase = "done"
  /\ Len(previous) + 1 < MaxRuns
  /\ previous' = Append(previous, Outcome)
  /\ day' = 1
  /\ phase' = "open"
  /\ portfolio' = NoPosition
  /\ bnb_list' = ClaimsAfterReset
  /\ claimed_before' = [d \in Day |-> 0]
  /\ ctx' = NoContext
  /\ eris_distribution' = [d \in Day |-> Nothing]
  /\ report' = NoReport
  /\ identified' = [d \in Day |-> 0]
  /\ UNCHANGED history

Next ==
  \/ OpenDay
  \/ ProcessAcquisition
  \/ RecordSplitReconciliations
  \/ StartSale
  \/ StartTransfer
  \/ MatchSameDay
  \/ SearchPassesDay
  \/ SearchRefusesDay
  \/ SearchMatchesDay
  \/ EndSearch
  \/ MatchSection104
  \/ FinishDisposal
  \/ CloseDay
  \/ Recalculate

Spec == Init /\ [][Next]_vars
=============================================================================
