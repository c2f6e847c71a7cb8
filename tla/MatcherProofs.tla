---------------------------- MODULE MatcherProofs ----------------------------
(***************************************************************************)
(* Proofs about the matching walk, for every history, grid and window.     *)
(***************************************************************************)
EXTENDS MatcherProperties, Induction

(***************************************************************************)
(* Arithmetic: every figure the walk computes is an integer as long as it  *)
(* divides by something positive.                                          *)
(***************************************************************************)
LEMMA RoundHalfUpType ==
  ASSUME NEW n \in Int, NEW d \in Int, d > 0
  PROVE  RoundHalfUp(n, d) \in Int
  BY DEF RoundHalfUp

LEMMA NormalizeType ==
  ASSUME NEW n \in Int, NEW d \in Int, d > 0
  PROVE  normalize_amount(n, d) \in Int
<1>1. GRID \in Int /\ GRID > 0
  BY AmountsAssumption
<1>2. d * GRID \in Int /\ d * GRID > 0
  BY <1>1
<1>3. RoundHalfUp(n, d * GRID) \in Int
  BY <1>2, RoundHalfUpType
<1> QED
  BY <1>1, <1>3 DEF normalize_amount

LEMMA RoundPenniesType ==
  ASSUME NEW amount \in Int
  PROVE  round_pennies(amount) \in Int
<1>1. PENNY \in Int /\ PENNY > 0
  BY AmountsAssumption
<1>2. RoundHalfUp(amount, PENNY) \in Int
  BY <1>1, RoundHalfUpType
<1> QED
  BY <1>1, <1>2 DEF round_pennies

LEMMA ShareOfCostType ==
  ASSUME NEW units \in Int, NEW quantity \in Int, quantity > 0, NEW amount \in Int
  PROVE  ShareOfCost(units, quantity, amount) \in Int
<1>1. units * amount \in Int
  OBVIOUS
<1>2. normalize_amount(units * amount, quantity) \in Int
  BY <1>1, NormalizeType
<1> QED
  BY <1>2 DEF ShareOfCost

\* No part of an acquisition costs more than all of it.
LEMMA ShareOfCostBounded ==
  ASSUME NEW units \in Int, NEW quantity \in Int, quantity > 0, NEW amount \in Int
  PROVE  ShareOfCost(units, quantity, amount) <= amount
<1>1. normalize_amount(units * amount, quantity) \in Int
  BY NormalizeType
<1> QED
  BY <1>1 DEF ShareOfCost

LEMMA ScaleType ==
  ASSUME NEW quantity \in Int, NEW ratio \in Ratio
  PROVE  /\ scale_quantity(quantity, ratio) \in Int
         /\ unscale_quantity(quantity, ratio) \in Int
<1>1. /\ ratio.num \in Int /\ ratio.num > 0
      /\ ratio.den \in Int /\ ratio.den > 0
  BY DEF Ratio
<1>2. quantity * ratio.num \in Int /\ quantity * ratio.den \in Int
  BY <1>1
<1> QED
  BY <1>1, <1>2, RoundHalfUpType DEF scale_quantity, unscale_quantity

LEMMA ComposeType ==
  ASSUME NEW first \in Ratio, NEW second \in Ratio
  PROVE  ComposeRatios(first, second) \in Ratio
<1>1. /\ first.num \in Nat \ {0} /\ first.den \in Nat \ {0}
      /\ second.num \in Nat \ {0} /\ second.den \in Nat \ {0}
  BY DEF Ratio
<1>2. /\ first.num * second.num \in Nat \ {0}
      /\ first.den * second.den \in Nat \ {0}
  BY <1>1
<1> QED
  BY <1>2 DEF ComposeRatios, Ratio

----------------------------------------------------------------------------
(***************************************************************************)
(* Type correctness.  It rests on the counts: the walk divides by the pool *)
(* the disposal sees and by the disposal's own count, so the invariant     *)
(* carries that neither is exhausted while units are left to identify.     *)
(***************************************************************************)
Counts ==
  /\ portfolio.quantity >= 0
  /\ PoolCoversDisposal
  /\ phase \in Identifying => ctx.left <= ctx.quantity

Sound == TypeOK /\ Counts

LEMMA DayType ==
  ASSUME TypeOK, NEW d \in Day
  PROVE  /\ history[d].purchased.quantity \in Nat
         /\ history[d].purchased.amount \in Nat
         /\ history[d].reorganised.quantity \in Nat
         /\ history[d].reorganised.amount \in Nat
         /\ history[d].cost_only \in Nat
         /\ history[d].disposed.quantity \in Nat
         /\ history[d].disposed.amount \in Int
         /\ history[d].disposed.kind \in DisposalKind
         /\ history[d].transferred \in Nat
         /\ history[d].eri \in Nat
         /\ history[d].split \in {NoSplit} \cup SplitTransformation
<1>1. history[d] \in DayRecord
  BY DEF TypeOK, PreparedHistory
<1> QED
  BY <1>1 DEF DayRecord

LEMMA SplitType ==
  ASSUME TypeOK, NEW d \in Day
  PROVE  /\ history[d].split.scaled_open \in Nat
         /\ history[d].split.delta \in Int
         /\ history[d].split.planned \in BOOLEAN
         /\ history[d].split.ratio # NoRatio => history[d].split.ratio \in Ratio
         /\ ~history[d].split.planned => history[d].split.delta = 0
<1>1. history[d].split \in {NoSplit} \cup SplitTransformation
  BY DayType
<1>2. CASE history[d].split = NoSplit
  BY <1>2 DEF NoSplit, Unscaled, Ratio
<1>3. CASE history[d].split \in SplitTransformation
  BY <1>3 DEF SplitTransformation
<1> QED
  BY <1>1, <1>2, <1>3

LEMMA ClaimType ==
  ASSUME TypeOK, NEW d \in Day
  PROVE  /\ bnb_list[d].quantity \in Nat
         /\ bnb_list[d].amount \in Int
<1>1. bnb_list[d] \in Tally
  BY DEF TypeOK
<1> QED
  BY <1>1 DEF Tally

LEMMA ContextType ==
  ASSUME TypeOK
  PROVE  /\ ctx \in Context
         /\ ctx.quantity \in Nat /\ ctx.amount \in Int
         /\ ctx.no_gain_no_loss \in BOOLEAN
         /\ ctx.left \in Int /\ ctx.amount_left \in Int
         /\ ctx.held \in Int /\ ctx.cost \in Int
         /\ ctx.proceeds \in Int /\ ctx.gain \in Int /\ ctx.base \in Int
         /\ ctx.look \in Day /\ ctx.ratio \in Ratio
         /\ ctx.settled \in BOOLEAN /\ ctx.eris \in SUBSET Day
         /\ ctx.eri_price \in Nat
  BY DEF TypeOK, Context

LEMMA NoContextType == NoContext \in Context
<1>1. 1 \in Day
  BY HistoryAssumption DEF Day
<1>2. Unscaled \in Ratio
  BY DEF Unscaled, Ratio
<1> QED
  BY <1>1, <1>2 DEF NoContext, Context

LEMMA InitSound == Init => Sound
<1> SUFFICES ASSUME Init
             PROVE  Sound
  OBVIOUS
<1>1. 1 \in Day /\ 1 <= TaxYearEnd
  BY HistoryAssumption DEF Day
<1>2. history \in PreparedHistory
  BY HistoriesAssumption DEF Init
<1>3. ctx \in Context
  BY NoContextType DEF Init
<1>4. bnb_list \in [Day -> Tally] /\ eris_distribution \in [Day -> Tally]
  BY DEF Init, Tally, Nothing
<1>5. report \in Report
  BY DEF Init, Report, NoReport
<1>6. portfolio \in Position /\ portfolio.quantity >= 0
  BY DEF Init, Position, NoPosition
<1>7. TypeOK
  BY <1>1, <1>2, <1>3, <1>4, <1>5, <1>6 DEF Init, TypeOK, Phases
<1>8. Counts
  BY <1>6 DEF Init, Counts, PoolCoversDisposal, Identifying
<1> QED
  BY <1>7, <1>8 DEF Sound

LEMMA DisposalContextType ==
  ASSUME TypeOK, NEW quantity \in Nat, NEW amount \in Int,
         NEW no_gain_no_loss \in BOOLEAN
  PROVE  DisposalContext(quantity, amount, no_gain_no_loss) \in Context
<1>1. day \in Day /\ today.eri \in Nat
  BY DayType DEF TypeOK, today
<1>2. portfolio.quantity \in Int /\ portfolio.amount \in Int
  BY DEF TypeOK, Position
<1>3. Unscaled \in Ratio
  BY DEF Unscaled, Ratio
<1>4. (IF today.eri > 0 THEN {day} ELSE {}) \in SUBSET Day
  BY <1>1
<1> QED
  BY <1>1, <1>2, <1>3, <1>4 DEF DisposalContext, Context

LEMMA TakeShareType ==
  ASSUME TypeOK, NEW units \in Int, units = ctx.left \/ ctx.quantity > 0
  PROVE  TakeShare(units) \in Int
<1>1. units * ctx.amount \in Int
  BY ContextType
<1> QED
  BY <1>1, ContextType, NormalizeType DEF TakeShare

LEMMA IdentifyType ==
  ASSUME TypeOK, NEW units \in Int, units = ctx.left \/ ctx.quantity > 0,
         NEW allowable \in Int, NEW removed \in Int
  PROVE  LET after == Identify(units, allowable, removed)
         IN  /\ after \in Context
             /\ after.left = ctx.left - units
             /\ after.held = ctx.held - units
             /\ after.quantity = ctx.quantity
             /\ after.no_gain_no_loss = ctx.no_gain_no_loss
             /\ after.look = ctx.look
<1>1. TakeShare(units) \in Int
  BY TakeShareType
<1> DEFINE deemed == IF ctx.no_gain_no_loss THEN allowable ELSE TakeShare(units)
           left == ctx.left - units
           amount_left == ctx.amount_left - TakeShare(units)
           held == ctx.held - units
           cost == ctx.cost - removed
           proceeds == ctx.proceeds + deemed
           gain == ctx.gain + deemed - allowable
           base == ctx.base + allowable
<1>2. deemed \in Int
  BY <1>1
<1>3. Identify(units, allowable, removed) =
        [ctx EXCEPT !.left = left, !.amount_left = amount_left,
                    !.held = held, !.cost = cost,
                    !.proceeds = proceeds, !.gain = gain, !.base = base]
  BY DEF Identify
<1>4. /\ left \in Int /\ amount_left \in Int /\ held \in Int /\ cost \in Int
      /\ proceeds \in Int /\ gain \in Int /\ base \in Int
  BY <1>1, <1>2, ContextType
<1>5. ctx \in Context
  BY ContextType
<1>6. left = ctx.left - units /\ held = ctx.held - units
  OBVIOUS
<1> DEFINE after == [ctx EXCEPT !.left = left, !.amount_left = amount_left,
                                !.held = held, !.cost = cost,
                                !.proceeds = proceeds, !.gain = gain, !.base = base]
<1> HIDE DEF deemed, left, amount_left, held, cost, proceeds, gain, base
<1>7. /\ after \in Context
      /\ after.left = left
      /\ after.held = held
      /\ after.quantity = ctx.quantity
      /\ after.no_gain_no_loss = ctx.no_gain_no_loss
      /\ after.look = ctx.look
  BY <1>4, <1>5 DEF Context
<1>8. Identify(units, allowable, removed) = after
  BY <1>3
<1> HIDE DEF after
<1> QED
  BY <1>6, <1>7, <1>8

LEMMA IdentifyKeeps ==
  ASSUME TypeOK, NEW units, NEW allowable, NEW removed
  PROVE  LET after == Identify(units, allowable, removed)
         IN  after.ratio = ctx.ratio /\ after.settled = ctx.settled
  BY ContextType DEF Identify, Context

LEMMA OpenDaySound == Sound /\ OpenDay => Sound'
<1> SUFFICES ASSUME Sound, OpenDay
             PROVE  Sound'
  OBVIOUS
<1> USE DEF Sound
<1>1. day \in Day
  BY DEF TypeOK
<1>2. claimed_before' \in [Day -> Nat]
  BY ClaimType DEF OpenDay
<1>3. phase' \in {"refused", "acquire"}
  BY DEF OpenDay
<1>4. portfolio' \in Position /\ portfolio'.quantity >= 0
  BY <1>1, SplitType DEF OpenDay, TypeOK, Position, Counts, today
<1>5. TypeOK'
  BY <1>2, <1>3, <1>4 DEF OpenDay, TypeOK, Phases
<1>6. Counts'
  BY <1>3, <1>4 DEF Counts, PoolCoversDisposal, Identifying
<1> QED
  BY <1>5, <1>6

LEMMA ModifiedAmountType ==
  ASSUME TypeOK, NEW d \in Day
  PROVE  /\ TotalQuantity(history[d]) \in Nat
         /\ TotalAmount(history[d]) \in Nat
         /\ ModifiedAmount(history[d], bnb_list[d]) \in Int
<1>1. /\ TotalQuantity(history[d]) \in Nat
      /\ TotalAmount(history[d]) \in Nat
  BY DayType DEF TotalQuantity, TotalAmount
<1>2. history[d].purchased.quantity > 0 =>
        ShareOfCost(bnb_list[d].quantity, history[d].purchased.quantity,
                    history[d].purchased.amount) \in Int
  BY DayType, ClaimType, ShareOfCostType
<1> QED
  BY <1>1, <1>2, DayType, ClaimType DEF ModifiedAmount

LEMMA AddToPositionType ==
  ASSUME NEW position \in Position, NEW quantity \in Int, NEW amount \in Int
  PROVE  /\ AddToPosition(position, quantity, amount) \in Position
         /\ AddToPosition(position, quantity, amount).quantity
              = position.quantity + quantity
<1>1. position.amount + amount \in Int /\ position.quantity \in Int
  BY DEF Position
<1>2. normalize_amount(position.amount + amount, 1) \in Int
  BY <1>1, NormalizeType
<1> QED
  BY <1>1, <1>2 DEF AddToPosition, Position

LEMMA ProcessAcquisitionSound == Sound /\ ProcessAcquisition => Sound'
<1> SUFFICES ASSUME Sound, ProcessAcquisition
             PROVE  Sound'
  OBVIOUS
<1> USE DEF Sound
<1>1. /\ TotalQuantity(today) \in Nat
      /\ ModifiedAmount(today, bnb_list[day]) \in Int
  BY ModifiedAmountType DEF TypeOK, today
<1>2. portfolio \in Position /\ portfolio.quantity \in Nat
  BY DEF TypeOK, Counts, Position
<1>3. phase' \in {"refused", "fault", "reconcile"}
  BY DEF ProcessAcquisition
<1>4. portfolio' \in Position /\ portfolio'.quantity >= 0
  BY <1>1, <1>2, AddToPositionType DEF ProcessAcquisition
<1>5. TypeOK'
  BY <1>3, <1>4 DEF ProcessAcquisition, TypeOK, Phases
<1>6. Counts'
  BY <1>3, <1>4 DEF Counts, PoolCoversDisposal, Identifying
<1> QED
  BY <1>5, <1>6

LEMMA PositionUpdate ==
  ASSUME NEW position \in Position, NEW quantity \in Int
  PROVE  LET after == [position EXCEPT !.quantity = quantity]
         IN  after \in Position /\ after.quantity = quantity
  BY DEF Position

LEMMA RecordSplitReconciliationsSound ==
  Sound /\ RecordSplitReconciliations => Sound'
<1> SUFFICES ASSUME Sound, RecordSplitReconciliations
             PROVE  Sound'
  OBVIOUS
<1> USE DEF Sound
<1> DEFINE quantity == portfolio.quantity + today.split.delta
<1>1. quantity \in Int
  BY SplitType DEF TypeOK, today, Position
<1>2. phase' \in {"refused", "dispose"}
  BY DEF RecordSplitReconciliations
<1>3. portfolio' \in Position /\ portfolio'.quantity >= 0
  <2>1. portfolio' = IF quantity < 0 THEN portfolio
                     ELSE [portfolio EXCEPT !.quantity = quantity]
    BY DEF RecordSplitReconciliations
  <2> HIDE DEF quantity
  <2> QED
    BY <1>1, <2>1, PositionUpdate DEF TypeOK, Counts
<1>4. TypeOK'
  BY <1>2, <1>3 DEF RecordSplitReconciliations, TypeOK, Phases
<1>5. Counts'
  BY <1>2, <1>3 DEF Counts, PoolCoversDisposal, Identifying
<1> QED
  BY <1>4, <1>5

LEMMA BeginDisposalSound ==
  ASSUME Sound, NEW quantity \in Nat, NEW amount \in Int,
         NEW no_gain_no_loss \in BOOLEAN,
         BeginDisposal(quantity, amount, no_gain_no_loss)
  PROVE  /\ phase' \in {"same_day", "fault"}
         /\ ctx' \in Context
         /\ phase' = "same_day" =>
              /\ ctx'.left = quantity /\ ctx'.quantity = quantity
              /\ 0 <= ctx'.left /\ ctx'.left <= ctx'.held
              /\ ctx'.no_gain_no_loss = no_gain_no_loss
<1>1. ctx' = DisposalContext(quantity, amount, no_gain_no_loss)
  BY DEF BeginDisposal
<1>2. /\ ctx'.left = quantity /\ ctx'.quantity = quantity
      /\ ctx'.held = portfolio.quantity
      /\ ctx'.no_gain_no_loss = no_gain_no_loss
  BY <1>1 DEF DisposalContext
<1> QED
  BY <1>1, <1>2, DisposalContextType DEF BeginDisposal, Sound

LEMMA StartSaleSound == Sound /\ StartSale => Sound'
<1> SUFFICES ASSUME Sound, StartSale
             PROVE  Sound'
  OBVIOUS
<1>1. today.disposed.quantity \in Nat /\ today.disposed.amount \in Int
  BY DayType DEF Sound, TypeOK, today
<1>2. CASE today.disposed.quantity > 0
  <2>1. BeginDisposal(today.disposed.quantity, today.disposed.amount, FALSE)
    BY <1>2 DEF StartSale
  <2>2. /\ phase' \in {"same_day", "fault"}
        /\ ctx' \in Context
        /\ phase' = "same_day" =>
             /\ ctx'.left = ctx'.quantity
             /\ 0 <= ctx'.left /\ ctx'.left <= ctx'.held
    BY <1>1, <2>1, BeginDisposalSound
  <2>3. TypeOK'
    BY <2>2 DEF Sound, StartSale, TypeOK, Phases
  <2>4. ctx'.left <= ctx'.quantity \/ phase' # "same_day"
    BY <2>2 DEF Context
  <2>5. Counts'
    BY <2>2, <2>4 DEF Sound, StartSale, Counts, PoolCoversDisposal, Identifying
  <2> QED
    BY <2>3, <2>5 DEF Sound
<1>3. CASE ~(today.disposed.quantity > 0)
  <2>1. phase' = "transfer" /\ UNCHANGED ctx
    BY <1>3 DEF StartSale
  <2> QED
    BY <2>1 DEF Sound, StartSale, TypeOK, Phases, Counts, PoolCoversDisposal,
                Identifying
<1> QED
  BY <1>2, <1>3

LEMMA StartTransferSound == Sound /\ StartTransfer => Sound'
<1> SUFFICES ASSUME Sound, StartTransfer
             PROVE  Sound'
  OBVIOUS
<1>1. today.transferred \in Nat
  BY DayType DEF Sound, TypeOK, today
<1>2. CASE BeginDisposal(today.transferred, 0, TRUE)
  <2>1. /\ phase' \in {"same_day", "fault"}
        /\ ctx' \in Context
        /\ phase' = "same_day" =>
             /\ ctx'.left = ctx'.quantity
             /\ 0 <= ctx'.left /\ ctx'.left <= ctx'.held
    <3>1. 0 \in Int /\ TRUE \in BOOLEAN
      OBVIOUS
    <3> QED
      BY <1>1, <1>2, <3>1, BeginDisposalSound, Zenon
  <2>2. TypeOK'
    BY <2>1 DEF Sound, StartTransfer, TypeOK, Phases
  <2>3. ctx'.left <= ctx'.quantity \/ phase' # "same_day"
    BY <2>1 DEF Context
  <2>4. Counts'
    BY <2>1, <2>3 DEF Sound, StartTransfer, Counts, PoolCoversDisposal, Identifying
  <2> QED
    BY <2>2, <2>4 DEF Sound
<1>3. CASE phase' \in {"close", "refused"} /\ UNCHANGED ctx
  BY <1>3 DEF Sound, StartTransfer, TypeOK, Phases, Counts, PoolCoversDisposal,
              Identifying
<1> QED
  BY <1>2, <1>3 DEF StartTransfer

LEMMA MatchSameDaySound == Sound /\ MatchSameDay => Sound'
<1> SUFFICES ASSUME Sound, MatchSameDay
             PROVE  Sound'
  OBVIOUS
<1> DEFINE purchased == today.purchased
           units == IF ctx.left < purchased.quantity THEN ctx.left
                    ELSE purchased.quantity
           cost == normalize_amount(units * purchased.amount, purchased.quantity)
<1>1. /\ day \in Day /\ purchased.quantity \in Nat /\ purchased.amount \in Nat
  BY DayType DEF Sound, TypeOK, today
<1>2. /\ ctx.left \in Int /\ ctx.held \in Int /\ ctx.quantity \in Nat
      /\ 0 <= ctx.left /\ ctx.left <= ctx.held /\ ctx.left <= ctx.quantity
  BY ContextType DEF Sound, Counts, PoolCoversDisposal, MatchSameDay, Identifying
<1>3. units \in Nat /\ units <= ctx.left /\ units <= purchased.quantity
  BY <1>1, <1>2
<1>4. phase' = "bed_and_breakfast"
  BY DEF MatchSameDay
<1>5. CASE units > 0
  <2>1. cost \in Int
    BY <1>1, <1>3, <1>5, NormalizeType
  <2>2. ctx.quantity > 0
    BY <1>2, <1>3, <1>5
  <2>3. ctx' = Identify(units, cost, cost)
    BY <1>5 DEF MatchSameDay
  <2>4. identified' = [identified EXCEPT ![day] = @ + units]
    BY <1>5 DEF MatchSameDay
  <2> HIDE DEF units, cost
  <2>5. /\ ctx' \in Context
        /\ ctx'.left = ctx.left - units
        /\ ctx'.held = ctx.held - units
        /\ ctx'.quantity = ctx.quantity
    BY <1>3, <2>1, <2>2, <2>3, IdentifyType DEF Sound
  <2>6. identified' \in [Day -> Nat]
    BY <1>3, <2>4 DEF Sound, TypeOK
  <2>7. TypeOK'
    BY <1>4, <2>5, <2>6 DEF Sound, MatchSameDay, TypeOK, Phases
  <2>8. 0 <= ctx'.left /\ ctx'.left <= ctx'.held /\ ctx'.left <= ctx'.quantity
    BY <1>2, <1>3, <2>5
  <2>9. Counts'
    BY <2>8 DEF Sound, MatchSameDay, Counts, PoolCoversDisposal
  <2> QED
    BY <2>7, <2>9 DEF Sound
<1>6. CASE ~(units > 0)
  <2>1. UNCHANGED <<ctx, identified>>
    BY <1>6 DEF MatchSameDay
  <2>2. TypeOK'
    BY <1>4, <2>1 DEF Sound, MatchSameDay, TypeOK, Phases
  <2>3. Counts'
    BY <1>2, <1>4, <2>1 DEF Sound, MatchSameDay, Counts, PoolCoversDisposal
  <2> QED
    BY <2>2, <2>3 DEF Sound
<1> QED
  BY <1>5, <1>6

LEMMA SearchDayType ==
  ASSUME TypeOK, Searching
  PROVE  /\ SearchDay \in Day /\ SearchDay > day
         /\ ctx.left > 0
  BY DEF Searching, Window, TypeOK, Day

LEMMA ReachedContextType ==
  ASSUME TypeOK, Searching
  PROVE  /\ ReachedContext \in Context
         /\ ReachedContext.look = SearchDay
         /\ ReachedContext.left = ctx.left
         /\ ReachedContext.held = ctx.held
         /\ ReachedContext.quantity = ctx.quantity
         /\ ReachedContext.no_gain_no_loss = ctx.no_gain_no_loss
         /\ ~history[SearchDay].split.planned =>
              /\ ReachedContext.ratio = ctx.ratio
              /\ ReachedContext.settled = ctx.settled
<1> DEFINE found == history[SearchDay]
           resolved == ~found.split.planned \/ found.split.ratio # NoRatio
           settled == ctx.settled /\ (found.split.planned => found.split.ratio # NoRatio)
           ratio == IF found.split.planned /\ found.split.ratio # NoRatio
                      THEN ComposeRatios(ctx.ratio, found.split.ratio) ELSE ctx.ratio
           eris == IF found.eri > 0 THEN ctx.eris \cup {SearchDay} ELSE ctx.eris
           eri_price == ctx.eri_price + found.eri
<1>1. SearchDay \in Day
  BY SearchDayType
<1>2. settled \in BOOLEAN
  BY ContextType
<1>3. ratio \in Ratio
  BY <1>1, SplitType, ContextType, ComposeType
<1>4. eris \in SUBSET Day /\ eri_price \in Nat
  BY <1>1, DayType, ContextType
<1>5. ReachedContext =
        [ctx EXCEPT !.look = SearchDay, !.settled = settled, !.ratio = ratio,
                    !.eris = eris, !.eri_price = eri_price]
  BY DEF ReachedContext
<1>6. ctx \in Context
  BY ContextType
<1> DEFINE reached == [ctx EXCEPT !.look = SearchDay, !.settled = settled,
                                  !.ratio = ratio, !.eris = eris,
                                  !.eri_price = eri_price]
<1>7. ~found.split.planned => settled = ctx.settled /\ ratio = ctx.ratio
  BY <1>2, ContextType
<1> HIDE DEF found, settled, ratio, eris, eri_price
<1>8. /\ reached \in Context
      /\ reached.look = SearchDay
      /\ reached.left = ctx.left
      /\ reached.held = ctx.held
      /\ reached.quantity = ctx.quantity
      /\ reached.no_gain_no_loss = ctx.no_gain_no_loss
      /\ reached.ratio = ratio /\ reached.settled = settled
  BY <1>1, <1>2, <1>3, <1>4, <1>6 DEF Context
<1> HIDE DEF reached
<1>9. ReachedContext = reached
  BY <1>5 DEF reached
<1> QED
  BY <1>7, <1>8, <1>9 DEF found

LEMMA SearchPassesDaySound == Sound /\ SearchPassesDay => Sound'
<1> SUFFICES ASSUME Sound, SearchPassesDay
             PROVE  Sound'
  OBVIOUS
<1>1. /\ ctx' \in Context
      /\ ctx'.left = ctx.left /\ ctx'.held = ctx.held
      /\ ctx'.quantity = ctx.quantity
  BY ReachedContextType DEF SearchPassesDay, Sound
<1>2. TypeOK'
  BY <1>1 DEF Sound, SearchPassesDay, TypeOK
<1>3. Counts'
  BY <1>1 DEF Sound, SearchPassesDay, Counts, PoolCoversDisposal
<1> QED
  BY <1>2, <1>3 DEF Sound

LEMMA SearchRefusesDaySound == Sound /\ SearchRefusesDay => Sound'
  BY DEF Sound, SearchRefusesDay, TypeOK, Phases, Counts, PoolCoversDisposal,
         Identifying

LEMMA EndSearchSound == Sound /\ EndSearch => Sound'
  BY DEF Sound, EndSearch, TypeOK, Phases, Counts, PoolCoversDisposal, Identifying

\* What a claim leaves: the disposal and its pool short of the units matched.
LEMMA ClaimContext ==
  ASSUME TypeOK, Searching, NEW matched \in Int, NEW consumed \in Int,
         matched > 0, matched <= ctx.left, ctx.left <= ctx.held,
         ctx.left <= ctx.quantity,
         history[SearchDay].purchased.quantity > 0,
         Claim(ReachedContext, matched, consumed)
  PROVE  /\ ctx' \in Context
         /\ ctx'.left = ctx.left - matched
         /\ ctx'.held = ctx.held - matched
         /\ ctx'.quantity = ctx.quantity
         /\ ctx'.no_gain_no_loss = ctx.no_gain_no_loss
         /\ ctx'.look = SearchDay
         /\ ctx'.ratio = ReachedContext.ratio
         /\ ctx'.settled = ReachedContext.settled
         /\ phase' \in {"fault", "bed_and_breakfast"}
         /\ normalize_amount(matched * ctx.cost, ctx.held) \in Int
<1> DEFINE reached == ReachedContext
           record == history[reached.look]
           allowable == ShareOfCost(consumed, record.purchased.quantity,
                                    record.purchased.amount)
           delta == normalize_amount(matched * ctx.cost, ctx.held)
           after == Identify(matched, allowable, delta)
<1>1. SearchDay \in Day
  BY SearchDayType
<1>2. reached \in Context /\ reached.look = SearchDay
      /\ reached.quantity = ctx.quantity
      /\ reached.no_gain_no_loss = ctx.no_gain_no_loss
  BY ReachedContextType
<1>3. allowable \in Int
  <2>1. record = history[SearchDay]
    BY <1>2
  <2>2. /\ record.purchased.quantity \in Int /\ record.purchased.quantity > 0
        /\ record.purchased.amount \in Int
    BY <1>1, <2>1, DayType
  <2> HIDE DEF record
  <2> QED
    BY <2>2, ShareOfCostType
<1>4. ctx.held > 0 /\ ctx.quantity > 0 /\ ctx.held \in Int
  BY ContextType
<1>5. delta \in Int
  <2>1. matched * ctx.cost \in Int
    BY ContextType
  <2> QED
    BY <1>4, <2>1, NormalizeType
<1>6. /\ ctx' = [reached EXCEPT
               !.left = after.left, !.amount_left = after.amount_left,
               !.held = after.held, !.cost = after.cost,
               !.proceeds = after.proceeds, !.gain = after.gain,
               !.base = after.base]
      /\ phase' = IF after.held = 0 /\ after.cost # 0 THEN "fault"
                  ELSE "bed_and_breakfast"
  BY DEF Claim, ClaimedDay
<1> HIDE DEF reached, record, allowable, delta
<1>7. /\ after \in Context
      /\ after.left = ctx.left - matched
      /\ after.held = ctx.held - matched
  BY <1>3, <1>4, <1>5, IdentifyType
<1> HIDE DEF after
<1>8. /\ ctx' \in Context
      /\ ctx'.left = after.left
      /\ ctx'.held = after.held
      /\ ctx'.quantity = reached.quantity
      /\ ctx'.no_gain_no_loss = reached.no_gain_no_loss
      /\ ctx'.look = reached.look
      /\ ctx'.ratio = reached.ratio /\ ctx'.settled = reached.settled
  BY <1>2, <1>6, <1>7 DEF Context
<1> QED
  BY <1>2, <1>5, <1>6, <1>7, <1>8 DEF delta, reached

\* What a claim adds to the acquisition and to the reports passed on the way.
LEMMA ClaimTallies ==
  ASSUME TypeOK, Searching, NEW matched \in Int, NEW consumed \in Int,
         matched > 0, consumed > 0,
         normalize_amount(matched * ctx.cost, ctx.held) \in Int,
         Claim(ReachedContext, matched, consumed)
  PROVE  /\ bnb_list' \in [Day -> Tally]
         /\ eris_distribution' \in [Day -> Tally]
         /\ \A d \in Day : bnb_list'[d].quantity =
              IF d = SearchDay /\ phase' # "fault"
                THEN bnb_list[d].quantity + consumed
              ELSE bnb_list[d].quantity
<1> DEFINE reached == ReachedContext
           delta == normalize_amount(matched * ctx.cost, ctx.held)
           basis == ClaimedBasis(reached, matched, delta)
<1>1. SearchDay \in Day
  BY SearchDayType
<1>2. reached \in Context /\ reached.look = SearchDay
  BY ReachedContextType
<1>3. reached.eri_price \in Int
  BY <1>2 DEF Context
<1>4. basis \in Int
  BY <1>3 DEF ClaimedBasis
<1>5. bnb_list' =
        IF phase' = "fault" THEN bnb_list
        ELSE [bnb_list EXCEPT ![reached.look] =
               [quantity |-> @.quantity + consumed, amount |-> @.amount + basis]]
  BY DEF Claim, ClaimedDay
<1>6. eris_distribution' = [d \in Day |->
        IF d \in reached.eris
          THEN [quantity |-> eris_distribution[d].quantity + matched,
                amount |-> eris_distribution[d].amount + matched * history[d].eri]
          ELSE eris_distribution[d]]
  BY DEF Claim, ClaimedDay
<1> HIDE DEF reached, basis
<1>7. bnb_list \in [Day -> Tally] /\ eris_distribution \in [Day -> Tally]
  BY DEF TypeOK
<1>8. /\ bnb_list' \in [Day -> Tally]
      /\ \A d \in Day : bnb_list'[d].quantity =
           IF d = SearchDay /\ phase' # "fault"
             THEN bnb_list[d].quantity + consumed
           ELSE bnb_list[d].quantity
  <2>1. CASE phase' = "fault"
    BY <1>5, <1>7, <2>1
  <2>2. CASE phase' # "fault"
    <3>1. bnb_list' = [bnb_list EXCEPT ![SearchDay] =
            [quantity |-> bnb_list[SearchDay].quantity + consumed,
             amount |-> bnb_list[SearchDay].amount + basis]]
      BY <1>1, <1>2, <1>5, <1>7, <2>2
    <3>2. /\ bnb_list[SearchDay].quantity + consumed \in Nat
          /\ bnb_list[SearchDay].amount + basis \in Int
      BY <1>1, <1>4, ClaimType
    <3> QED
      BY <1>1, <1>7, <2>2, <3>1, <3>2 DEF Tally
  <2> QED
    BY <2>1, <2>2
<1>9. ASSUME NEW d \in Day
      PROVE  [quantity |-> eris_distribution[d].quantity + matched,
              amount |-> eris_distribution[d].amount + matched * history[d].eri]
               \in Tally
  <2>1. matched * history[d].eri \in Int
    BY DayType
  <2>2. eris_distribution[d].quantity \in Nat /\ eris_distribution[d].amount \in Int
    BY <1>7 DEF Tally
  <2>3. eris_distribution[d].quantity + matched \in Nat
    BY <2>2
  <2>4. eris_distribution[d].amount + matched * history[d].eri \in Int
    BY <2>1, <2>2
  <2> QED
    BY <2>3, <2>4 DEF Tally
<1>10. eris_distribution' \in [Day -> Tally]
  BY <1>6, <1>7, <1>9
<1> QED
  BY <1>8, <1>10

(***************************************************************************)
(* What the 30-day search takes: something of both counts, no more than    *)
(* the disposal has left and no more than the day can give.                *)
(***************************************************************************)
LEMMA MatchedUnitsBounds ==
  ASSUME TypeOK, Searching, Available(SearchDay) # 0,
         ~Inexpressible(ReachedContext, Available(SearchDay))
  PROVE  LET record   == history[SearchDay]
             matched  == MatchedUnits(ReachedContext, Available(SearchDay))
             consumed == ConsumedUnits(ReachedContext, Available(SearchDay))
         IN  /\ matched \in Int /\ matched > 0 /\ matched <= ctx.left
             /\ consumed \in Int /\ consumed > 0
             /\ record.purchased.quantity > 0
             /\ bnb_list[SearchDay].quantity + consumed + SameDayClaims(record)
                  <= record.purchased.quantity
<1> DEFINE record == history[SearchDay]
           available == Available(SearchDay)
           ratio == ReachedContext.ratio
           convertible == unscale_quantity(available, ratio)
           matched == MatchedUnits(ReachedContext, available)
           scaled == scale_quantity(matched, ratio)
           consumed == ConsumedUnits(ReachedContext, available)
<1>1. SearchDay \in Day /\ ctx.left > 0 /\ ctx.left \in Int
  BY SearchDayType, ContextType
<1>2. /\ record.purchased.quantity \in Nat
      /\ SameDayClaims(record) \in Nat
      /\ bnb_list[SearchDay].quantity \in Nat
  BY <1>1, DayType, ClaimType DEF SameDayClaims
<1>3. /\ record.purchased.quantity > 0
      /\ available = record.purchased.quantity - SameDayClaims(record)
                       - bnb_list[SearchDay].quantity
      /\ available \in Int
  BY <1>2 DEF Available
<1>4. ratio \in Ratio
  BY ReachedContextType DEF Context
<1>5. convertible \in Int /\ convertible > 0
  BY <1>3, <1>4, ScaleType DEF Inexpressible
<1>6. matched = IF ctx.left < convertible THEN ctx.left ELSE convertible
  BY DEF MatchedUnits
<1>7. matched \in Int /\ matched > 0 /\ matched <= ctx.left
  BY <1>1, <1>5, <1>6
<1>8. scaled \in Int
  BY <1>4, <1>7, ScaleType
<1>9. consumed = IF matched = convertible \/ scaled > available
                   THEN available ELSE scaled
  BY DEF ConsumedUnits
<1>10. consumed \in Int /\ consumed <= available /\ consumed > 0
  <2>1. consumed > 0 \/ consumed <= 0
    BY <1>3, <1>8, <1>9
  <2> QED
    BY <1>3, <1>8, <1>9, <2>1 DEF Inexpressible
<1> HIDE DEF record, available, matched, consumed
<1>11. bnb_list[SearchDay].quantity + consumed + SameDayClaims(record)
         <= record.purchased.quantity
  BY <1>2, <1>3, <1>10
<1> QED
  BY <1>3, <1>7, <1>10, <1>11 DEF record, available, matched, consumed

LEMMA SearchMatchesDaySound == Sound /\ SearchMatchesDay => Sound'
<1> SUFFICES ASSUME Sound, SearchMatchesDay
             PROVE  Sound'
  OBVIOUS
<1> DEFINE matched == MatchedUnits(ReachedContext, Available(SearchDay))
           consumed == ConsumedUnits(ReachedContext, Available(SearchDay))
<1>1. /\ TypeOK /\ Searching /\ Available(SearchDay) # 0
      /\ ~Inexpressible(ReachedContext, Available(SearchDay))
      /\ Claim(ReachedContext, matched, consumed)
  BY DEF Sound, SearchMatchesDay
<1>2. /\ ctx.left \in Int /\ ctx.held \in Int /\ ctx.quantity \in Nat
      /\ ctx.left <= ctx.held /\ ctx.left <= ctx.quantity
  BY ContextType DEF Sound, Counts, PoolCoversDisposal, SearchMatchesDay, Identifying
<1>3. /\ matched \in Int /\ matched > 0 /\ matched <= ctx.left
      /\ consumed \in Int /\ consumed > 0
      /\ history[SearchDay].purchased.quantity > 0
  BY <1>1, MatchedUnitsBounds
<1> HIDE DEF matched, consumed
<1>4. /\ ctx' \in Context
      /\ ctx'.left = ctx.left - matched
      /\ ctx'.held = ctx.held - matched
      /\ ctx'.quantity = ctx.quantity
      /\ phase' \in {"fault", "bed_and_breakfast"}
      /\ normalize_amount(matched * ctx.cost, ctx.held) \in Int
  BY <1>1, <1>2, <1>3, ClaimContext
<1>5. bnb_list' \in [Day -> Tally] /\ eris_distribution' \in [Day -> Tally]
  BY <1>1, <1>3, <1>4, ClaimTallies
<1>6. TypeOK'
  BY <1>4, <1>5 DEF Sound, SearchMatchesDay, TypeOK, Phases
<1>7. 0 <= ctx'.left /\ ctx'.left <= ctx'.held /\ ctx'.left <= ctx'.quantity
  BY <1>2, <1>3, <1>4
<1>8. Counts'
  BY <1>7 DEF Sound, SearchMatchesDay, Counts, PoolCoversDisposal
<1> QED
  BY <1>6, <1>8 DEF Sound

LEMMA MatchSection104Sound == Sound /\ MatchSection104 => Sound'
<1> SUFFICES ASSUME Sound, MatchSection104
             PROVE  Sound'
  OBVIOUS
<1> DEFINE delta == normalize_amount(ctx.left * ctx.cost, ctx.held)
           after == Identify(ctx.left, delta, delta)
<1>1. /\ ctx.left \in Int /\ ctx.held \in Int /\ ctx.quantity \in Nat
      /\ ctx.left <= ctx.held /\ ctx.left <= ctx.quantity /\ 0 <= ctx.left
  BY ContextType DEF Sound, Counts, PoolCoversDisposal, MatchSection104, Identifying
<1>2. CASE ctx.left > 0
  <2>1. delta \in Int
    <3>1. ctx.left * ctx.cost \in Int
      BY ContextType DEF Sound
    <3> QED
      BY <1>1, <1>2, <3>1, NormalizeType
  <2>2. ctx' = after /\ phase' \in {"fault", "finish"}
    BY <1>2 DEF MatchSection104
  <2> HIDE DEF delta
  <2>3. /\ after \in Context
        /\ after.left = ctx.left - ctx.left
        /\ after.held = ctx.held - ctx.left
        /\ after.quantity = ctx.quantity
    BY <1>1, <2>1, IdentifyType DEF Sound
  <2> HIDE DEF after
  <2>4. TypeOK'
    BY <2>2, <2>3 DEF Sound, MatchSection104, TypeOK, Phases
  <2>5. 0 <= ctx'.left /\ ctx'.left <= ctx'.held /\ ctx'.left <= ctx'.quantity
    BY <1>1, <2>2, <2>3
  <2>6. Counts'
    BY <2>5 DEF Sound, MatchSection104, Counts, PoolCoversDisposal
  <2> QED
    BY <2>4, <2>6 DEF Sound
<1>3. CASE ~(ctx.left > 0)
  <2>1. phase' = "finish" /\ UNCHANGED ctx
    BY <1>3 DEF MatchSection104
  <2> QED
    BY <1>1, <2>1 DEF Sound, MatchSection104, TypeOK, Phases, Counts,
                      PoolCoversDisposal
<1> QED
  BY <1>2, <1>3

LEMMA FinishReportType ==
  ASSUME TypeOK
  PROVE  FinishReport \in Report
<1>1. round_pennies(ctx.gain) \in Int
  BY ContextType, RoundPenniesType
<1>2. ctx.base \in Int /\ today.disposed.amount \in Int
  BY ContextType, DayType DEF TypeOK, today
<1>3. report \in Report
  BY DEF TypeOK
<1>4. [report EXCEPT !.transferred = @ + ctx.base] \in Report
  BY <1>2, <1>3 DEF Report
<1>5. ASSUME NEW kind, NEW proceeds \in Int, NEW gain \in Int
      PROVE  ReportWith(kind, proceeds, gain) \in Report
  <2> DEFINE gains == IF gain > 0 THEN report.gains + gain ELSE report.gains
             gift_loss == IF gain <= 0 /\ kind = "gift" THEN report.gift_loss + gain
                          ELSE report.gift_loss
             loss == IF gain <= 0 /\ kind # "gift" THEN report.loss + gain
                     ELSE report.loss
             count == report.count + 1
             total == report.proceeds + proceeds
             allowable == report.allowable + proceeds - gain
  <2>1. /\ gains \in Int /\ gift_loss \in Int /\ loss \in Int /\ count \in Nat
        /\ total \in Int /\ allowable \in Int
    BY <1>3 DEF Report
  <2>2. ReportWith(kind, proceeds, gain) =
          IF kind = "exempt" THEN [report EXCEPT !.exempt = @ + proceeds]
          ELSE [report EXCEPT !.count = count, !.proceeds = total,
                              !.allowable = allowable, !.gains = gains,
                              !.gift_loss = gift_loss, !.loss = loss]
    BY DEF ReportWith
  <2> HIDE DEF gains, gift_loss, loss, count, total, allowable
  <2>3. [report EXCEPT !.exempt = @ + proceeds] \in Report
    BY <1>3 DEF Report
  <2>4. [report EXCEPT !.count = count, !.proceeds = total,
                       !.allowable = allowable, !.gains = gains,
                       !.gift_loss = gift_loss, !.loss = loss] \in Report
    BY <1>3, <2>1 DEF Report
  <2> QED
    BY <2>2, <2>3, <2>4
<1> QED
  BY <1>1, <1>2, <1>3, <1>4, <1>5 DEF FinishReport

LEMMA FinishDisposalSound == Sound /\ FinishDisposal => Sound'
<1> SUFFICES ASSUME Sound, FinishDisposal
             PROVE  Sound'
  OBVIOUS
<1>1. ctx.left \in Int /\ ctx.held \in Int /\ ctx.cost \in Int
      /\ 0 <= ctx.left /\ ctx.left <= ctx.held
  BY ContextType DEF Sound, Counts, PoolCoversDisposal, FinishDisposal, Identifying
<1>2. normalize_amount(ctx.cost, 1) \in Int
  BY <1>1, NormalizeType
<1>3. portfolio' \in Position /\ portfolio'.quantity >= 0
  BY <1>1, <1>2 DEF FinishDisposal, Position
<1>4. report' \in Report
  BY FinishReportType DEF FinishDisposal, Sound, TypeOK
<1>5. phase' \in {"fault", "close", "transfer"}
  BY DEF FinishDisposal
<1>6. TypeOK'
  BY <1>3, <1>4, <1>5, NoContextType DEF Sound, FinishDisposal, TypeOK, Phases
<1>7. Counts'
  BY <1>3, <1>5 DEF Counts, PoolCoversDisposal, Identifying
<1> QED
  BY <1>6, <1>7 DEF Sound

LEMMA CloseDaySound == Sound /\ CloseDay => Sound'
<1> SUFFICES ASSUME Sound, CloseDay
             PROVE  Sound'
  OBVIOUS
<1> DEFINE income == portfolio.quantity * today.eri
<1>1. day \in Day /\ today.eri \in Nat
  BY DayType DEF Sound, TypeOK, today
<1>2. portfolio \in Position /\ portfolio.quantity \in Nat /\ portfolio.amount \in Int
  BY DEF Sound, TypeOK, Counts, Position
<1>3. income \in Int
  BY <1>1, <1>2
<1>4. eris_distribution[day].quantity \in Nat /\ eris_distribution[day].amount \in Int
  BY <1>1 DEF Sound, TypeOK, Tally
<1>5. /\ phase' \in {"refused", "done", "open"}
      /\ day' \in Day /\ day' <= TaxYearEnd
  <2>1. day \in 1 .. LastDay /\ day <= TaxYearEnd /\ TaxYearEnd \in 1 .. LastDay
    BY HistoryAssumption DEF Sound, TypeOK, Day
  <2> QED
    BY <2>1, HistoryAssumption DEF CloseDay, AtTheEnd, Day
<1>6. portfolio' \in Position /\ portfolio'.quantity >= 0
  <2> HIDE DEF income
  <2>1. [portfolio EXCEPT !.amount = @ + income] \in Position
        /\ [portfolio EXCEPT !.amount = @ + income].quantity = portfolio.quantity
    BY <1>2, <1>3 DEF Position
  <2>2. CASE CloseDisagrees
    BY <1>2, <2>2 DEF CloseDay, AtTheEnd
  <2>3. CASE ~CloseDisagrees
    <3>1. portfolio' = [portfolio EXCEPT !.amount = @ + income]
      BY <2>3 DEF CloseDay, AtTheEnd, income
    <3> QED
      BY <1>2, <2>1, <3>1
  <2> QED
    BY <2>2, <2>3
<1>7. eris_distribution' \in [Day -> Tally]
  <2> DEFINE charged == [quantity |-> eris_distribution[day].quantity + portfolio.quantity,
                         amount |-> eris_distribution[day].amount + income]
  <2>1. eris_distribution' \in
          {eris_distribution, [eris_distribution EXCEPT ![day] = charged]}
    BY DEF CloseDay, AtTheEnd
  <2> HIDE DEF income
  <2>2. charged \in Tally
    BY <1>2, <1>3, <1>4 DEF Tally
  <2> HIDE DEF charged
  <2> QED
    BY <2>1, <2>2 DEF Sound, TypeOK
<1>8. TypeOK'
  BY <1>5, <1>6, <1>7 DEF Sound, CloseDay, AtTheEnd, TypeOK, Phases
<1>9. Counts'
  BY <1>5, <1>6 DEF Counts, PoolCoversDisposal, Identifying
<1> QED
  BY <1>8, <1>9 DEF Sound

LEMMA RecalculateSound == Sound /\ Recalculate => Sound'
<1> SUFFICES ASSUME Sound, Recalculate
             PROVE  Sound'
  OBVIOUS
<1>1. day' \in Day /\ day' <= TaxYearEnd
  BY HistoryAssumption DEF Recalculate, Day
<1>2. bnb_list' \in [Day -> Tally] /\ eris_distribution' \in [Day -> Tally]
  BY DEF Recalculate, ClaimsAfterReset, Tally, Nothing
<1>3. report' \in Report
  BY DEF Recalculate, Report, NoReport
<1>4. portfolio' \in Position /\ portfolio'.quantity >= 0
  BY DEF Recalculate, Position, NoPosition
<1>5. Outcome \in OutcomeType
  BY DEF Sound, TypeOK, Outcome, OutcomeType
<1>6. previous' \in Seq(OutcomeType)
  BY <1>5 DEF Sound, TypeOK, Recalculate
<1>7. TypeOK'
  BY <1>1, <1>2, <1>3, <1>4, <1>6, NoContextType
     DEF Sound, Recalculate, TypeOK, Phases
<1>8. Counts'
  BY <1>4 DEF Recalculate, Counts, PoolCoversDisposal, Identifying
<1> QED
  BY <1>7, <1>8 DEF Sound

LEMMA StepSound == Sound /\ [Next]_vars => Sound'
<1> SUFFICES ASSUME Sound, [Next]_vars
             PROVE  Sound'
  OBVIOUS
<1>1. CASE UNCHANGED vars
  BY <1>1 DEF vars, Sound, TypeOK, Counts, PoolCoversDisposal
<1> QED
  BY <1>1, OpenDaySound, ProcessAcquisitionSound, RecordSplitReconciliationsSound,
     StartSaleSound, StartTransferSound, MatchSameDaySound, SearchPassesDaySound,
     SearchRefusesDaySound, SearchMatchesDaySound, EndSearchSound,
     MatchSection104Sound, FinishDisposalSound, CloseDaySound, RecalculateSound
     DEF Next

(***************************************************************************)
(* Every variable keeps its type, whatever histories the walk is given.    *)
(***************************************************************************)
THEOREM TypeCorrect == Spec => []TypeOK
<1>1. Sound => TypeOK
  BY DEF Sound
<1> QED
  BY <1>1, InitSound, StepSound, PTL DEF Spec

(***************************************************************************)
(* The walk never divides by an exhausted pool: what is left to identify   *)
(* is never more than the pool the disposal sees.                          *)
(***************************************************************************)
THEOREM PoolAlwaysCovers == Spec => []PoolCoversDisposal
<1>1. Sound => PoolCoversDisposal
  BY DEF Sound, Counts
<1> QED
  BY <1>1, InitSound, StepSound, PTL DEF Spec

(***************************************************************************)
(* No unit of an acquisition is identified with two disposals, whatever    *)
(* the history.  The invariant that carries it says, for the day being     *)
(* walked, how much of its own purchases its sale and its transfer can     *)
(* still take, and that a day of both is refused unless nothing is left.   *)
(***************************************************************************)

\* A day's own disposals are identified with no more than they dispose of.
IdentifiedFits ==
  \A d \in Day :
    /\ identified[d] <= SameDayClaims(history[d])
    /\ identified[d] <= history[d].purchased.quantity

\* Nothing is identified with a day before the walk reaches it.
LaterDaysUntouched == \A d \in Day : d > day => identified[d] = 0

BeforeDisposals == {"open", "acquire", "reconcile", "dispose"}

(***************************************************************************)
(* How far the day's own disposals have got with the day's own purchases.  *)
(***************************************************************************)
OwnDayProgress ==
  /\ phase \in BeforeDisposals => identified[day] = 0
  /\ phase \in Identifying /\ ~ctx.no_gain_no_loss =>
       identified[day] <= today.disposed.quantity
  /\ phase = "same_day" /\ ~ctx.no_gain_no_loss =>
       identified[day] = 0 /\ ctx.left = today.disposed.quantity
  /\ phase = "transfer" => identified[day] <= today.disposed.quantity
  /\ phase = "same_day" /\ ctx.no_gain_no_loss =>
       /\ ctx.left = today.transferred
       /\ today.purchased.quantity = 0 \/ identified[day] = 0

\* What a day of transfers noted of its own purchases still stands.
ClaimsNoted ==
  phase \notin {"open", "done", "refused", "fault"} /\ today.transferred > 0 =>
    claimed_before[day] = bnb_list[day].quantity

OnceEach ==
  /\ Sound
  /\ OwnDayComesFirst
  /\ IdentifiedFits
  /\ LaterDaysUntouched
  /\ OwnDayProgress
  /\ ClaimsNoted

LEMMA SameDayClaimsType ==
  ASSUME TypeOK, NEW d \in Day
  PROVE  SameDayClaims(history[d]) \in Nat
  BY DayType DEF SameDayClaims

LEMMA TodayType ==
  ASSUME TypeOK
  PROVE  /\ day \in Day
         /\ today = history[day]
         /\ today.purchased.quantity \in Nat
         /\ today.disposed.quantity \in Nat
         /\ today.transferred \in Nat
         /\ SameDayClaims(today) = today.disposed.quantity + today.transferred
         /\ bnb_list[day].quantity \in Nat
         /\ identified[day] \in Nat
  BY DayType, ClaimType DEF TypeOK, today, SameDayClaims

LEMMA InitOnceEach == Init => OnceEach
<1> SUFFICES ASSUME Init
             PROVE  OnceEach
  OBVIOUS
<1>1. Sound
  BY InitSound
<1>2. /\ \A d \in Day : bnb_list[d].quantity = 0 /\ identified[d] = 0
      /\ phase = "open" /\ day \in Day
  BY <1>1 DEF Init, Nothing, Sound, TypeOK
<1>3. OwnDayComesFirst
  BY <1>2 DEF OwnDayComesFirst
<1>4. IdentifiedFits
  BY <1>1, <1>2, SameDayClaimsType, DayType DEF IdentifiedFits, Sound
<1>5. LaterDaysUntouched /\ OwnDayProgress /\ ClaimsNoted
  BY <1>2 DEF LaterDaysUntouched, OwnDayProgress, ClaimsNoted, Identifying
<1> QED
  BY <1>1, <1>3, <1>4, <1>5 DEF OnceEach

(***************************************************************************)
(* Most steps change neither a count of units identified nor the day.      *)
(***************************************************************************)
LEMMA Frame ==
  ASSUME OnceEach, UNCHANGED <<history, day, bnb_list, identified>>
  PROVE  OwnDayComesFirst' /\ IdentifiedFits' /\ LaterDaysUntouched'
  BY DEF OnceEach, OwnDayComesFirst, IdentifiedFits, LaterDaysUntouched

LEMMA BeforeDisposalsOnce ==
  ASSUME OnceEach, OpenDay \/ ProcessAcquisition \/ RecordSplitReconciliations
  PROVE  OwnDayProgress' /\ ClaimsNoted'
<1>1. /\ identified[day] = 0 /\ UNCHANGED <<history, day, bnb_list, identified>>
      /\ phase' \in {"acquire", "reconcile", "dispose", "refused", "fault"}
  BY DEF OnceEach, OwnDayProgress, BeforeDisposals, OpenDay, ProcessAcquisition,
         RecordSplitReconciliations
<1>2. OwnDayProgress'
  BY <1>1 DEF OwnDayProgress, Identifying, BeforeDisposals
<1>3. ClaimsNoted'
  <2>1. CASE OpenDay
    BY <1>1, <2>1, TodayType DEF OnceEach, Sound, OpenDay, ClaimsNoted, today
  <2>2. CASE ProcessAcquisition \/ RecordSplitReconciliations
    BY <1>1, <2>2 DEF OnceEach, ClaimsNoted, ProcessAcquisition,
                      RecordSplitReconciliations, today
  <2> QED
    BY <2>1, <2>2
<1> QED
  BY <1>2, <1>3

LEMMA StartSaleOnce ==
  ASSUME OnceEach, StartSale
  PROVE  OwnDayProgress' /\ ClaimsNoted'
<1>1. /\ identified[day] = 0 /\ phase = "dispose"
      /\ UNCHANGED <<history, day, bnb_list, identified, claimed_before>>
  BY DEF OnceEach, OwnDayProgress, BeforeDisposals, StartSale
<1>2. today' = today /\ today.disposed.quantity \in Nat /\ today.disposed.amount \in Int
  BY <1>1, DayType DEF OnceEach, Sound, TypeOK, today
<1>3. CASE today.disposed.quantity > 0
  <2>1. BeginDisposal(today.disposed.quantity, today.disposed.amount, FALSE)
    BY <1>3 DEF StartSale
  <2>2. /\ phase' \in {"same_day", "fault"}
        /\ phase' = "same_day" =>
             ctx'.left = today.disposed.quantity /\ ctx'.no_gain_no_loss = FALSE
    BY <1>2, <2>1, BeginDisposalSound DEF OnceEach
  <2> QED
    BY <1>1, <1>2, <2>2 DEF OnceEach, OwnDayProgress, ClaimsNoted, Identifying,
                            BeforeDisposals
<1>4. CASE ~(today.disposed.quantity > 0)
  <2>1. phase' = "transfer"
    BY <1>4 DEF StartSale
  <2> QED
    BY <1>1, <1>2, <2>1 DEF OnceEach, OwnDayProgress, ClaimsNoted, Identifying,
                            BeforeDisposals
<1> QED
  BY <1>3, <1>4

(***************************************************************************)
(* A transfer begins only if the day's sale left it nothing to contend     *)
(* for: either there was no sale, or the day bought nothing.  A day whose  *)
(* purchases were all claimed before cannot have had a sale.               *)
(***************************************************************************)
LEMMA StartTransferOnce ==
  ASSUME OnceEach, StartTransfer
  PROVE  OwnDayProgress' /\ ClaimsNoted'
<1>1. /\ phase = "transfer"
      /\ UNCHANGED <<history, day, bnb_list, identified, claimed_before>>
      /\ identified[day] <= today.disposed.quantity
  BY DEF OnceEach, OwnDayProgress, StartTransfer
<1>2. today' = today
  BY <1>1 DEF today
<1>3. CASE phase' \in {"close", "refused"}
  BY <1>1, <1>2, <1>3 DEF OnceEach, OwnDayProgress, ClaimsNoted, Identifying,
                          BeforeDisposals
<1>4. CASE /\ today.transferred # 0
           /\ ~(today.disposed.quantity > 0 /\ Contended # {})
           /\ BeginDisposal(today.transferred, 0, TRUE)
  <2>1. today.purchased.quantity = 0 \/ identified[day] = 0
    <3>1. CASE today.disposed.quantity = 0
      BY <1>1, <3>1, TodayType DEF OnceEach, Sound
    <3>2. CASE today.disposed.quantity > 0
      <4>1. Contended = {}
        BY <1>4, <3>2
      <4>2. ~HasSharesGoingSpare(day)
        BY <4>1 DEF Contended
      <4>3. claimed_before[day] = bnb_list[day].quantity
        BY <1>1, <1>4, TodayType DEF OnceEach, Sound, ClaimsNoted
      <4>4. SUFFICES ASSUME today.purchased.quantity > 0
                     PROVE  FALSE
        BY TodayType DEF OnceEach, Sound
      <4>5. bnb_list[day].quantity >= today.purchased.quantity
        BY <4>2, <4>3, <4>4, TodayType DEF HasSharesGoingSpare, OnceEach, Sound
      <4>6. bnb_list[day].quantity + SameDayClaims(today) <= today.purchased.quantity
        BY <4>4, <4>5, TodayType DEF OnceEach, Sound, OwnDayComesFirst
      <4> QED
        BY <3>2, <4>5, <4>6, TodayType DEF OnceEach, Sound
    <3> QED
      BY <3>1, <3>2, TodayType DEF OnceEach, Sound
  <2>2. /\ phase' \in {"same_day", "fault"}
        /\ phase' = "same_day" =>
             ctx'.left = today.transferred /\ ctx'.no_gain_no_loss = TRUE
    <3>1. 0 \in Int /\ TRUE \in BOOLEAN /\ today.transferred \in Nat /\ Sound
      BY TodayType DEF OnceEach, Sound
    <3> QED
      BY <1>4, <3>1, BeginDisposalSound, Zenon
  <2> QED
    BY <1>1, <1>2, <2>1, <2>2 DEF OnceEach, OwnDayProgress, ClaimsNoted, Identifying,
                                  BeforeDisposals
<1> QED
  BY <1>3, <1>4 DEF StartTransfer

LEMMA MatchSameDayOnce ==
  ASSUME OnceEach, MatchSameDay
  PROVE  OnceEach'
<1> DEFINE units == IF ctx.left < today.purchased.quantity THEN ctx.left
                    ELSE today.purchased.quantity
<1>1. /\ phase = "same_day" /\ phase' = "bed_and_breakfast"
      /\ UNCHANGED <<history, day, bnb_list, claimed_before>>
  BY DEF MatchSameDay
<1>2. today' = today /\ TypeOK /\ Sound'
  BY <1>1, MatchSameDaySound DEF today, OnceEach, Sound
<1>3. /\ ctx.left \in Int /\ 0 <= ctx.left
      /\ ctx.no_gain_no_loss \in BOOLEAN
  BY <1>1, <1>2, ContextType DEF OnceEach, Sound, Counts, PoolCoversDisposal,
                                 Identifying
<1>4. units \in Nat /\ units <= today.purchased.quantity /\ units <= ctx.left
  BY <1>2, <1>3, TodayType
<1>5. OwnDayComesFirst'
  BY <1>1 DEF OnceEach, OwnDayComesFirst
<1>6. CASE ~(units > 0)
  <2>1. UNCHANGED <<ctx, identified>>
    BY <1>6 DEF MatchSameDay
  <2>2. IdentifiedFits' /\ LaterDaysUntouched'
    BY <1>1, <2>1, Frame
  <2>3. OwnDayProgress' /\ ClaimsNoted'
    BY <1>1, <1>2, <2>1 DEF OnceEach, OwnDayProgress, ClaimsNoted, Identifying,
                            BeforeDisposals
  <2> QED
    BY <1>2, <1>5, <2>2, <2>3 DEF OnceEach
<1>7. CASE units > 0
  <2>1. identified' = [identified EXCEPT ![day] = @ + units]
    BY <1>7 DEF MatchSameDay
  <2>2. /\ identified[day] = 0
        /\ ctx.no_gain_no_loss => ctx.left = today.transferred
        /\ ~ctx.no_gain_no_loss => ctx.left = today.disposed.quantity
    BY <1>1, <1>2, <1>3, <1>4, <1>7, TodayType DEF OnceEach, OwnDayProgress
  <2>3. identified'[day] = units /\ \A d \in Day : d # day => identified'[d] = identified[d]
    BY <1>2, <1>4, <2>1, <2>2 DEF TypeOK
  <2>4. units <= SameDayClaims(today)
    BY <1>2, <1>3, <1>4, <2>2, TodayType
  <2> HIDE DEF units
  <2>5. IdentifiedFits'
    BY <1>1, <1>2, <1>4, <2>3, <2>4, TodayType DEF OnceEach, IdentifiedFits
  <2>6. LaterDaysUntouched'
    <3>1. ASSUME NEW d \in Day, d > day
          PROVE  identified'[d] = 0
      <4>1. d # day
        BY <1>2, <3>1, TodayType DEF Day
      <4> QED
        BY <2>3, <3>1, <4>1 DEF OnceEach, LaterDaysUntouched
    <3> QED
      BY <1>1, <3>1 DEF LaterDaysUntouched
  <2>7. ctx'.no_gain_no_loss = ctx.no_gain_no_loss
    <3>1. ctx' = Identify(units,
                   normalize_amount(units * today.purchased.amount,
                                    today.purchased.quantity),
                   normalize_amount(units * today.purchased.amount,
                                    today.purchased.quantity))
      BY <1>7 DEF MatchSameDay, units
    <3> QED
      BY <1>2, <3>1, ContextType DEF Identify, Context
  <2>8. OwnDayProgress' /\ ClaimsNoted'
    BY <1>1, <1>2, <1>3, <1>4, <2>2, <2>3, <2>7, TodayType
       DEF OnceEach, OwnDayProgress, ClaimsNoted, Identifying, BeforeDisposals
  <2> QED
    BY <1>2, <1>5, <2>5, <2>6, <2>8 DEF OnceEach
<1> QED
  BY <1>6, <1>7

\* The rest of a disposal keeps its kind and leaves the day's counts alone.
LEMMA RestOfDisposalOnce ==
  ASSUME OnceEach,
         \/ SearchPassesDay \/ SearchRefusesDay \/ EndSearch
         \/ MatchSection104 \/ FinishDisposal
  PROVE  OwnDayProgress' /\ ClaimsNoted'
<1>1. /\ phase \in Identifying
      /\ UNCHANGED <<history, day, bnb_list, identified, claimed_before>>
  BY DEF SearchPassesDay, SearchRefusesDay, EndSearch, MatchSection104,
         FinishDisposal, Identifying
<1>2. today' = today
  BY <1>1 DEF today
<1>3. CASE FinishDisposal
  <2>1. /\ phase' \in {"fault", "close", "transfer"}
        /\ phase' = "transfer" => ~ctx.no_gain_no_loss
    <3>1. ctx.no_gain_no_loss \in BOOLEAN
      BY ContextType DEF OnceEach, Sound
    <3> QED
      BY <1>3, <3>1 DEF FinishDisposal
  <2>2. phase' = "transfer" => identified[day] <= today.disposed.quantity
    BY <1>1, <2>1 DEF OnceEach, OwnDayProgress
  <2>3. OwnDayProgress'
    BY <1>1, <1>2, <2>1, <2>2 DEF OwnDayProgress, Identifying, BeforeDisposals
  <2>4. ClaimsNoted'
    BY <1>1, <1>2, <2>1 DEF OnceEach, ClaimsNoted, Identifying
  <2> QED
    BY <2>3, <2>4
<1>4. CASE SearchPassesDay \/ SearchRefusesDay \/ EndSearch \/ MatchSection104
  <2>1. phase' \in {"bed_and_breakfast", "section_104", "finish", "refused", "fault"}
    BY <1>4 DEF SearchPassesDay, SearchRefusesDay, EndSearch, MatchSection104
  <2>2. ctx'.no_gain_no_loss = ctx.no_gain_no_loss
    <3>1. CASE SearchPassesDay
      BY <3>1, ReachedContextType DEF SearchPassesDay, OnceEach, Sound
    <3>2. CASE SearchRefusesDay \/ EndSearch
      BY <3>2 DEF SearchRefusesDay, EndSearch
    <3>3. CASE MatchSection104
      BY <3>3, ContextType DEF MatchSection104, Identify, Context, OnceEach, Sound
    <3> QED
      BY <1>4, <3>1, <3>2, <3>3
  <2> QED
    BY <1>1, <1>2, <2>1, <2>2 DEF OnceEach, OwnDayProgress, ClaimsNoted,
                                  Identifying, BeforeDisposals
<1> QED
  BY <1>3, <1>4

\* A claim is made on a later day, for no more than that day can give.
LEMMA SearchMatchesDayOnce ==
  ASSUME OnceEach, SearchMatchesDay
  PROVE  OnceEach'
<1> DEFINE matched == MatchedUnits(ReachedContext, Available(SearchDay))
           consumed == ConsumedUnits(ReachedContext, Available(SearchDay))
<1>1. /\ TypeOK /\ Searching /\ Available(SearchDay) # 0
      /\ ~Inexpressible(ReachedContext, Available(SearchDay))
      /\ Claim(ReachedContext, matched, consumed)
      /\ phase = "bed_and_breakfast"
      /\ UNCHANGED <<history, day, claimed_before, identified>>
  BY DEF OnceEach, Sound, SearchMatchesDay
<1>2. /\ ctx.left <= ctx.held /\ ctx.left <= ctx.quantity
  BY <1>1 DEF OnceEach, Sound, Counts, PoolCoversDisposal, Identifying
<1>3. /\ matched \in Int /\ matched > 0 /\ matched <= ctx.left
      /\ consumed \in Int /\ consumed > 0
      /\ history[SearchDay].purchased.quantity > 0
      /\ bnb_list[SearchDay].quantity + consumed + SameDayClaims(history[SearchDay])
           <= history[SearchDay].purchased.quantity
  BY <1>1, MatchedUnitsBounds
<1> HIDE DEF matched, consumed
<1>4. /\ ctx'.no_gain_no_loss = ctx.no_gain_no_loss
      /\ phase' \in {"fault", "bed_and_breakfast"}
      /\ normalize_amount(matched * ctx.cost, ctx.held) \in Int
  BY <1>1, <1>2, <1>3, ClaimContext
<1>5. \A d \in Day : bnb_list'[d].quantity =
        IF d = SearchDay /\ phase' # "fault" THEN bnb_list[d].quantity + consumed
        ELSE bnb_list[d].quantity
  BY <1>1, <1>3, <1>4, ClaimTallies
<1>6. SearchDay \in Day /\ day \in Day /\ SearchDay # day
  BY <1>1, SearchDayType DEF TypeOK, Day
<1>7. today' = today /\ bnb_list'[day].quantity = bnb_list[day].quantity
  BY <1>1, <1>5, <1>6 DEF today
<1>8. Sound'
  BY SearchMatchesDaySound DEF OnceEach
<1>9. OwnDayComesFirst'
  <2>1. ASSUME NEW d \in Day, bnb_list'[d].quantity > 0
        PROVE  bnb_list'[d].quantity + SameDayClaims(history[d])
                 <= history[d].purchased.quantity
    <3>1. CASE d = SearchDay
      <4>1. CASE phase' = "fault"
        BY <1>5, <2>1, <4>1 DEF OnceEach, OwnDayComesFirst
      <4>2. CASE phase' # "fault"
        BY <1>1, <1>3, <1>5, <3>1, <4>2, ClaimType, SameDayClaimsType, DayType
      <4> QED
        BY <4>1, <4>2
    <3>2. CASE d # SearchDay
      BY <1>5, <2>1, <3>2 DEF OnceEach, OwnDayComesFirst
    <3> QED
      BY <3>1, <3>2
  <2> QED
    BY <1>1, <2>1 DEF OwnDayComesFirst
<1>10. IdentifiedFits' /\ LaterDaysUntouched'
  BY <1>1 DEF OnceEach, IdentifiedFits, LaterDaysUntouched
<1>11. OwnDayProgress' /\ ClaimsNoted'
  BY <1>1, <1>4, <1>7 DEF OnceEach, OwnDayProgress, ClaimsNoted, Identifying,
                          BeforeDisposals
<1> QED
  BY <1>8, <1>9, <1>10, <1>11 DEF OnceEach

LEMMA CloseDayOnce ==
  ASSUME OnceEach, CloseDay
  PROVE  OnceEach'
<1>1. /\ UNCHANGED <<history, bnb_list, identified>>
      /\ phase' \in {"refused", "done", "open"}
      /\ phase' = "open" => day' = day + 1
      /\ day' \in {day, day + 1}
  BY DEF CloseDay, AtTheEnd
<1>2. Sound'
  BY CloseDaySound DEF OnceEach
<1>3. day \in Day /\ day' \in Day
  BY <1>2 DEF OnceEach, Sound, TypeOK
<1>4. OwnDayComesFirst' /\ IdentifiedFits'
  BY <1>1 DEF OnceEach, OwnDayComesFirst, IdentifiedFits
<1>5. LaterDaysUntouched'
  <2>1. \A d \in Day : d > day' => d > day
    BY <1>1, <1>3 DEF Day
  <2> QED
    BY <1>1, <2>1 DEF OnceEach, LaterDaysUntouched
<1>6. phase' = "open" => identified'[day'] = 0
  <2>1. phase' = "open" => day' > day
    BY <1>1, <1>3 DEF Day
  <2> QED
    BY <1>1, <1>3, <2>1 DEF OnceEach, LaterDaysUntouched
<1>7. OwnDayProgress' /\ ClaimsNoted'
  BY <1>1, <1>6 DEF OwnDayProgress, ClaimsNoted, Identifying, BeforeDisposals
<1> QED
  BY <1>2, <1>4, <1>5, <1>7 DEF OnceEach

LEMMA RecalculateOnce ==
  ASSUME OnceEach, Recalculate
  PROVE  OnceEach'
<1>1. Sound'
  BY RecalculateSound DEF OnceEach
<1>2. /\ \A d \in Day : bnb_list'[d].quantity = 0 /\ identified'[d] = 0
      /\ phase' = "open" /\ day' \in Day /\ history' = history
  BY <1>1 DEF Recalculate, ClaimsAfterReset, Nothing, Sound, TypeOK
<1>3. \A d \in Day : SameDayClaims(history[d]) \in Nat
                     /\ history[d].purchased.quantity \in Nat
  BY SameDayClaimsType, DayType DEF OnceEach, Sound
<1>4. OwnDayComesFirst'
  BY <1>2 DEF OwnDayComesFirst
<1>5. IdentifiedFits'
  BY <1>2, <1>3 DEF IdentifiedFits
<1>6. LaterDaysUntouched' /\ OwnDayProgress' /\ ClaimsNoted'
  BY <1>2 DEF LaterDaysUntouched, OwnDayProgress, ClaimsNoted, Identifying
<1> QED
  BY <1>1, <1>4, <1>5, <1>6 DEF OnceEach

LEMMA StepOnceEach == OnceEach /\ [Next]_vars => OnceEach'
<1> SUFFICES ASSUME OnceEach, [Next]_vars
             PROVE  OnceEach'
  OBVIOUS
<1>1. Sound'
  BY StepSound DEF OnceEach
<1>2. CASE UNCHANGED vars
  BY <1>1, <1>2 DEF OnceEach, vars, OwnDayComesFirst, IdentifiedFits,
     LaterDaysUntouched, OwnDayProgress, ClaimsNoted, today
<1>3. CASE OpenDay \/ ProcessAcquisition \/ RecordSplitReconciliations
  <2>1. UNCHANGED <<history, day, bnb_list, identified>>
    BY <1>3 DEF OpenDay, ProcessAcquisition, RecordSplitReconciliations
  <2> QED
    BY <1>1, <1>3, <2>1, Frame, BeforeDisposalsOnce DEF OnceEach
<1>4. CASE StartSale \/ StartTransfer
  <2>1. UNCHANGED <<history, day, bnb_list, identified>>
    BY <1>4 DEF StartSale, StartTransfer
  <2>2. OwnDayProgress' /\ ClaimsNoted'
    BY <1>4, StartSaleOnce, StartTransferOnce
  <2> QED
    BY <1>1, <2>1, <2>2, Frame DEF OnceEach
<1>5. CASE \/ SearchPassesDay \/ SearchRefusesDay \/ EndSearch
           \/ MatchSection104 \/ FinishDisposal
  <2>1. UNCHANGED <<history, day, bnb_list, identified>>
    BY <1>5 DEF SearchPassesDay, SearchRefusesDay, EndSearch, MatchSection104,
                FinishDisposal
  <2> QED
    BY <1>1, <1>5, <2>1, Frame, RestOfDisposalOnce DEF OnceEach
<1> QED
  BY <1>2, <1>3, <1>4, <1>5, MatchSameDayOnce, SearchMatchesDayOnce, CloseDayOnce,
     RecalculateOnce DEF Next

(***************************************************************************)
(* The same-day rule comes first: no disposal ever claims units that the   *)
(* acquisition day's own disposals will be identified against.             *)
(***************************************************************************)
THEOREM OwnDayAlwaysFirst == Spec => []OwnDayComesFirst
<1>1. OnceEach => OwnDayComesFirst
  BY DEF OnceEach
<1> QED
  BY <1>1, InitOnceEach, StepOnceEach, PTL DEF Spec

(***************************************************************************)
(* No unit of an acquisition is identified with two disposals.             *)
(***************************************************************************)
THEOREM IdentifiedOnce == Spec => []NoAcquisitionIdentifiedTwice
<1>1. OnceEach => NoAcquisitionIdentifiedTwice
  <2> SUFFICES ASSUME OnceEach, NEW d \in Day
               PROVE  identified[d] + bnb_list[d].quantity
                        <= history[d].purchased.quantity
    BY DEF NoAcquisitionIdentifiedTwice
  <2>1. /\ identified[d] \in Nat /\ bnb_list[d].quantity \in Nat
        /\ SameDayClaims(history[d]) \in Nat
        /\ history[d].purchased.quantity \in Nat
    BY ClaimType, SameDayClaimsType, DayType DEF OnceEach, Sound, TypeOK
  <2>2. /\ identified[d] <= SameDayClaims(history[d])
        /\ identified[d] <= history[d].purchased.quantity
    BY DEF OnceEach, IdentifiedFits
  <2>3. CASE bnb_list[d].quantity > 0
    BY <2>1, <2>2, <2>3 DEF OnceEach, OwnDayComesFirst
  <2> QED
    BY <2>1, <2>2, <2>3
<1> QED
  BY <1>1, InitOnceEach, StepOnceEach, PTL DEF Spec

(***************************************************************************)
(* A claim is never made on an acquisition the walk has already priced.    *)
(***************************************************************************)
THEOREM ClaimsAlwaysPrecede == Spec => ClaimsPrecedeAcquisition
<1>1. Sound /\ [Next]_vars =>
        [\A d \in Day : Acquired(d) /\ phase # "done" =>
           bnb_list'[d] = bnb_list[d]]_vars
  <2> SUFFICES ASSUME Sound, Next, NEW d \in Day, Acquired(d), phase # "done"
               PROVE  bnb_list'[d] = bnb_list[d]
    OBVIOUS
  <2>1. CASE SearchMatchesDay
    <3>1. /\ Searching /\ TypeOK
          /\ Claim(ReachedContext, MatchedUnits(ReachedContext, Available(SearchDay)),
                   ConsumedUnits(ReachedContext, Available(SearchDay)))
      BY <2>1 DEF SearchMatchesDay, Sound
    <3>2. /\ SearchDay \in Day /\ SearchDay > day /\ day \in Day
          /\ ReachedContext.look = SearchDay
      BY <3>1, SearchDayType, ReachedContextType DEF TypeOK
    <3>3. d # SearchDay
      BY <3>2 DEF Acquired, Day
    <3>4. \/ bnb_list' = bnb_list
          \/ \E tally : bnb_list' = [bnb_list EXCEPT ![SearchDay] = tally]
      BY <3>1, <3>2 DEF Claim, ClaimedDay
    <3> QED
      BY <3>1, <3>3, <3>4 DEF TypeOK
  <2> QED
    BY <2>1 DEF Next, OpenDay, ProcessAcquisition, RecordSplitReconciliations,
       StartSale, StartTransfer, MatchSameDay, SearchPassesDay, SearchRefusesDay,
       EndSearch, MatchSection104, FinishDisposal, CloseDay, AtTheEnd, Recalculate
<1> QED
  BY <1>1, InitSound, StepSound, PTL DEF Spec, ClaimsPrecedeAcquisition

----------------------------------------------------------------------------
(***************************************************************************)
(* The walk over a holding that is never reorganised implements the order  *)
(* of identification: each of its steps is a step of ShareIdentification,  *)
(* or changes nothing that module speaks of.  Beyond the invariant above   *)
(* this needs to know what the search has passed.                          *)
(***************************************************************************)
Searched == {"bed_and_breakfast", "section_104"}

\* While a disposal has units left, no day it has passed has a unit to give.
PassedDaysAreSpent ==
  phase \in Searched /\ ctx.left > 0 =>
    \A d \in Day : (d = day \/ (d \in Window /\ d <= ctx.look)) =>
      Identification!Spare(d) = 0

\* The search starts at the disposal and ends with the window.
SearchOrder ==
  /\ phase = "same_day" => ctx.look = day
  /\ phase \in Searched => ctx.look >= day
  /\ phase = "section_104" /\ ctx.left > 0 => \A d \in Window : d <= ctx.look

\* No reorganisation lies on the way.
NothingRestated ==
  phase \in {"same_day", "bed_and_breakfast"} =>
    ctx.ratio = Unscaled /\ ctx.settled

\* A calculation that is done has walked every day of the report.
WalkedToTheEnd == phase = "done" => day = TaxYearEnd

InOrder ==
  /\ OnceEach
  /\ NeverReorganised
  /\ PassedDaysAreSpent
  /\ SearchOrder
  /\ NothingRestated
  /\ WalkedToTheEnd

----------------------------------------------------------------------------
(***************************************************************************)
(* The abstract module's operators, in the walk's terms.                   *)
(***************************************************************************)
LEMMA SameDays == Identification!Day = Day
  BY DEF Identification!Day, Day

LEMMA SameReach ==
  ASSUME TypeOK
  PROVE  Identification!Reach = {d \in Day : d = day \/ d \in Window}
<1>1. BED_AND_BREAKFAST_DAYS \in Nat /\ day \in Day
  BY HistoryAssumption DEF TypeOK
<1> QED
  BY <1>1, SameDays DEF Identification!Reach, Window, Day

LEMMA SpareUnits ==
  ASSUME NEW d \in Day
  PROVE  Identification!Spare(d) =
           LET kept == IF d = day THEN identified[d] ELSE SameDayClaims(history[d])
               over == history[d].purchased.quantity - kept - bnb_list[d].quantity
           IN  IF over > 0 THEN over ELSE 0
  BY SameDays DEF Identification!Spare, Identification!SameDayClaims, SameDayClaims

LEMMA SpareUnitsNext ==
  ASSUME NEW d \in Day
  PROVE  Identification!Spare(d)' =
           LET kept == IF d = day' THEN identified'[d] ELSE SameDayClaims(history'[d])
               over == history'[d].purchased.quantity - kept - bnb_list'[d].quantity
           IN  IF over > 0 THEN over ELSE 0
  BY SameDays DEF Identification!Spare, Identification!SameDayClaims, SameDayClaims

\* A day's spare units change only with what is identified with that day.
LEMMA SpareKeeps ==
  ASSUME NEW d \in Day, UNCHANGED <<history, day>>,
         identified'[d] = identified[d],
         bnb_list'[d].quantity = bnb_list[d].quantity
  PROVE  Identification!Spare(d)' = Identification!Spare(d)
  BY SpareUnits, SpareUnitsNext

(***************************************************************************)
(* Without a reorganisation a count converts to itself.                    *)
(***************************************************************************)
LEMMA RoundWhole ==
  ASSUME NEW n \in Int
  PROVE  RoundHalfUp(n * 1, 1) = n
  BY DEF RoundHalfUp

LEMMA UnscaledIsIdentity ==
  ASSUME NEW n \in Int
  PROVE  scale_quantity(n, Unscaled) = n /\ unscale_quantity(n, Unscaled) = n
  BY RoundWhole DEF scale_quantity, unscale_quantity, Unscaled

\* The search reaches the next day with nothing to convert by.
LEMMA ReachedUnscaled ==
  ASSUME InOrder, phase = "bed_and_breakfast", Searching
  PROVE  ReachedContext.ratio = Unscaled /\ ReachedContext.settled
<1>1. TypeOK /\ SearchDay \in Day /\ ctx.ratio = Unscaled /\ ctx.settled
  BY SearchDayType DEF InOrder, OnceEach, Sound, NothingRestated
<1>2. ~history[SearchDay].split.planned
  BY <1>1 DEF InOrder, NeverReorganised
<1> QED
  BY <1>1, <1>2, ReachedContextType

\* What a later day still has to give is what the search finds there.
LEMMA AvailableIsSpare ==
  ASSUME TypeOK, NEW d \in Day, d # day
  PROVE  /\ Available(d) = 0 => Identification!Spare(d) = 0
         /\ Available(d) > 0 => Identification!Spare(d) = Available(d)
<1>1. /\ history[d].purchased.quantity \in Nat
      /\ SameDayClaims(history[d]) \in Nat
      /\ bnb_list[d].quantity \in Nat
  BY DayType, ClaimType, SameDayClaimsType
<1> QED
  BY <1>1, SpareUnits DEF Available

(***************************************************************************)
(* A day's match takes the same count of both, the smaller of what is left *)
(* and what the day can give.                                              *)
(***************************************************************************)
LEMMA MatchedIsConsumed ==
  ASSUME InOrder, phase = "bed_and_breakfast", Searching,
         Available(SearchDay) # 0,
         ~Inexpressible(ReachedContext, Available(SearchDay))
  PROVE  LET available == Available(SearchDay)
             matched == MatchedUnits(ReachedContext, available)
         IN  /\ available \in Int /\ available > 0
             /\ matched = IF ctx.left < available THEN ctx.left ELSE available
             /\ ConsumedUnits(ReachedContext, available) = matched
<1> DEFINE available == Available(SearchDay)
           matched == MatchedUnits(ReachedContext, available)
<1>1. TypeOK /\ SearchDay \in Day /\ ctx.left \in Int
  BY SearchDayType, ContextType DEF InOrder, OnceEach, Sound
<1>2. available \in Int
  BY <1>1, DayType, ClaimType, SameDayClaimsType DEF Available
<1>3. ReachedContext.ratio = Unscaled
  BY ReachedUnscaled
<1> HIDE DEF available
<1>4. unscale_quantity(available, ReachedContext.ratio) = available
  BY <1>2, <1>3, UnscaledIsIdentity
<1>5. available > 0
  BY <1>2, <1>4 DEF Inexpressible, available
<1>6. matched = IF ctx.left < available THEN ctx.left ELSE available
  BY <1>4 DEF MatchedUnits
<1>7. matched \in Int
  BY <1>1, <1>2, <1>6
<1> HIDE DEF matched
<1>8. scale_quantity(matched, ReachedContext.ratio) = matched
  BY <1>3, <1>7, UnscaledIsIdentity
<1>9. matched <= available
  BY <1>1, <1>2, <1>6
<1>10. ConsumedUnits(ReachedContext, available) = matched
  BY <1>2, <1>4, <1>7, <1>8, <1>9 DEF ConsumedUnits, matched
<1> QED
  BY <1>2, <1>5, <1>6, <1>10 DEF available, matched

----------------------------------------------------------------------------
(***************************************************************************)
(* InOrder is inductive.                                                   *)
(***************************************************************************)
LEMMA InitInOrder == Init /\ NeverReorganised => InOrder
<1> SUFFICES ASSUME Init, NeverReorganised
             PROVE  InOrder
  OBVIOUS
<1>1. OnceEach
  BY InitOnceEach
<1>2. phase = "open"
  BY DEF Init
<1> QED
  BY <1>1, <1>2 DEF InOrder, PassedDaysAreSpent, SearchOrder, NothingRestated,
                    WalkedToTheEnd, Searched

\* A disposal begins its search at its own day.
LEMMA BeginInOrder ==
  ASSUME InOrder, StartSale \/ StartTransfer
  PROVE  PassedDaysAreSpent' /\ SearchOrder' /\ NothingRestated' /\ WalkedToTheEnd'
<1>1. /\ phase' \in {"same_day", "fault", "transfer", "close", "refused"}
      /\ phase' = "same_day" =>
           /\ ctx'.look = day /\ ctx'.ratio = Unscaled /\ ctx'.settled = TRUE
      /\ day' = day
  BY DEF StartSale, StartTransfer, BeginDisposal, DisposalContext
<1> QED
  BY <1>1 DEF PassedDaysAreSpent, SearchOrder, NothingRestated, WalkedToTheEnd,
              Searched

\* Units left after the day's own purchases mean there are none of those left.
LEMMA SameDayInOrder ==
  ASSUME InOrder, MatchSameDay
  PROVE  PassedDaysAreSpent' /\ SearchOrder' /\ NothingRestated' /\ WalkedToTheEnd'
<1> DEFINE purchased == today.purchased
           units == IF ctx.left < purchased.quantity THEN ctx.left
                    ELSE purchased.quantity
           cost == normalize_amount(units * purchased.amount, purchased.quantity)
<1>1. /\ phase = "same_day" /\ phase' = "bed_and_breakfast"
      /\ UNCHANGED <<history, day, bnb_list>>
      /\ TypeOK /\ Sound
  BY DEF InOrder, OnceEach, Sound, MatchSameDay
<1>2. /\ day \in Day /\ purchased.quantity \in Nat /\ purchased.amount \in Nat
      /\ identified[day] \in Nat /\ bnb_list[day].quantity \in Nat
      /\ ctx.left \in Int /\ 0 <= ctx.left /\ ctx.quantity \in Nat
      /\ ctx.left <= ctx.quantity
      /\ purchased.quantity = history[day].purchased.quantity
  BY <1>1, TodayType, DayType, ContextType
     DEF Sound, Counts, PoolCoversDisposal, Identifying, today
<1>3. ctx.look = day /\ ctx.ratio = Unscaled /\ ctx.settled
  BY <1>1 DEF InOrder, SearchOrder, NothingRestated
<1>4. /\ ctx'.look = day /\ ctx'.ratio = Unscaled /\ ctx'.settled
      /\ ctx'.left > 0 => identified'[day] >= purchased.quantity
  <2>1. CASE units > 0
    <3>1. ctx' = Identify(units, cost, cost) /\ identified' = [identified EXCEPT ![day] = @ + units]
      BY <2>1 DEF MatchSameDay
    <3>2. units \in Int /\ ctx.quantity > 0 /\ units <= ctx.left
      BY <1>2, <2>1
    <3>3. cost \in Int
      <4>1. units * purchased.amount \in Int /\ purchased.quantity > 0
        BY <1>2, <2>1
      <4> QED
        BY <1>2, <4>1, NormalizeType
    <3>4. ctx'.left = ctx.left - units /\ ctx'.look = ctx.look
      <4> HIDE DEF units, cost
      <4> QED
        BY <1>1, <3>1, <3>2, <3>3, IdentifyType
    <3>5. ctx'.ratio = ctx.ratio /\ ctx'.settled = ctx.settled
      BY <1>1, <3>1, IdentifyKeeps
    <3>6. identified'[day] = identified[day] + units
      BY <1>1, <1>2, <3>1 DEF TypeOK
    <3> QED
      BY <1>2, <1>3, <3>2, <3>4, <3>5, <3>6
  <2>2. CASE ~(units > 0)
    <3>1. UNCHANGED <<ctx, identified>>
      BY <2>2 DEF MatchSameDay
    <3> QED
      BY <1>2, <1>3, <2>2, <3>1
  <2> QED
    BY <2>1, <2>2
<1>5. PassedDaysAreSpent'
  <2> SUFFICES ASSUME ctx'.left > 0, NEW d \in Day,
                      d = day \/ (d \in Window' /\ d <= day)
               PROVE  Identification!Spare(d)' = 0
    BY <1>1, <1>4 DEF PassedDaysAreSpent
  <2>1. d = day
    BY <1>1, <1>2 DEF Window, Day
  <2>2. identified'[day] \in Nat
    BY <1>1, <1>2, StepSound DEF InOrder, OnceEach, Sound, TypeOK, Next
  <2> QED
    BY <1>1, <1>2, <1>4, <2>1, <2>2, SpareUnitsNext
<1> QED
  BY <1>1, <1>2, <1>4, <1>5 DEF SearchOrder, NothingRestated, WalkedToTheEnd, Day, Searched

\* Passing a day over leaves nothing behind on it.
LEMMA PassInOrder ==
  ASSUME InOrder, SearchPassesDay
  PROVE  PassedDaysAreSpent' /\ SearchOrder' /\ NothingRestated' /\ WalkedToTheEnd'
<1>1. /\ phase = "bed_and_breakfast" /\ phase' = phase
      /\ UNCHANGED <<history, day, bnb_list, identified>>
      /\ TypeOK /\ Searching /\ Available(SearchDay) = 0
      /\ ctx' = ReachedContext
  BY DEF InOrder, OnceEach, Sound, SearchPassesDay
<1>2. /\ day \in Day /\ SearchDay \in Day /\ SearchDay > day /\ ctx.look \in Day
      /\ ctx.look >= day /\ ctx.left > 0
  BY <1>1, SearchDayType, ContextType DEF InOrder, SearchOrder, Searched, TypeOK
<1>3. /\ ctx'.look = SearchDay /\ ctx'.left = ctx.left
      /\ ctx'.ratio = Unscaled /\ ctx'.settled
  BY <1>1, ReachedContextType, ReachedUnscaled
<1>4. ASSUME NEW d \in Day, d = day \/ (d \in Window /\ d <= SearchDay)
      PROVE  Identification!Spare(d)' = 0
  <2>1. Identification!Spare(d)' = Identification!Spare(d)
    BY <1>1, SpareKeeps
  <2>2. CASE d = SearchDay
    BY <1>1, <1>2, <2>1, <2>2, AvailableIsSpare DEF Day
  <2>3. CASE d # SearchDay
    <3>1. d = day \/ (d \in Window /\ d <= ctx.look)
      BY <1>2, <1>4, <2>3 DEF SearchDay, Day
    <3> QED
      BY <1>1, <1>2, <2>1, <3>1 DEF InOrder, PassedDaysAreSpent, Searched
  <2> QED
    BY <2>2, <2>3
<1>5. PassedDaysAreSpent'
  BY <1>1, <1>3, <1>4 DEF PassedDaysAreSpent, Window
<1> QED
  BY <1>1, <1>2, <1>3, <1>5 DEF SearchOrder, NothingRestated, WalkedToTheEnd, Day,
                                Searched

(***************************************************************************)
(* What a claim does when there is nothing to convert: it takes the        *)
(* smaller of what is left and what the day can give, from both.           *)
(***************************************************************************)
LEMMA ClaimTakes ==
  ASSUME InOrder, SearchMatchesDay
  PROVE  LET taken == IF ctx.left < Identification!Spare(SearchDay) THEN ctx.left
                      ELSE Identification!Spare(SearchDay)
         IN  /\ taken > 0 /\ taken \in Int
             /\ ctx'.left = ctx.left - taken
             /\ ctx'.look = SearchDay
             /\ ctx'.no_gain_no_loss = ctx.no_gain_no_loss
             /\ ctx'.ratio = Unscaled /\ ctx'.settled
             /\ phase' \in {"fault", "bed_and_breakfast"}
             /\ \A d \in Day : bnb_list'[d].quantity =
                  IF d = SearchDay /\ phase' # "fault"
                    THEN bnb_list[d].quantity + taken
                  ELSE bnb_list[d].quantity
<1> DEFINE available == Available(SearchDay)
           matched == MatchedUnits(ReachedContext, available)
           consumed == ConsumedUnits(ReachedContext, available)
<1>1. /\ TypeOK /\ Searching /\ available # 0
      /\ ~Inexpressible(ReachedContext, available)
      /\ Claim(ReachedContext, matched, consumed)
      /\ phase = "bed_and_breakfast"
  BY DEF InOrder, OnceEach, Sound, SearchMatchesDay
<1>2. /\ ctx.left <= ctx.held /\ ctx.left <= ctx.quantity
      /\ ctx.left \in Int /\ ctx.left > 0
  BY <1>1, ContextType, SearchDayType
     DEF InOrder, OnceEach, Sound, Counts, PoolCoversDisposal, Identifying
<1>3. SearchDay \in Day /\ SearchDay # day
  BY <1>1, SearchDayType DEF TypeOK, Day
<1>4. /\ available \in Int /\ available > 0
      /\ matched = IF ctx.left < available THEN ctx.left ELSE available
      /\ consumed = matched
  BY <1>1, MatchedIsConsumed
<1>5. Identification!Spare(SearchDay) = available
  BY <1>1, <1>4, <1>3, AvailableIsSpare
<1>6. matched \in Int /\ matched > 0 /\ matched <= ctx.left /\ consumed \in Int
      /\ consumed > 0 /\ history[SearchDay].purchased.quantity > 0
  BY <1>1, MatchedUnitsBounds
<1>7. ReachedContext.ratio = Unscaled /\ ReachedContext.settled
  BY <1>1, ReachedUnscaled
<1> HIDE DEF available, matched, consumed
<1>8. /\ ctx'.left = ctx.left - matched
      /\ ctx'.look = SearchDay
      /\ ctx'.no_gain_no_loss = ctx.no_gain_no_loss
      /\ ctx'.ratio = ReachedContext.ratio
      /\ ctx'.settled = ReachedContext.settled
      /\ phase' \in {"fault", "bed_and_breakfast"}
      /\ normalize_amount(matched * ctx.cost, ctx.held) \in Int
  BY <1>1, <1>2, <1>6, ClaimContext
<1>9. \A d \in Day : bnb_list'[d].quantity =
        IF d = SearchDay /\ phase' # "fault" THEN bnb_list[d].quantity + consumed
        ELSE bnb_list[d].quantity
  BY <1>1, <1>6, <1>8, ClaimTallies
<1> QED
  BY <1>4, <1>5, <1>6, <1>7, <1>8, <1>9

\* Units left after a day's match mean that day has none left.
LEMMA ClaimInOrder ==
  ASSUME InOrder, SearchMatchesDay
  PROVE  PassedDaysAreSpent' /\ SearchOrder' /\ NothingRestated' /\ WalkedToTheEnd'
<1> DEFINE taken == IF ctx.left < Identification!Spare(SearchDay) THEN ctx.left
                    ELSE Identification!Spare(SearchDay)
<1>1. /\ phase = "bed_and_breakfast" /\ TypeOK /\ Searching
      /\ UNCHANGED <<history, day, identified>>
  BY DEF InOrder, OnceEach, Sound, SearchMatchesDay
<1>2. /\ day \in Day /\ SearchDay \in Day /\ SearchDay > day /\ ctx.look \in Day
      /\ ctx.look >= day /\ ctx.left > 0 /\ ctx.left \in Int
  BY <1>1, SearchDayType, ContextType DEF InOrder, SearchOrder, Searched, TypeOK
<1>3. /\ taken > 0 /\ taken \in Int
      /\ ctx'.left = ctx.left - taken
      /\ ctx'.look = SearchDay
      /\ ctx'.ratio = Unscaled /\ ctx'.settled
      /\ phase' \in {"fault", "bed_and_breakfast"}
      /\ \A d \in Day : bnb_list'[d].quantity =
           IF d = SearchDay /\ phase' # "fault" THEN bnb_list[d].quantity + taken
           ELSE bnb_list[d].quantity
  BY ClaimTakes
<1>4. PassedDaysAreSpent'
  <2> SUFFICES ASSUME phase' = "bed_and_breakfast", ctx'.left > 0, NEW d \in Day,
                      d = day \/ (d \in Window /\ d <= SearchDay)
               PROVE  Identification!Spare(d)' = 0
    BY <1>1, <1>3 DEF PassedDaysAreSpent, Searched, Window
  <2>1. CASE d = SearchDay
    <3>1. /\ history[SearchDay].purchased.quantity \in Nat
          /\ SameDayClaims(history[SearchDay]) \in Nat
          /\ bnb_list[SearchDay].quantity \in Nat
      BY <1>1, <1>2, DayType, ClaimType, SameDayClaimsType
    <3>2. taken = Identification!Spare(SearchDay)
      BY <1>2, <1>3
    <3>3. bnb_list'[SearchDay].quantity
            = bnb_list[SearchDay].quantity + Identification!Spare(SearchDay)
      BY <1>2, <1>3, <3>2
    <3>4. SearchDay # day
      BY <1>2 DEF Day
    <3> HIDE DEF taken
    <3> QED
      BY <1>1, <1>2, <2>1, <3>1, <3>3, <3>4, SpareUnits, SpareUnitsNext
  <2>2. CASE d # SearchDay
    <3>1. d = day \/ (d \in Window /\ d <= ctx.look)
      BY <1>2, <2>2 DEF SearchDay, Day
    <3>2. Identification!Spare(d) = 0
      BY <1>1, <1>2, <3>1 DEF InOrder, PassedDaysAreSpent, Searched
    <3> QED
      BY <1>1, <1>3, <2>2, <3>2, SpareKeeps
  <2> QED
    BY <2>1, <2>2
<1> QED
  BY <1>1, <1>2, <1>3, <1>4 DEF SearchOrder, NothingRestated, WalkedToTheEnd, Day,
                                Searched

\* The search ends with nothing left to identify or the window behind it.
LEMMA EndSearchInOrder ==
  ASSUME InOrder, EndSearch
  PROVE  PassedDaysAreSpent' /\ SearchOrder' /\ NothingRestated' /\ WalkedToTheEnd'
<1>1. /\ phase = "bed_and_breakfast" /\ phase' = "section_104" /\ TypeOK
      /\ UNCHANGED <<history, day, identified, bnb_list, ctx>> /\ ~Searching
  BY DEF InOrder, OnceEach, Sound, EndSearch
<1>2. /\ day \in Day /\ ctx.look \in Day /\ ctx.look >= day
      /\ BED_AND_BREAKFAST_DAYS \in Nat /\ LastDay \in Nat
  BY <1>1, ContextType, HistoryAssumption DEF InOrder, SearchOrder, Searched, TypeOK
<1>3. ASSUME ctx.left > 0, NEW d \in Window
      PROVE  d <= ctx.look
  <2>1. SearchDay \notin Window
    BY <1>1, <1>3 DEF Searching
  <2> QED
    BY <1>2, <2>1 DEF Window, SearchDay, Day
<1>4. PassedDaysAreSpent'
  <2> SUFFICES ASSUME ctx.left > 0, NEW d \in Day,
                      d = day \/ (d \in Window /\ d <= ctx.look)
               PROVE  Identification!Spare(d)' = 0
    BY <1>1 DEF PassedDaysAreSpent, Window
  <2>1. Identification!Spare(d) = 0
    BY <1>1 DEF InOrder, PassedDaysAreSpent, Searched
  <2> QED
    BY <1>1, <2>1, SpareKeeps
<1> QED
  BY <1>1, <1>2, <1>3, <1>4 DEF SearchOrder, NothingRestated, WalkedToTheEnd, Searched,
                                Window

LEMMA StepInOrder == InOrder /\ [Next]_vars => InOrder'
<1> SUFFICES ASSUME InOrder, [Next]_vars
             PROVE  InOrder'
  OBVIOUS
<1>1. OnceEach'
  BY StepOnceEach DEF InOrder
<1>2. history' = history
  BY DEF Next, OpenDay, ProcessAcquisition, RecordSplitReconciliations, StartSale,
         StartTransfer, MatchSameDay, SearchPassesDay, SearchRefusesDay,
         SearchMatchesDay, EndSearch, MatchSection104, FinishDisposal, CloseDay,
         Recalculate, vars
<1>3. NeverReorganised'
  BY <1>2 DEF InOrder, NeverReorganised
<1>4. PassedDaysAreSpent' /\ SearchOrder' /\ NothingRestated' /\ WalkedToTheEnd'
  <2>1. CASE UNCHANGED vars
    <3>1. UNCHANGED <<history, day, phase, bnb_list, ctx, identified>>
      BY <2>1 DEF vars
    <3>2. \A d \in Day : Identification!Spare(d)' = Identification!Spare(d)
      BY <3>1, SpareKeeps
    <3> QED
      BY <3>1, <3>2 DEF InOrder, PassedDaysAreSpent, SearchOrder, NothingRestated,
                        WalkedToTheEnd, Window
  <2>2. CASE \/ OpenDay \/ ProcessAcquisition \/ RecordSplitReconciliations
             \/ SearchRefusesDay \/ MatchSection104 \/ FinishDisposal \/ Recalculate
    <3>1. phase' \in {"open", "acquire", "reconcile", "dispose", "transfer", "close",
                      "finish", "refused", "fault"}
      BY <2>2 DEF OpenDay, ProcessAcquisition, RecordSplitReconciliations,
                  SearchRefusesDay, MatchSection104, FinishDisposal, Recalculate
    <3> QED
      BY <3>1 DEF PassedDaysAreSpent, SearchOrder, NothingRestated, WalkedToTheEnd,
                  Searched
  <2>3. CASE CloseDay
    <3>1. /\ phase' \in {"refused", "done", "open"}
          /\ phase' = "done" => day' = TaxYearEnd
      BY <2>3 DEF CloseDay, AtTheEnd
    <3> QED
      BY <3>1 DEF PassedDaysAreSpent, SearchOrder, NothingRestated, WalkedToTheEnd,
                  Searched
  <2> QED
    BY <2>1, <2>2, <2>3, BeginInOrder, SameDayInOrder, PassInOrder, ClaimInOrder,
       EndSearchInOrder DEF Next
<1> QED
  BY <1>1, <1>3, <1>4 DEF InOrder

----------------------------------------------------------------------------
(***************************************************************************)
(* The abstract steps, from what the walk does to what they speak of.      *)
(***************************************************************************)
Left == IF phase \in Identifying THEN ctx.left ELSE 0
Refused == phase \in {"refused", "fault"}

LEMMA Stutters ==
  ASSUME UNCHANGED <<history, day, identified, bnb_list>>,
         DueNow' = DueNow, Left' = Left, ~Refused, ~Refused'
  PROVE  UNCHANGED Identification!statute
  BY DEF Identification!statute, Left, Refused

\* Giving up is possible at any point, and leaves every count alone.
LEMMA GivesUp ==
  ASSUME UNCHANGED <<history, day, identified>>, ~Refused, Refused',
         \A d \in Day : bnb_list'[d].quantity = bnb_list[d].quantity
  PROVE  Identification!Next
<1>1. Left' = 0 /\ DueNow' = {}
  BY DEF Left, Refused, Identifying, DueNow
<1>2. Identification!Refuse
  BY <1>1 DEF Identification!Refuse, Left, Refused
<1> QED
  BY <1>2 DEF Identification!Next

LEMMA Begins ==
  ASSUME UNCHANGED <<history, day, identified, bnb_list>>, ~Refused, ~Refused',
         NEW kind \in {"sale", "transfer"}, kind \in DueNow,
         kind = "transfer" => "sale" \notin DueNow,
         DueNow' = DueNow \ {kind}, Left = 0,
         Left' = IF kind = "sale" THEN today.disposed.quantity
                 ELSE today.transferred
  PROVE  Identification!Next
<1>1. Identification!Begin(kind)
  BY DEF Identification!Begin, Identification!UnitsOf, Left, Refused, today
<1> QED
  BY <1>1 DEF Identification!Next

\* Units are identified with a day when every nearer one has none left.
LEMMA IdentifiesWith ==
  ASSUME TypeOK, UNCHANGED <<history, day>>, ~Refused, ~Refused', DueNow' = DueNow,
         NEW d \in Day, d = day \/ d \in Window,
         \A e \in Day : (e = day \/ e \in Window) /\ e < d =>
           Identification!Spare(e) = 0,
         NEW units, units > 0,
         units = IF Left < Identification!Spare(d) THEN Left
                 ELSE Identification!Spare(d),
         Left' = Left - units,
         identified' = IF d = day THEN [identified EXCEPT ![d] = @ + units]
                       ELSE identified,
         \A e \in Day : bnb_list'[e].quantity =
           IF e = d /\ d # day THEN bnb_list[e].quantity + units
           ELSE bnb_list[e].quantity
  PROVE  Identification!Next
<1>1. Identification!Reach = {e \in Day : e = day \/ e \in Window}
  BY SameReach
<1>2. [e \in Day |-> bnb_list'[e].quantity] =
        IF d = day THEN [e \in Day |-> bnb_list[e].quantity]
        ELSE [[e \in Day |-> bnb_list[e].quantity] EXCEPT ![d] = @ + units]
  OBVIOUS
<1>3. Identification!IdentifyWith(d)
  BY <1>1, <1>2 DEF Identification!IdentifyWith, Left, Refused
<1> QED
  BY <1>1, <1>3 DEF Identification!Next

LEMMA IdentifiesWithPool ==
  ASSUME TypeOK, UNCHANGED <<history, day, identified, bnb_list>>,
         ~Refused, ~Refused', DueNow' = DueNow, Left > 0, Left' = 0,
         \A e \in Day : (e = day \/ e \in Window) => Identification!Spare(e) = 0
  PROVE  Identification!Next
<1>1. Identification!Reach = {e \in Day : e = day \/ e \in Window}
  BY SameReach
<1>2. Identification!IdentifyWithPool
  BY <1>1 DEF Identification!IdentifyWithPool, Left, Refused
<1> QED
  BY <1>2 DEF Identification!Next

----------------------------------------------------------------------------
(***************************************************************************)
(* Each step of the walk is one of them, or changes nothing they speak of. *)
(***************************************************************************)
LEMMA SameDisposals ==
  ASSUME UNCHANGED <<history, day>>
  PROVE  today' = today /\ DisposalsToday' = DisposalsToday
  BY DEF DisposalsToday, today

LEMMA BeforeDisposalsRefines ==
  ASSUME InOrder, OpenDay \/ ProcessAcquisition \/ RecordSplitReconciliations
  PROVE  Identification!Next \/ UNCHANGED Identification!statute
<1>1. /\ UNCHANGED <<history, day, identified, bnb_list>>
      /\ phase \in {"open", "acquire", "reconcile"}
      /\ phase' \in {"acquire", "reconcile", "dispose", "refused", "fault"}
  BY DEF OpenDay, ProcessAcquisition, RecordSplitReconciliations
<1>2. ~Refused /\ DueNow = DisposalsToday /\ Left = 0
  BY <1>1 DEF Refused, DueNow, Left, Identifying
<1>3. CASE phase' \in {"refused", "fault"}
  BY <1>1, <1>2, <1>3, GivesUp DEF Refused
<1>4. CASE phase' \in {"acquire", "reconcile", "dispose"}
  <2>1. ~Refused' /\ DueNow' = DisposalsToday' /\ Left' = 0
    BY <1>4 DEF Refused, DueNow, Left, Identifying
  <2> QED
    BY <1>1, <1>2, <2>1, SameDisposals, Stutters
<1> QED
  BY <1>1, <1>3, <1>4

LEMMA StartSaleRefines ==
  ASSUME InOrder, StartSale
  PROVE  Identification!Next \/ UNCHANGED Identification!statute
<1>1. /\ UNCHANGED <<history, day, identified, bnb_list>>
      /\ phase = "dispose" /\ today.disposed.quantity \in Nat /\ Sound
      /\ today.disposed.amount \in Int
  BY TodayType, DayType DEF InOrder, OnceEach, Sound, TypeOK, StartSale
<1>2. ~Refused /\ DueNow = DisposalsToday /\ Left = 0
  BY <1>1 DEF Refused, DueNow, Left, Identifying
<1>3. DisposalsToday' = DisposalsToday
  BY <1>1, SameDisposals
<1>4. CASE today.disposed.quantity > 0
  <2>1. "sale" \in DueNow
    BY <1>2, <1>4 DEF DisposalsToday
  <2>2. /\ phase' \in {"same_day", "fault"}
        /\ phase' = "same_day" =>
             ctx'.left = today.disposed.quantity /\ ctx'.no_gain_no_loss = FALSE
    <3>1. BeginDisposal(today.disposed.quantity, today.disposed.amount, FALSE)
      BY <1>4 DEF StartSale
    <3> QED
      BY <1>1, <3>1, BeginDisposalSound
  <2>3. CASE phase' = "fault"
    BY <1>1, <1>2, <2>3, GivesUp DEF Refused
  <2>4. CASE phase' = "same_day"
    <3>1. /\ ~Refused' /\ Left' = today.disposed.quantity
          /\ DueNow' = DisposalsToday' \ {"sale"}
      BY <2>2, <2>4 DEF Refused, DueNow, Left, Identifying
    <3> QED
      BY <1>1, <1>2, <1>3, <2>1, <3>1, Begins
  <2> QED
    BY <2>2, <2>3, <2>4
<1>5. CASE ~(today.disposed.quantity > 0)
  <2>1. phase' = "transfer"
    BY <1>5 DEF StartSale
  <2>2. ~Refused' /\ Left' = 0 /\ DueNow' = DisposalsToday' \ {"sale"}
    BY <2>1 DEF Refused, DueNow, Left, Identifying
  <2>3. "sale" \notin DisposalsToday
    BY <1>5 DEF DisposalsToday
  <2> QED
    BY <1>1, <1>2, <1>3, <2>2, <2>3, Stutters
<1> QED
  BY <1>4, <1>5

LEMMA StartTransferRefines ==
  ASSUME InOrder, StartTransfer
  PROVE  Identification!Next \/ UNCHANGED Identification!statute
<1>1. /\ UNCHANGED <<history, day, identified, bnb_list>>
      /\ phase = "transfer" /\ today.transferred \in Nat /\ Sound
  BY TodayType DEF InOrder, OnceEach, Sound, StartTransfer
<1>2. ~Refused /\ DueNow = DisposalsToday \ {"sale"} /\ Left = 0
  BY <1>1 DEF Refused, DueNow, Left, Identifying
<1>3. CASE phase' \in {"refused", "fault"}
  BY <1>1, <1>2, <1>3, GivesUp DEF Refused
<1>4. CASE today.transferred = 0 /\ phase' = "close"
  <2>1. ~Refused' /\ Left' = 0 /\ DueNow' = {}
    BY <1>4 DEF Refused, DueNow, Left, Identifying
  <2>2. DueNow = {}
    BY <1>2, <1>4 DEF DisposalsToday
  <2> QED
    BY <1>1, <1>2, <2>1, <2>2, Stutters
<1>5. CASE /\ today.transferred # 0 /\ phase' \notin {"refused", "fault"}
           /\ BeginDisposal(today.transferred, 0, TRUE)
  <2>1. /\ phase' = "same_day" /\ ctx'.left = today.transferred
        /\ ctx'.no_gain_no_loss = TRUE
    <3>1. 0 \in Int /\ TRUE \in BOOLEAN
      OBVIOUS
    <3>2. /\ phase' \in {"same_day", "fault"}
          /\ phase' = "same_day" =>
               ctx'.left = today.transferred /\ ctx'.no_gain_no_loss = TRUE
      BY <1>1, <1>5, <3>1, BeginDisposalSound, Zenon
    <3> QED
      BY <1>5, <3>2
  <2>2. ~Refused' /\ Left' = today.transferred /\ DueNow' = {}
    BY <2>1 DEF Refused, DueNow, Left, Identifying
  <2>3. DueNow = {"transfer"}
    BY <1>1, <1>2, <1>5 DEF DisposalsToday
  <2> QED
    BY <1>1, <1>2, <2>2, <2>3, Begins
<1> QED
  BY <1>3, <1>4, <1>5 DEF StartTransfer

\* The disposal's kind, and so what is due after it, stays as it is.
LEMMA DueWhileIdentifying ==
  ASSUME TypeOK, UNCHANGED <<history, day>>, phase \in Identifying, phase' \in Identifying,
         ctx'.no_gain_no_loss = ctx.no_gain_no_loss
  PROVE  /\ ~Refused /\ ~Refused' /\ DueNow' = DueNow
         /\ Left = ctx.left /\ Left' = ctx'.left
<1>1. DisposalsToday' = DisposalsToday
  BY SameDisposals
<1> QED
  BY <1>1 DEF Refused, Identifying, DueNow, Left

LEMMA MatchSameDayRefines ==
  ASSUME InOrder, MatchSameDay
  PROVE  Identification!Next \/ UNCHANGED Identification!statute
<1> DEFINE purchased == today.purchased
           units == IF ctx.left < purchased.quantity THEN ctx.left
                    ELSE purchased.quantity
           cost == normalize_amount(units * purchased.amount, purchased.quantity)
<1>1. /\ phase = "same_day" /\ phase' = "bed_and_breakfast"
      /\ UNCHANGED <<history, day, bnb_list>>
      /\ TypeOK /\ Sound
  BY DEF InOrder, OnceEach, Sound, MatchSameDay
<1>2. /\ day \in Day /\ purchased.quantity \in Nat /\ purchased.amount \in Nat
      /\ identified[day] \in Nat /\ bnb_list[day].quantity \in Nat
      /\ ctx.left \in Int /\ 0 <= ctx.left /\ ctx.quantity \in Nat
      /\ ctx.left <= ctx.quantity
      /\ purchased.quantity = history[day].purchased.quantity
      /\ SameDayClaims(today) = today.disposed.quantity + today.transferred
      /\ today = history[day]
      /\ today.disposed.quantity \in Nat /\ today.transferred \in Nat
  BY <1>1, TodayType, DayType, ContextType
     DEF Sound, Counts, PoolCoversDisposal, Identifying, today
<1>3. CASE ~(units > 0)
  <2>1. UNCHANGED <<ctx, identified>>
    BY <1>3 DEF MatchSameDay
  <2>2. phase \in Identifying /\ phase' \in Identifying
    BY <1>1 DEF Identifying
  <2> QED
    BY <1>1, <2>1, <2>2, DueWhileIdentifying, Stutters
<1>4. CASE units > 0
  <2>1. ctx' = Identify(units, cost, cost) /\ identified' = [identified EXCEPT ![day] = @ + units]
    BY <1>4 DEF MatchSameDay
  <2>2. units \in Int /\ ctx.quantity > 0 /\ units <= ctx.left
    BY <1>2, <1>4
  <2>3. cost \in Int
    <3>1. units * purchased.amount \in Int /\ purchased.quantity > 0
      BY <1>2, <1>4
    <3> QED
      BY <1>2, <3>1, NormalizeType
  <2>4. ctx'.left = ctx.left - units /\ ctx'.no_gain_no_loss = ctx.no_gain_no_loss
    <3> HIDE DEF units, cost
    <3> QED
      BY <1>1, <2>1, <2>2, <2>3, IdentifyType
  <2>5. phase \in Identifying /\ phase' \in Identifying
    BY <1>1 DEF Identifying
  <2>6. identified[day] = 0 /\ ctx.left <= SameDayClaims(today)
    <3>1. /\ ctx.no_gain_no_loss => /\ ctx.left = today.transferred
                                    /\ purchased.quantity = 0 \/ identified[day] = 0
          /\ ~ctx.no_gain_no_loss => /\ identified[day] = 0
                                     /\ ctx.left = today.disposed.quantity
      BY <1>1 DEF InOrder, OnceEach, OwnDayProgress
    <3>2. purchased.quantity > 0
      BY <1>2, <1>4
    <3> QED
      BY <1>2, <3>1, <3>2
  <2>7. bnb_list[day].quantity > 0 =>
          bnb_list[day].quantity + SameDayClaims(today) <= purchased.quantity
    BY <1>2 DEF InOrder, OnceEach, OwnDayComesFirst
  <2>8. units = IF ctx.left < Identification!Spare(day) THEN ctx.left
                ELSE Identification!Spare(day)
    <3>1. Identification!Spare(day) =
            LET over == purchased.quantity - identified[day] - bnb_list[day].quantity
            IN  IF over > 0 THEN over ELSE 0
      BY <1>2, SpareUnits
    <3> QED
      BY <1>2, <1>4, <2>6, <2>7, <3>1
  <2>9. \A e \in Day : (e = day \/ e \in Window) /\ e < day =>
          Identification!Spare(e) = 0
    BY <1>2 DEF Window, Day
  <2> HIDE DEF units
  <2> QED
    BY <1>1, <1>2, <1>4, <2>1, <2>4, <2>5, <2>8, <2>9, DueWhileIdentifying,
       IdentifiesWith
<1> QED
  BY <1>3, <1>4

LEMMA SearchRefines ==
  ASSUME InOrder,
         SearchPassesDay \/ SearchRefusesDay \/ SearchMatchesDay \/ EndSearch
  PROVE  Identification!Next \/ UNCHANGED Identification!statute
<1>1. /\ phase = "bed_and_breakfast" /\ UNCHANGED <<history, day, identified>>
      /\ TypeOK /\ Sound /\ phase \in Identifying
  BY DEF InOrder, OnceEach, Sound, SearchPassesDay, SearchRefusesDay,
         SearchMatchesDay, EndSearch, Identifying
<1>2. CASE SearchPassesDay
  <2>1. ctx'.left = ctx.left /\ ctx'.no_gain_no_loss = ctx.no_gain_no_loss
    BY <1>1, <1>2, ReachedContextType DEF SearchPassesDay
  <2>2. phase' \in Identifying /\ bnb_list' = bnb_list
    BY <1>1, <1>2 DEF SearchPassesDay
  <2> QED
    BY <1>1, <2>1, <2>2, DueWhileIdentifying, Stutters
<1>3. CASE SearchRefusesDay
  <2>1. phase' = "refused" /\ bnb_list' = bnb_list
    BY <1>3 DEF SearchRefusesDay
  <2> QED
    BY <1>1, <2>1, GivesUp DEF Refused
<1>4. CASE EndSearch
  <2>1. ctx' = ctx /\ bnb_list' = bnb_list /\ phase' \in Identifying
    BY <1>4 DEF EndSearch, Identifying
  <2> QED
    BY <1>1, <2>1, DueWhileIdentifying, Stutters
<1>5. CASE SearchMatchesDay
  <2> DEFINE taken == IF ctx.left < Identification!Spare(SearchDay) THEN ctx.left
                      ELSE Identification!Spare(SearchDay)
  <2>1. /\ taken > 0
        /\ ctx'.left = ctx.left - taken
        /\ ctx'.no_gain_no_loss = ctx.no_gain_no_loss
        /\ phase' \in {"fault", "bed_and_breakfast"}
        /\ \A d \in Day : bnb_list'[d].quantity =
             IF d = SearchDay /\ phase' # "fault" THEN bnb_list[d].quantity + taken
             ELSE bnb_list[d].quantity
    BY <1>5, ClaimTakes
  <2>2. CASE phase' = "fault"
    BY <1>1, <2>1, <2>2, GivesUp DEF Refused
  <2>3. CASE phase' = "bed_and_breakfast"
    <3>1. /\ Searching /\ SearchDay \in Window /\ SearchDay \in Day
          /\ SearchDay > day /\ day \in Day /\ ctx.look \in Day /\ ctx.left > 0
      BY <1>1, <1>5, SearchDayType, ContextType
         DEF SearchMatchesDay, Searching, TypeOK
    <3>2. SearchDay # day
      BY <3>1 DEF Day
    <3>3. \A e \in Day : (e = day \/ e \in Window) /\ e < SearchDay =>
            Identification!Spare(e) = 0
      <4>1. \A e \in Day : e < SearchDay => e <= ctx.look
        BY <3>1 DEF SearchDay, Day
      <4> QED
        BY <1>1, <3>1, <4>1 DEF InOrder, PassedDaysAreSpent, Searched
    <3>4. phase' \in Identifying
      BY <2>3 DEF Identifying
    <3>5. \A d \in Day : bnb_list'[d].quantity =
            IF d = SearchDay /\ SearchDay # day THEN bnb_list[d].quantity + taken
            ELSE bnb_list[d].quantity
      BY <2>1, <2>3, <3>2
    <3>6. /\ ~Refused /\ ~Refused' /\ DueNow' = DueNow
          /\ Left = ctx.left /\ Left' = ctx'.left
      BY <1>1, <2>1, <3>4, DueWhileIdentifying
    <3>7. /\ taken = IF Left < Identification!Spare(SearchDay) THEN Left
                     ELSE Identification!Spare(SearchDay)
          /\ Left' = Left - taken
      BY <2>1, <3>6
    <3>8. identified' = IF SearchDay = day THEN [identified EXCEPT ![SearchDay] = @ + taken]
                        ELSE identified
      BY <1>1, <3>2
    <3> HIDE DEF taken
    <3> QED
      BY <1>1, <2>1, <3>1, <3>3, <3>5, <3>6, <3>7, <3>8, IdentifiesWith
  <2> QED
    BY <2>1, <2>2, <2>3
<1> QED
  BY <1>2, <1>3, <1>4, <1>5

LEMMA MatchSection104Refines ==
  ASSUME InOrder, MatchSection104
  PROVE  Identification!Next \/ UNCHANGED Identification!statute
<1> DEFINE delta == normalize_amount(ctx.left * ctx.cost, ctx.held)
<1>1. /\ phase = "section_104" /\ UNCHANGED <<history, day, identified, bnb_list>>
      /\ TypeOK /\ Sound /\ phase \in Identifying
      /\ ctx.left \in Int /\ 0 <= ctx.left /\ ctx.held \in Int /\ ctx.left <= ctx.held
      /\ ctx.cost \in Int
  BY ContextType DEF InOrder, OnceEach, Sound, Counts, PoolCoversDisposal,
                     MatchSection104, Identifying
<1>2. CASE ctx.left > 0
  <2>1. ctx' = Identify(ctx.left, delta, delta) /\ phase' \in {"fault", "finish"}
    BY <1>2 DEF MatchSection104
  <2>2. CASE phase' = "fault"
    BY <1>1, <2>2, GivesUp DEF Refused
  <2>3. CASE phase' = "finish"
    <3>1. delta \in Int
      <4>1. ctx.left * ctx.cost \in Int /\ ctx.held > 0
        BY <1>1, <1>2
      <4> QED
        BY <1>1, <4>1, NormalizeType
    <3>2. /\ ctx'.left = ctx.left - ctx.left
          /\ ctx'.no_gain_no_loss = ctx.no_gain_no_loss
      <4> HIDE DEF delta
      <4> QED
        BY <1>1, <2>1, <3>1, IdentifyType
    <3>3. \A d \in Day : (d = day \/ d \in Window) => Identification!Spare(d) = 0
      <4>1. \A d \in Window : d <= ctx.look
        BY <1>1, <1>2 DEF InOrder, SearchOrder
      <4> QED
        BY <1>1, <1>2, <4>1 DEF InOrder, PassedDaysAreSpent, Searched
    <3>4. phase' \in Identifying
      BY <2>3 DEF Identifying
    <3>5. /\ ~Refused /\ ~Refused' /\ DueNow' = DueNow
          /\ Left = ctx.left /\ Left' = 0
      BY <1>1, <3>2, <3>4, DueWhileIdentifying
    <3> QED
      BY <1>1, <1>2, <3>3, <3>5, IdentifiesWithPool
  <2> QED
    BY <2>1, <2>2, <2>3
<1>3. CASE ~(ctx.left > 0)
  <2>1. ctx' = ctx /\ phase' \in Identifying
    BY <1>3 DEF MatchSection104, Identifying
  <2> QED
    BY <1>1, <2>1, DueWhileIdentifying, Stutters
<1> QED
  BY <1>2, <1>3

LEMMA FinishDisposalRefines ==
  ASSUME InOrder, FinishDisposal
  PROVE  Identification!Next \/ UNCHANGED Identification!statute
<1>1. /\ phase = "finish" /\ UNCHANGED <<history, day, identified, bnb_list>>
      /\ ctx.no_gain_no_loss \in BOOLEAN
  BY ContextType DEF InOrder, OnceEach, Sound, FinishDisposal
<1>2. ~Refused /\ Left = ctx.left
      /\ DueNow = IF ctx.no_gain_no_loss THEN {} ELSE DisposalsToday \ {"sale"}
  BY <1>1 DEF Refused, Left, Identifying, DueNow
<1>3. CASE FinishBreaks
  <2>1. phase' = "fault"
    BY <1>3 DEF FinishDisposal
  <2> QED
    BY <1>1, <1>2, <2>1, GivesUp DEF Refused
<1>4. CASE ~FinishBreaks
  <2>1. ctx.left = 0
        /\ phase' = IF ctx.no_gain_no_loss THEN "close" ELSE "transfer"
    BY <1>4 DEF FinishDisposal, FinishBreaks
  <2>2. ~Refused' /\ Left' = 0
    BY <2>1 DEF Refused, Left, Identifying
  <2>3. DueNow' = DueNow
    <3>1. DisposalsToday' = DisposalsToday
      BY <1>1, SameDisposals
    <3> QED
      BY <1>1, <1>2, <2>1, <3>1 DEF DueNow, Identifying
  <2> QED
    BY <1>1, <1>2, <2>1, <2>2, <2>3, Stutters
<1> QED
  BY <1>3, <1>4

\* What is due on a day is what its record disposes of.
LEMMA DueAsTheDayOpens ==
  /\ phase = "open" => DueNow = Identification!DueOn(day)
  /\ phase' = "open" /\ history' = history => DueNow' = Identification!DueOn(day')
<1>1. phase = "open" => DueNow = DisposalsToday
  BY DEF DueNow, Identifying
<1>2. phase' = "open" => DueNow' = DisposalsToday'
  BY DEF DueNow, Identifying
<1>3. DisposalsToday = Identification!DueOn(day)
  BY DEF DisposalsToday, today, Identification!DueOn
<1>4. history' = history => DisposalsToday' = Identification!DueOn(day')
  BY DEF DisposalsToday, today, Identification!DueOn
<1> QED
  BY <1>1, <1>2, <1>3, <1>4

LEMMA CloseDayRefines ==
  ASSUME InOrder, CloseDay
  PROVE  Identification!Next \/ UNCHANGED Identification!statute
<1>1. /\ phase = "close" /\ UNCHANGED <<history, identified, bnb_list>>
      /\ day \in Day /\ day <= TaxYearEnd
  BY DEF InOrder, OnceEach, Sound, TypeOK, CloseDay
<1>2. ~Refused /\ Left = 0 /\ DueNow = {}
  BY <1>1 DEF Refused, Left, Identifying, DueNow
<1>3. CASE CloseDisagrees
  <2>1. phase' = "refused" /\ day' = day
    BY <1>3 DEF CloseDay
  <2> QED
    BY <1>1, <1>2, <2>1, GivesUp DEF Refused
<1>4. CASE ~CloseDisagrees /\ AtTheEnd
  <2>1. phase' = "done" /\ day' = day
    BY <1>4 DEF CloseDay
  <2>2. ~Refused' /\ Left' = 0 /\ DueNow' = {}
    BY <2>1 DEF Refused, Left, Identifying, DueNow
  <2> QED
    BY <1>1, <1>2, <2>1, <2>2, Stutters
<1>5. CASE ~CloseDisagrees /\ ~AtTheEnd
  <2>1. phase' = "open" /\ day' = day + 1
    BY <1>5 DEF CloseDay
  <2>2. day < TaxYearEnd
    BY <1>1, <1>5, HistoryAssumption DEF AtTheEnd, Day
  <2>3. Left' = 0 /\ ~Refused'
    BY <2>1 DEF Refused, Left, Identifying
  <2>4. DueNow' = Identification!DueOn(day + 1)
    BY <1>1, <2>1, DueAsTheDayOpens
  <2>5. Identification!NextDay
    BY <1>1, <1>2, <2>1, <2>2, <2>3, <2>4
       DEF Identification!NextDay, Left, Refused
  <2> QED
    BY <2>5 DEF Identification!Next
<1> QED
  BY <1>3, <1>4, <1>5

LEMMA RecalculateRefines ==
  ASSUME InOrder, Recalculate
  PROVE  Identification!Next
<1>1. /\ phase = "done" /\ history' = history /\ day = TaxYearEnd
      /\ phase' = "open" /\ day' = 1
      /\ identified' = [d \in Day |-> 0]
      /\ bnb_list' = [d \in Day |-> Nothing]
  BY DEF InOrder, WalkedToTheEnd, Recalculate, ClaimsAfterReset
<1>2. ~Refused /\ Left = 0 /\ DueNow = {} /\ ~Refused' /\ Left' = 0
  BY <1>1 DEF Refused, Left, Identifying, DueNow
<1>3. DueNow' = Identification!DueOn(1)
  BY <1>1, DueAsTheDayOpens
<1>4. [d \in Day |-> bnb_list'[d].quantity] = [d \in Day |-> 0]
  BY <1>1 DEF Nothing
<1>5. Identification!Again
  BY <1>1, <1>2, <1>3, <1>4, SameDays DEF Identification!Again, Left, Refused
<1> QED
  BY <1>5 DEF Identification!Next

LEMMA InitRefines == Init => Identification!Init
<1> SUFFICES ASSUME Init
             PROVE  Identification!Init
  OBVIOUS
<1>1. /\ history \in Histories /\ day = 1 /\ phase = "open"
      /\ identified = [d \in Day |-> 0] /\ bnb_list = [d \in Day |-> Nothing]
  BY DEF Init
<1>2. Left = 0 /\ ~Refused
  BY <1>1 DEF Left, Refused, Identifying
<1>3. DueNow = Identification!DueOn(1)
  BY <1>1, DueAsTheDayOpens
<1>4. [d \in Day |-> bnb_list[d].quantity] = [d \in Day |-> 0]
  BY <1>1 DEF Nothing
<1> QED
  BY <1>1, <1>2, <1>3, <1>4, SameDays DEF Identification!Init, Left, Refused

LEMMA StepRefines ==
  InOrder /\ [Next]_vars => [Identification!Next]_Identification!statute
<1> SUFFICES ASSUME InOrder, [Next]_vars
             PROVE  Identification!Next \/ UNCHANGED Identification!statute
  OBVIOUS
<1>1. CASE UNCHANGED vars
  BY <1>1 DEF vars, Identification!statute, DueNow, DisposalsToday, today
<1> QED
  BY <1>1, BeforeDisposalsRefines, StartSaleRefines, StartTransferRefines,
     MatchSameDayRefines, SearchRefines, MatchSection104Refines,
     FinishDisposalRefines, CloseDayRefines, RecalculateRefines DEF Next

(***************************************************************************)
(* The walk over a holding that is never reorganised identifies its        *)
(* disposals in the order the statute sets: every step of Matcher.walk is  *)
(* a step of ShareIdentification or changes nothing it speaks of.          *)
(***************************************************************************)
THEOREM WalkImplementsIdentification ==
  Spec /\ NeverReorganised => ImplementsIdentification
<1> QED
  BY InitInOrder, StepInOrder, InitRefines, StepRefines, PTL
     DEF Spec, ImplementsIdentification, Identification!Spec

----------------------------------------------------------------------------
(***************************************************************************)
(* The units the walk counts: its pool is at each step what the first pass *)
(* counted, and excess reported income is charged on every unit it is due  *)
(* on.                                                                     *)
(***************************************************************************)

(***************************************************************************)
(* Holding is a recursive function: it is what its equation says once some *)
(* function is known to satisfy that equation, which is shown day by day.  *)
(***************************************************************************)
CloseOf(records, d, before) ==
  IF d = 0 THEN 0
  ELSE Capacity(records[d], before) - SameDayClaims(records[d])

LEMMA HoldingExists ==
  ASSUME NEW records
  PROVE  \A n \in Nat :
           \E close : close = [d \in 0 .. n |-> CloseOf(records, d, close[d - 1])]
<1> DEFINE Counting(n, close) ==
             close = [d \in 0 .. n |-> CloseOf(records, d, close[d - 1])]
           Counted == {n \in Nat : \E close : Counting(n, close)}
<1>1. 0 \in Counted
  <2> DEFINE close == [d \in 0 .. 0 |-> 0]
  <2>1. close = [d \in 0 .. 0 |-> CloseOf(records, d, close[d - 1])]
    BY DEF CloseOf
  <2> QED
    BY <2>1
<1>2. ASSUME NEW n \in Nat, n \in Counted
      PROVE  n + 1 \in Counted
  <2>1. PICK close : Counting(n, close)
    BY <1>2
  <2> DEFINE longer == [d \in 0 .. n + 1 |->
                          IF d <= n THEN close[d] ELSE CloseOf(records, d, close[n])]
  <2>2. ASSUME NEW d \in 0 .. n + 1
        PROVE  longer[d] = CloseOf(records, d, longer[d - 1])
    <3>1. CASE d = 0
      BY <2>1, <3>1 DEF CloseOf
    <3>2. CASE d # 0 /\ d <= n
      <4>1. d \in 0 .. n /\ d - 1 \in 0 .. n
        BY <3>2
      <4>2. longer[d] = close[d] /\ longer[d - 1] = close[d - 1]
        BY <4>1
      <4>3. close[d] = CloseOf(records, d, close[d - 1])
        BY <2>1, <4>1
      <4> QED
        BY <4>2, <4>3
    <3>3. CASE d = n + 1
      <4>1. d - 1 = n /\ n \in 0 .. n + 1 /\ ~(n + 1 <= n)
        BY <3>3
      <4>2. longer[d - 1] = close[n]
        BY <4>1
      <4>3. longer[d] = CloseOf(records, d, close[n])
        BY <3>3, <4>1
      <4> QED
        BY <4>2, <4>3
    <3> QED
      BY <3>1, <3>2, <3>3
  <2>3. longer = [d \in 0 .. n + 1 |-> longer[d]]
    OBVIOUS
  <2> HIDE DEF longer
  <2>4. longer = [d \in 0 .. n + 1 |-> CloseOf(records, d, longer[d - 1])]
    BY <2>2, <2>3
  <2> QED
    BY <2>4
<1> HIDE DEF Counted
<1>3. \A n \in Nat : n \in Counted
  BY <1>1, <1>2, NaturalsBySteps
<1> QED
  BY <1>3 DEF Counted

LEMMA HoldingByDay ==
  ASSUME NEW records
  PROVE  /\ Holding(records)[0] = 0
         /\ \A d \in Day : Holding(records)[d] =
              Capacity(records[d], Holding(records)[d - 1]) - SameDayClaims(records[d])
<1> DEFINE close == Holding(records)
<1>1. LastDay \in Nat
  BY HistoryAssumption
<1>2. \E f : f = [d \in 0 .. LastDay |-> CloseOf(records, d, f[d - 1])]
  BY <1>1, HoldingExists
<1>3. close = [d \in 0 .. LastDay |-> CloseOf(records, d, close[d - 1])]
  BY <1>2 DEF Holding, CloseOf
<1> HIDE DEF close
<1>4. close[0] = CloseOf(records, 0, close[0 - 1])
  BY <1>1, <1>3
<1>5. \A d \in Day : close[d] = CloseOf(records, d, close[d - 1])
  BY <1>1, <1>3 DEF Day
<1> QED
  BY <1>1, <1>4, <1>5 DEF CloseOf, Day, close

LEMMA CapacityType ==
  ASSUME TypeOK, NEW d \in Day, NEW before \in Int
  PROVE  /\ TotalQuantity(history[d]) \in Nat
         /\ AfterReorganisation(history[d], before) \in Int
         /\ Capacity(history[d], before) \in Int
         /\ SameDayClaims(history[d]) \in Nat
<1>1. /\ TotalQuantity(history[d]) \in Nat
      /\ SameDayClaims(history[d]) \in Nat
  BY DayType DEF TotalQuantity, SameDayClaims
<1>2. AfterReorganisation(history[d], before) \in Int
  BY SplitType DEF AfterReorganisation
<1> QED
  BY <1>1, <1>2 DEF Capacity

LEMMA HoldingType ==
  ASSUME TypeOK
  PROVE  \A d \in 0 .. LastDay : Holding(history)[d] \in Int
<1> DEFINE close == Holding(history)
           Typed == {n \in Nat : n <= LastDay => close[n] \in Int}
<1>1. LastDay \in Nat
  BY HistoryAssumption
<1>2. /\ close[0] = 0
      /\ \A d \in Day : close[d] =
           Capacity(history[d], close[d - 1]) - SameDayClaims(history[d])
  BY HoldingByDay
<1> HIDE DEF close
<1>3. 0 \in Typed
  BY <1>2
<1>4. ASSUME NEW n \in Nat, n \in Typed
      PROVE  n + 1 \in Typed
  <2> SUFFICES ASSUME n + 1 <= LastDay
               PROVE  close[n + 1] \in Int
    OBVIOUS
  <2>1. n + 1 \in Day /\ (n + 1) - 1 = n /\ close[n] \in Int
    BY <1>1, <1>4 DEF Day
  <2>2. Capacity(history[n + 1], close[n]) \in Int /\ SameDayClaims(history[n + 1]) \in Int
    BY <2>1, CapacityType
  <2>3. close[n + 1] = Capacity(history[n + 1], close[n]) - SameDayClaims(history[n + 1])
    BY <1>2, <2>1
  <2> QED
    BY <2>2, <2>3
<1> HIDE DEF Typed
<1>5. \A n \in Nat : n \in Typed
  BY <1>3, <1>4, NaturalsBySteps
<1> QED
  BY <1>1, <1>5 DEF Typed, close

----------------------------------------------------------------------------
(***************************************************************************)
(* The invariant: at each phase of the day the pool is what the first      *)
(* pass's count of the close has reached by then, and while a disposal is  *)
(* being identified the pool it sees, less what it has left, is what the   *)
(* count will be once it is done.                                          *)
(***************************************************************************)
Opening == Holding(history)[day - 1]
Closing == Holding(history)[day]
Supply == Capacity(today, Opening)

CountsAgree ==
  /\ phase = "open" => portfolio.quantity = Opening
  /\ phase = "acquire" =>
       portfolio.quantity + today.split.delta = AfterReorganisation(today, Opening)
  /\ phase = "reconcile" => portfolio.quantity + today.split.delta = Supply
  /\ phase = "dispose" => portfolio.quantity = Supply
  /\ phase = "transfer" => portfolio.quantity = Supply - today.disposed.quantity
  /\ phase = "close" => portfolio.quantity = Closing
  /\ phase \in Identifying =>
       ctx.held - ctx.left =
         IF ctx.no_gain_no_loss THEN Closing ELSE Supply - today.disposed.quantity

Agreed == Sound /\ CountsAgree

LEMMA CountTypes ==
  ASSUME Sound
  PROVE  /\ day \in Day
         /\ Opening \in Int /\ Closing \in Int /\ Supply \in Int
         /\ Closing = Supply - today.disposed.quantity - today.transferred
         /\ today.disposed.quantity \in Nat /\ today.transferred \in Nat
         /\ today.split.delta \in Int /\ today.split.scaled_open \in Nat
         /\ TotalQuantity(today) \in Nat
         /\ portfolio.quantity \in Nat
<1>1. day \in Day /\ TypeOK
  BY DEF Sound, TypeOK
<1>2. day - 1 \in 0 .. LastDay /\ day \in 0 .. LastDay
  BY <1>1, HistoryAssumption DEF Day
<1>3. Opening \in Int /\ Closing \in Int
  BY <1>1, <1>2, HoldingType DEF Opening, Closing
<1>4. Supply \in Int /\ TotalQuantity(today) \in Nat
  BY <1>1, <1>3, CapacityType DEF Supply, today
<1>5. /\ today.disposed.quantity \in Nat /\ today.transferred \in Nat
      /\ today.split.delta \in Int /\ today.split.scaled_open \in Nat
  BY <1>1, DayType, SplitType DEF today
<1>6. Closing = Supply - (today.disposed.quantity + today.transferred)
  BY <1>1, HoldingByDay DEF Closing, Supply, Opening, today, SameDayClaims
<1>7. portfolio.quantity \in Nat
  BY <1>1 DEF Sound, TypeOK, Counts, Position
<1> QED
  BY <1>1, <1>3, <1>4, <1>5, <1>6, <1>7

\* While neither the day nor the history changes, neither do its counts.
LEMMA CountsKept ==
  ASSUME UNCHANGED <<history, day>>
  PROVE  /\ Opening' = Opening /\ Closing' = Closing
         /\ today' = today /\ Supply' = Supply
<1>1. Opening' = Opening /\ Closing' = Closing /\ today' = today
  BY DEF Opening, Closing, today
<1> QED
  BY <1>1 DEF Supply

LEMMA InitAgreed == Init => CountsAgree
<1> SUFFICES ASSUME Init
             PROVE  CountsAgree
  OBVIOUS
<1>1. phase = "open" /\ portfolio.quantity = 0 /\ day - 1 = 0
  BY DEF Init, NoPosition
<1>2. Opening = 0
  BY <1>1, HoldingByDay DEF Opening
<1> QED
  BY <1>1, <1>2 DEF CountsAgree, Identifying

\* A reorganisation opens the day with the count the first pass restated it to.
LEMMA OpenDayAgrees == Agreed /\ OpenDay => CountsAgree'
<1> SUFFICES ASSUME Agreed, OpenDay
             PROVE  CountsAgree'
  OBVIOUS
<1>1. /\ phase = "open" /\ phase' \in {"refused", "acquire"}
      /\ phase' = "acquire" => ~SplitDisagrees
      /\ UNCHANGED <<history, day>>
      /\ portfolio' = IF today.split.planned /\ ~SplitDisagrees
                        THEN [portfolio EXCEPT !.quantity = today.split.scaled_open]
                        ELSE portfolio
  BY DEF OpenDay
<1>2. portfolio.quantity = Opening /\ portfolio \in Position
  BY <1>1 DEF Agreed, CountsAgree, Sound, TypeOK
<1>3. phase' = "acquire" =>
        portfolio'.quantity + today.split.delta = AfterReorganisation(today, Opening)
  <2> SUFFICES ASSUME phase' = "acquire"
               PROVE  portfolio'.quantity + today.split.delta
                        = AfterReorganisation(today, Opening)
    OBVIOUS
  <2>1. CASE today.split.planned
    <3>1. portfolio'.quantity = today.split.scaled_open
      BY <1>1, <1>2, <2>1 DEF Position
    <3> QED
      BY <2>1, <3>1 DEF AfterReorganisation
  <2>2. CASE ~today.split.planned
    <3>1. portfolio' = portfolio
      BY <1>1, <2>2
    <3>2. today.split.delta = 0
      BY <2>2, SplitType DEF today, Agreed, Sound, TypeOK
    <3> QED
      BY <1>2, <2>2, <3>1, <3>2, CountTypes DEF AfterReorganisation, Agreed
  <2> QED
    BY <2>1, <2>2
<1> QED
  BY <1>1, <1>3, CountsKept DEF CountsAgree, Identifying

LEMMA ProcessAcquisitionAgrees == Agreed /\ ProcessAcquisition => CountsAgree'
<1> SUFFICES ASSUME Agreed, ProcessAcquisition
             PROVE  CountsAgree'
  OBVIOUS
<1>1. /\ phase = "acquire" /\ phase' \in {"refused", "fault", "reconcile"}
      /\ UNCHANGED <<history, day>>
  BY DEF ProcessAcquisition
<1>2. /\ TotalQuantity(today) \in Nat /\ TotalAmount(today) \in Nat
      /\ ModifiedAmount(today, bnb_list[day]) \in Int
  BY ModifiedAmountType DEF Agreed, Sound, TypeOK, today
<1>3. phase' = "reconcile" =>
        portfolio'.quantity = portfolio.quantity + TotalQuantity(today)
  <2> SUFFICES ASSUME phase' = "reconcile"
               PROVE  portfolio'.quantity = portfolio.quantity + TotalQuantity(today)
    OBVIOUS
  <2>1. CASE TotalQuantity(today) + TotalAmount(today) > 0
    <3>1. portfolio' = AddToPosition(portfolio, TotalQuantity(today),
                                     ModifiedAmount(today, bnb_list[day]))
      BY <2>1 DEF ProcessAcquisition
    <3>2. portfolio \in Position
      BY DEF Agreed, Sound, TypeOK
    <3> QED
      BY <1>2, <3>1, <3>2, AddToPositionType
  <2>2. CASE ~(TotalQuantity(today) + TotalAmount(today) > 0)
    <3>1. portfolio' = portfolio
      BY <2>2 DEF ProcessAcquisition
    <3>2. TotalQuantity(today) = 0
      BY <1>2, <2>2
    <3> QED
      BY <3>1, <3>2, CountTypes DEF Agreed
  <2> QED
    BY <2>1, <2>2
<1>4. portfolio.quantity + today.split.delta = AfterReorganisation(today, Opening)
  BY <1>1 DEF Agreed, CountsAgree
<1>5. phase' = "reconcile" => portfolio'.quantity + today.split.delta = Supply
  <2>1. Supply = AfterReorganisation(today, Opening) + TotalQuantity(today)
    BY DEF Supply, Capacity
  <2> QED
    BY <1>3, <1>4, <2>1, CountTypes DEF Agreed
<1> QED
  BY <1>1, <1>5, CountsKept DEF CountsAgree, Identifying

LEMMA RecordSplitReconciliationsAgrees ==
  Agreed /\ RecordSplitReconciliations => CountsAgree'
<1> SUFFICES ASSUME Agreed, RecordSplitReconciliations
             PROVE  CountsAgree'
  OBVIOUS
<1> DEFINE quantity == portfolio.quantity + today.split.delta
<1>1. /\ phase = "reconcile" /\ phase' \in {"refused", "dispose"}
      /\ UNCHANGED <<history, day>>
      /\ phase' = "dispose" => portfolio' = [portfolio EXCEPT !.quantity = quantity]
  BY DEF RecordSplitReconciliations
<1>2. quantity = Supply
  BY <1>1 DEF Agreed, CountsAgree
<1> HIDE DEF quantity
<1>3. phase' = "dispose" => portfolio'.quantity = quantity
  BY <1>1 DEF Agreed, Sound, TypeOK, Position
<1> QED
  BY <1>1, <1>2, <1>3, CountsKept DEF CountsAgree, Identifying

LEMMA StartSaleAgrees == Agreed /\ StartSale => CountsAgree'
<1> SUFFICES ASSUME Agreed, StartSale
             PROVE  CountsAgree'
  OBVIOUS
<1>1. /\ phase = "dispose" /\ UNCHANGED <<history, day, portfolio>>
      /\ portfolio.quantity = Supply
  BY DEF StartSale, Agreed, CountsAgree
<1>2. CASE today.disposed.quantity > 0
  <2>1. /\ phase' \in {"same_day", "fault"}
        /\ ctx'.held = portfolio.quantity /\ ctx'.left = today.disposed.quantity
        /\ ctx'.no_gain_no_loss = FALSE
    BY <1>2 DEF StartSale, BeginDisposal, DisposalContext
  <2> QED
    BY <1>1, <2>1, CountsKept DEF CountsAgree, Identifying
<1>3. CASE ~(today.disposed.quantity > 0)
  <2>1. phase' = "transfer"
    BY <1>3 DEF StartSale
  <2>2. portfolio.quantity = Supply - today.disposed.quantity
    BY <1>1, <1>3, CountTypes DEF Agreed
  <2> QED
    BY <1>1, <2>1, <2>2, CountsKept DEF CountsAgree, Identifying
<1> QED
  BY <1>2, <1>3

LEMMA StartTransferAgrees == Agreed /\ StartTransfer => CountsAgree'
<1> SUFFICES ASSUME Agreed, StartTransfer
             PROVE  CountsAgree'
  OBVIOUS
<1>1. /\ phase = "transfer" /\ UNCHANGED <<history, day, portfolio>>
      /\ portfolio.quantity = Supply - today.disposed.quantity
  BY DEF StartTransfer, Agreed, CountsAgree
<1>2. portfolio.quantity - today.transferred = Closing
  BY <1>1, CountTypes DEF Agreed
<1>3. CASE today.transferred = 0
  <2>1. phase' = "close"
    BY <1>3 DEF StartTransfer
  <2>2. portfolio.quantity = Closing
    BY <1>2, <1>3, CountTypes DEF Agreed
  <2> QED
    BY <1>1, <2>1, <2>2, CountsKept DEF CountsAgree, Identifying
<1>4. CASE today.transferred # 0
  <2>1. /\ phase' \in {"same_day", "fault", "refused"}
        /\ phase' = "same_day" =>
             /\ ctx'.held = portfolio.quantity /\ ctx'.left = today.transferred
             /\ ctx'.no_gain_no_loss = TRUE
    BY <1>4 DEF StartTransfer, BeginDisposal, DisposalContext
  <2> QED
    BY <1>1, <1>2, <2>1, CountsKept DEF CountsAgree, Identifying
<1> QED
  BY <1>3, <1>4

\* Identifying units takes them from what is left and from the pool alike.
LEMMA IdentifyingAgrees ==
  ASSUME Agreed, phase \in Identifying, UNCHANGED <<history, day>>,
         phase' \in Identifying \cup {"fault"},
         ctx'.held - ctx'.left = ctx.held - ctx.left,
         ctx'.no_gain_no_loss = ctx.no_gain_no_loss
  PROVE  CountsAgree'
<1>1. ctx.held - ctx.left =
         IF ctx.no_gain_no_loss THEN Closing ELSE Supply - today.disposed.quantity
  BY DEF Agreed, CountsAgree
<1> QED
  BY <1>1, CountsKept DEF CountsAgree, Identifying

LEMMA MatchSameDayAgrees == Agreed /\ MatchSameDay => CountsAgree'
<1> SUFFICES ASSUME Agreed, MatchSameDay
             PROVE  CountsAgree'
  OBVIOUS
<1> DEFINE purchased == today.purchased
           units == IF ctx.left < purchased.quantity THEN ctx.left
                    ELSE purchased.quantity
           cost == normalize_amount(units * purchased.amount, purchased.quantity)
<1>1. /\ phase = "same_day" /\ phase' = "bed_and_breakfast"
      /\ UNCHANGED <<history, day>> /\ TypeOK
  BY DEF MatchSameDay, Agreed, Sound
<1>2. /\ purchased.quantity \in Nat /\ purchased.amount \in Nat
      /\ ctx.left \in Int /\ ctx.held \in Int /\ ctx.quantity \in Nat
      /\ ctx.left <= ctx.quantity
  BY <1>1, DayType, ContextType DEF Agreed, Sound, TypeOK, Counts, Identifying, today
<1>3. /\ ctx'.held - ctx'.left = ctx.held - ctx.left
      /\ ctx'.no_gain_no_loss = ctx.no_gain_no_loss
  <2>1. CASE units > 0
    <3>1. ctx' = Identify(units, cost, cost)
      BY <2>1 DEF MatchSameDay
    <3>2. units \in Int /\ ctx.quantity > 0
      BY <1>2, <2>1
    <3>3. cost \in Int
      <4>1. units * purchased.amount \in Int /\ purchased.quantity > 0
        BY <1>2, <2>1
      <4> QED
        BY <1>2, <4>1, NormalizeType
    <3> HIDE DEF units, cost
    <3>4. /\ ctx'.left = ctx.left - units /\ ctx'.held = ctx.held - units
          /\ ctx'.no_gain_no_loss = ctx.no_gain_no_loss
      BY <1>1, <3>1, <3>2, <3>3, IdentifyType
    <3> QED
      BY <1>2, <3>2, <3>4
  <2>2. CASE ~(units > 0)
    BY <2>2 DEF MatchSameDay
  <2> QED
    BY <2>1, <2>2
<1> QED
  BY <1>1, <1>3, IdentifyingAgrees DEF Identifying

LEMMA SearchMatchesDayAgrees == Agreed /\ SearchMatchesDay => CountsAgree'
<1> SUFFICES ASSUME Agreed, SearchMatchesDay
             PROVE  CountsAgree'
  OBVIOUS
<1> DEFINE matched == MatchedUnits(ReachedContext, Available(SearchDay))
           consumed == ConsumedUnits(ReachedContext, Available(SearchDay))
<1>1. /\ TypeOK /\ Searching /\ Available(SearchDay) # 0
      /\ ~Inexpressible(ReachedContext, Available(SearchDay))
      /\ Claim(ReachedContext, matched, consumed)
      /\ phase = "bed_and_breakfast" /\ UNCHANGED <<history, day>>
  BY DEF Agreed, Sound, SearchMatchesDay
<1>2. /\ ctx.left \in Int /\ ctx.held \in Int /\ ctx.quantity \in Nat
      /\ ctx.left <= ctx.held /\ ctx.left <= ctx.quantity
  BY <1>1, ContextType DEF Agreed, Sound, Counts, PoolCoversDisposal, Identifying
<1>3. /\ matched \in Int /\ matched > 0 /\ matched <= ctx.left
      /\ consumed \in Int
      /\ history[SearchDay].purchased.quantity > 0
  BY <1>1, MatchedUnitsBounds
<1> HIDE DEF matched, consumed
<1>4. /\ ctx'.left = ctx.left - matched
      /\ ctx'.held = ctx.held - matched
      /\ ctx'.no_gain_no_loss = ctx.no_gain_no_loss
      /\ phase' \in {"fault", "bed_and_breakfast"}
  BY <1>1, <1>2, <1>3, ClaimContext
<1>5. ctx'.held - ctx'.left = ctx.held - ctx.left
  BY <1>2, <1>3, <1>4
<1> QED
  BY <1>1, <1>4, <1>5, IdentifyingAgrees DEF Identifying

LEMMA SearchEndsAgrees ==
  Agreed /\ (SearchPassesDay \/ SearchRefusesDay \/ EndSearch) => CountsAgree'
<1> SUFFICES ASSUME Agreed, SearchPassesDay \/ SearchRefusesDay \/ EndSearch
             PROVE  CountsAgree'
  OBVIOUS
<1>1. CASE SearchPassesDay
  <2>1. /\ phase = "bed_and_breakfast" /\ phase' = phase
        /\ UNCHANGED <<history, day>>
        /\ ctx'.held = ctx.held /\ ctx'.left = ctx.left
        /\ ctx'.no_gain_no_loss = ctx.no_gain_no_loss
    BY <1>1, ReachedContextType DEF SearchPassesDay, Agreed, Sound
  <2> QED
    BY <2>1, IdentifyingAgrees DEF Identifying
<1>2. CASE SearchRefusesDay
  BY <1>2 DEF SearchRefusesDay, CountsAgree, Identifying
<1>3. CASE EndSearch
  <2>1. /\ phase = "bed_and_breakfast" /\ phase' = "section_104"
        /\ UNCHANGED <<history, day, ctx>>
    BY <1>3 DEF EndSearch
  <2> QED
    BY <2>1, IdentifyingAgrees DEF Identifying
<1> QED
  BY <1>1, <1>2, <1>3

LEMMA MatchSection104Agrees == Agreed /\ MatchSection104 => CountsAgree'
<1> SUFFICES ASSUME Agreed, MatchSection104
             PROVE  CountsAgree'
  OBVIOUS
<1> DEFINE delta == normalize_amount(ctx.left * ctx.cost, ctx.held)
           after == Identify(ctx.left, delta, delta)
<1>1. /\ phase = "section_104" /\ phase' \in {"fault", "finish"}
      /\ UNCHANGED <<history, day>> /\ TypeOK
  BY DEF MatchSection104, Agreed, Sound
<1>2. /\ ctx.left \in Int /\ ctx.held \in Int /\ ctx.cost \in Int
      /\ ctx.left <= ctx.held
  BY <1>1, ContextType DEF Agreed, Sound, Counts, PoolCoversDisposal, Identifying
<1>3. /\ ctx'.held - ctx'.left = ctx.held - ctx.left
      /\ ctx'.no_gain_no_loss = ctx.no_gain_no_loss
  <2>1. CASE ctx.left > 0
    <3>1. ctx' = after
      BY <2>1 DEF MatchSection104
    <3>2. delta \in Int
      <4>1. ctx.left * ctx.cost \in Int /\ ctx.held > 0
        BY <1>2, <2>1
      <4> QED
        BY <1>2, <4>1, NormalizeType
    <3> HIDE DEF delta
    <3>3. /\ after.left = ctx.left - ctx.left /\ after.held = ctx.held - ctx.left
          /\ after.no_gain_no_loss = ctx.no_gain_no_loss
      BY <1>1, <1>2, <3>2, IdentifyType
    <3> QED
      BY <1>2, <3>1, <3>3
  <2>2. CASE ~(ctx.left > 0)
    BY <2>2 DEF MatchSection104
  <2> QED
    BY <2>1, <2>2
<1> QED
  BY <1>1, <1>3, IdentifyingAgrees DEF Identifying

\* A finished disposal has nothing left: the pool it saw is the pool.
LEMMA FinishDisposalAgrees == Agreed /\ FinishDisposal => CountsAgree'
<1> SUFFICES ASSUME Agreed, FinishDisposal
             PROVE  CountsAgree'
  OBVIOUS
<1>1. /\ phase = "finish" /\ UNCHANGED <<history, day>>
      /\ portfolio'.quantity = ctx.held
      /\ phase' \in {"fault", "close", "transfer"}
      /\ phase' # "fault" => ctx.left = 0
      /\ phase' = "close" => ctx.no_gain_no_loss
      /\ phase' = "transfer" => ~ctx.no_gain_no_loss
  BY DEF FinishDisposal, FinishBreaks
<1>2. ctx.held - ctx.left =
         IF ctx.no_gain_no_loss THEN Closing ELSE Supply - today.disposed.quantity
  BY <1>1 DEF Agreed, CountsAgree, Identifying
<1>3. ctx.held \in Int /\ ctx.left \in Int
  BY ContextType DEF Agreed, Sound
<1>4. phase' # "fault" => portfolio'.quantity =
         IF ctx.no_gain_no_loss THEN Closing ELSE Supply - today.disposed.quantity
  BY <1>1, <1>2, <1>3
<1> QED
  BY <1>1, <1>4, CountsKept DEF CountsAgree, Identifying

\* The next day opens with what this one closed with.
LEMMA CloseDayAgrees == Agreed /\ CloseDay => CountsAgree'
<1> SUFFICES ASSUME Agreed, CloseDay
             PROVE  CountsAgree'
  OBVIOUS
<1>1. /\ phase = "close" /\ phase' \in {"refused", "done", "open"}
      /\ phase' = "open" => day' = day + 1
      /\ UNCHANGED history
  BY DEF CloseDay, AtTheEnd
<1>2. portfolio'.quantity = portfolio.quantity
  <2> DEFINE income == portfolio.quantity * today.eri
  <2>1. portfolio' \in {portfolio, [portfolio EXCEPT !.amount = @ + income]}
    BY DEF CloseDay, AtTheEnd
  <2> HIDE DEF income
  <2> QED
    BY <2>1 DEF Agreed, Sound, TypeOK, Position
<1>3. portfolio.quantity = Closing /\ day \in Int
  BY <1>1, CountTypes DEF Agreed, CountsAgree, Day
<1>4. phase' = "open" => Opening' = Closing
  BY <1>1, <1>3 DEF Opening, Closing
<1> QED
  BY <1>1, <1>2, <1>3, <1>4 DEF CountsAgree, Identifying

LEMMA RecalculateAgrees == Agreed /\ Recalculate => CountsAgree'
<1> SUFFICES ASSUME Agreed, Recalculate
             PROVE  CountsAgree'
  OBVIOUS
<1>1. phase' = "open" /\ portfolio'.quantity = 0 /\ day' = 1 /\ UNCHANGED history
  BY DEF Recalculate, NoPosition
<1>2. Opening' = 0
  BY <1>1, HoldingByDay DEF Opening
<1> QED
  BY <1>1, <1>2 DEF CountsAgree, Identifying

LEMMA StepAgrees == Agreed /\ [Next]_vars => Agreed'
<1> SUFFICES ASSUME Agreed, [Next]_vars
             PROVE  Agreed'
  OBVIOUS
<1>1. Sound'
  BY StepSound DEF Agreed
<1>2. CASE UNCHANGED vars
  <2>1. CountsAgree'
    BY <1>2, CountsKept DEF vars, Agreed, CountsAgree
  <2> QED
    BY <1>1, <2>1 DEF Agreed
<1>3. CASE Next
  BY <1>1, <1>3, OpenDayAgrees, ProcessAcquisitionAgrees,
     RecordSplitReconciliationsAgrees, StartSaleAgrees, StartTransferAgrees,
     MatchSameDayAgrees, SearchEndsAgrees, SearchMatchesDayAgrees,
     MatchSection104Agrees, FinishDisposalAgrees, CloseDayAgrees, RecalculateAgrees
     DEF Next, Agreed
<1> QED
  BY <1>2, <1>3

(***************************************************************************)
(* The two passes agree: whatever history the walk is given, reorganised   *)
(* or not, the pool it closes a day with is what the first pass counted.   *)
(***************************************************************************)
THEOREM PassesAlwaysAgree == Spec => []PassesAgreeOnUnits
<1>1. Init => Agreed
  BY InitSound, InitAgreed DEF Agreed
<1>2. Agreed => PassesAgreeOnUnits
  BY DEF Agreed, CountsAgree, PassesAgreeOnUnits, Closing
<1> QED
  BY <1>1, <1>2, StepAgrees, PTL DEF Spec

----------------------------------------------------------------------------
(***************************************************************************)
(* Excess reported income.  Every claim is recorded on the reports passed  *)
(* on the way to it, so what is charged on a report whose day has not      *)
(* closed covers the claims on later days; the closing adds the holding.   *)
(***************************************************************************)
ReportsPassed ==
  phase \in {"same_day", "bed_and_breakfast"} =>
    \A e \in Day : day <= e /\ e <= ctx.look /\ history[e].eri > 0 => e \in ctx.eris

ClaimsCharged ==
  \A e \in Day : day <= e /\ history[e].eri > 0 =>
    ClaimsFrom(e + 1) <= eris_distribution[e].quantity

Charging == InOrder /\ ReportsPassed /\ ClaimsCharged /\ EriReachesEveryUnit

LEMMA DaysFrom ==
  ASSUME NEW e \in Nat \ {0}
  PROVE  /\ e .. LastDay \in SUBSET Day
         /\ IsFiniteSet(e .. LastDay)
<1>1. LastDay \in Int
  BY HistoryAssumption
<1>2. e .. LastDay \in SUBSET Day
  BY <1>1 DEF Day
<1> QED
  BY <1>1, <1>2, FS_Interval

LEMMA ClaimsFromType ==
  ASSUME TypeOK, NEW e \in Nat \ {0}
  PROVE  ClaimsFrom(e) \in Int
<1> DEFINE claims == [d \in Day |-> bnb_list[d].quantity]
<1>1. \A d \in e .. LastDay : claims[d] \in Int
  BY DaysFrom, ClaimType
<1> HIDE DEF claims
<1>2. SumFunctionOnSet(claims, e .. LastDay) \in Int
  BY <1>1, DaysFrom, SumType
<1> QED
  BY <1>2 DEF ClaimsFrom, claims

\* The claims are summed by their counts alone.
LEMMA ClaimsFromKept ==
  ASSUME NEW e, \A d \in Day : bnb_list'[d].quantity = bnb_list[d].quantity
  PROVE  ClaimsFrom(e)' = ClaimsFrom(e)
<1>1. [d \in Day |-> bnb_list'[d].quantity] = [d \in Day |-> bnb_list[d].quantity]
  OBVIOUS
<1> QED
  BY <1>1 DEF ClaimsFrom

\* A claim is added to the sums that start no later than its day.
LEMMA ClaimsFromGrow ==
  ASSUME TypeOK, NEW found \in Day, NEW taken \in Nat,
         \A d \in Day : bnb_list'[d].quantity =
           IF d = found THEN bnb_list[d].quantity + taken ELSE bnb_list[d].quantity,
         NEW e \in Nat \ {0}
  PROVE  ClaimsFrom(e)' =
           IF e <= found THEN ClaimsFrom(e) + taken ELSE ClaimsFrom(e)
<1> DEFINE claims == [d \in Day |-> bnb_list[d].quantity]
           after == [d \in Day |-> bnb_list'[d].quantity]
           days == e .. LastDay
<1>1. days \in SUBSET Day /\ IsFiniteSet(days)
  BY DaysFrom
<1>2. \A d \in days : claims[d] \in Int
  BY <1>1, ClaimType
<1>3. /\ ClaimsFrom(e) = SumFunctionOnSet(claims, days)
      /\ ClaimsFrom(e)' = SumFunctionOnSet(after, days)
  BY DEF ClaimsFrom
<1>4. \A d \in Day : after[d] = IF d = found THEN claims[d] + taken ELSE claims[d]
  OBVIOUS
<1> HIDE DEF claims, after
<1>5. CASE e <= found
  <2>1. found \in days
    BY <1>5, HistoryAssumption DEF Day
  <2> HIDE DEF days
  <2>2. \A d \in days \ {found} : after[d] = claims[d]
    BY <1>1, <1>4
  <2>3. after[found] = claims[found] + taken /\ claims[found] \in Int
    BY <1>2, <1>4, <2>1
  <2>4. SumFunctionOnSet(after, days)
          = SumFunctionOnSet(claims, days) + (after[found] - claims[found])
    BY <1>1, <1>2, <2>1, <2>2, <2>3, SumChange
  <2>5. SumFunctionOnSet(claims, days) \in Int
    BY <1>1, <1>2, SumType
  <2> QED
    BY <1>3, <1>5, <2>3, <2>4, <2>5
<1>6. CASE ~(e <= found)
  <2>1. found \notin days
    BY <1>6 DEF Day
  <2> HIDE DEF days
  <2>2. \A d \in days : claims[d] = after[d]
    BY <1>1, <1>4, <2>1
  <2>3. SumFunctionOnSet(claims, days) = SumFunctionOnSet(after, days)
    BY <1>1, <2>2, SumSame
  <2> QED
    BY <1>3, <1>6, <2>3
<1> QED
  BY <1>5, <1>6

LEMMA InitCharging == Init /\ NeverReorganised => Charging
<1> SUFFICES ASSUME Init, NeverReorganised
             PROVE  Charging
  OBVIOUS
<1>1. InOrder /\ TypeOK
  BY InitInOrder DEF InOrder, OnceEach, Sound
<1>2. ASSUME NEW e \in Day
      PROVE  ClaimsFrom(e + 1) <= eris_distribution[e].quantity
  <2> DEFINE claims == [d \in Day |-> bnb_list[d].quantity]
             days == e + 1 .. LastDay
  <2>1. \A d \in Day : claims[d] = 0
    BY DEF Init, Nothing
  <2>2. days \in SUBSET Day /\ IsFiniteSet(days)
    BY DaysFrom DEF Day
  <2>3. eris_distribution[e].quantity = 0
    BY DEF Init, Nothing
  <2> HIDE DEF claims, days
  <2>4. SumFunctionOnSet(claims, days) = 0
    BY <2>1, <2>2, SumOfZeros
  <2> QED
    BY <2>3, <2>4 DEF ClaimsFrom, claims, days
<1>3. phase = "open" /\ day = 1
  BY DEF Init
<1> QED
  BY <1>1, <1>2, <1>3 DEF Charging, ReportsPassed, ClaimsCharged, EriReachesEveryUnit

\* Where neither the claims nor the charges change, the reports stay covered.
LEMMA ChargesKept ==
  ASSUME ClaimsCharged, UNCHANGED <<history, day, bnb_list, eris_distribution>>
  PROVE  ClaimsCharged'
<1>1. \A e \in Day : ClaimsFrom(e + 1)' = ClaimsFrom(e + 1)
  BY ClaimsFromKept
<1> QED
  BY <1>1 DEF ClaimsCharged

\* A disposal begins with the day's own report passed.
LEMMA BeginCharging ==
  ASSUME Charging, StartSale \/ StartTransfer
  PROVE  ReportsPassed' /\ ClaimsCharged' /\ EriReachesEveryUnit'
<1>1. /\ phase' \in {"same_day", "fault", "transfer", "close", "refused"}
      /\ phase' = "same_day" =>
           /\ ctx'.look = day
           /\ ctx'.eris = IF today.eri > 0 THEN {day} ELSE {}
      /\ UNCHANGED <<history, day, bnb_list, eris_distribution>>
  BY DEF StartSale, StartTransfer, BeginDisposal, DisposalContext
<1>2. day \in Day
  BY DEF Charging, InOrder, OnceEach, Sound, TypeOK
<1>3. ReportsPassed'
  <2> SUFFICES ASSUME phase' = "same_day", NEW e \in Day, day <= e, e <= day,
                      history[e].eri > 0
               PROVE  e \in ctx'.eris
    BY <1>1 DEF ReportsPassed
  <2>1. e = day
    BY <1>2 DEF Day
  <2> QED
    BY <1>1, <2>1 DEF today
<1>4. ClaimsCharged'
  BY <1>1, ChargesKept DEF Charging
<1> QED
  BY <1>1, <1>3, <1>4 DEF EriReachesEveryUnit

\* Passing on to the next day passes its report too.
LEMMA ReachedReports ==
  ASSUME Charging, phase = "bed_and_breakfast", Searching
  PROVE  \A e \in Day : day <= e /\ e <= SearchDay /\ history[e].eri > 0 =>
           e \in ReachedContext.eris
<1>1. TypeOK /\ ctx.look \in Day /\ SearchDay = ctx.look + 1
  BY ContextType DEF Charging, InOrder, OnceEach, Sound, SearchDay
<1>2. ReachedContext.eris =
        IF history[SearchDay].eri > 0 THEN ctx.eris \cup {SearchDay} ELSE ctx.eris
  BY <1>1, ContextType DEF ReachedContext, Context
<1> SUFFICES ASSUME NEW e \in Day, day <= e, e <= SearchDay, history[e].eri > 0
             PROVE  e \in ReachedContext.eris
  OBVIOUS
<1>3. CASE e = SearchDay
  BY <1>2, <1>3
<1>4. CASE e # SearchDay
  <2>1. e <= ctx.look
    BY <1>1, <1>4 DEF Day
  <2>2. e \in ctx.eris
    BY <2>1 DEF Charging, ReportsPassed
  <2> QED
    BY <1>2, <2>2
<1> QED
  BY <1>3, <1>4

LEMMA SameDayCharging ==
  ASSUME Charging, MatchSameDay
  PROVE  ReportsPassed' /\ ClaimsCharged' /\ EriReachesEveryUnit'
<1>1. /\ phase = "same_day" /\ phase' = "bed_and_breakfast"
      /\ UNCHANGED <<history, day, bnb_list, eris_distribution>>
      /\ \/ UNCHANGED ctx
         \/ \E units, cost : ctx' = Identify(units, cost, cost)
  BY DEF MatchSameDay
<1>2. ctx'.look = ctx.look /\ ctx'.eris = ctx.eris
  <2>1. CASE UNCHANGED ctx
    BY <2>1
  <2>2. CASE \E units, cost : ctx' = Identify(units, cost, cost)
    BY <2>2, ContextType DEF Identify, Context, Charging, InOrder, OnceEach, Sound
  <2> QED
    BY <1>1, <2>1, <2>2
<1>3. ClaimsCharged'
  BY <1>1, ChargesKept DEF Charging
<1> QED
  BY <1>1, <1>2, <1>3 DEF Charging, ReportsPassed, EriReachesEveryUnit

LEMMA PassCharging ==
  ASSUME Charging, SearchPassesDay
  PROVE  ReportsPassed' /\ ClaimsCharged' /\ EriReachesEveryUnit'
<1>1. /\ phase = "bed_and_breakfast" /\ phase' = phase /\ Searching
      /\ UNCHANGED <<history, day, bnb_list, eris_distribution>>
      /\ ctx' = ReachedContext
  BY DEF SearchPassesDay
<1>2. ReachedContext.look = SearchDay
  BY <1>1, ReachedContextType DEF Charging, InOrder, OnceEach, Sound
<1>3. ReportsPassed'
  BY <1>1, <1>2, ReachedReports DEF ReportsPassed
<1>4. ClaimsCharged'
  BY <1>1, ChargesKept DEF Charging
<1> QED
  BY <1>1, <1>3, <1>4 DEF EriReachesEveryUnit

\* A claim is charged on every report between the disposal and it.
LEMMA ClaimCharging ==
  ASSUME Charging, SearchMatchesDay
  PROVE  ReportsPassed' /\ ClaimsCharged' /\ EriReachesEveryUnit'
<1> DEFINE available == Available(SearchDay)
           matched == MatchedUnits(ReachedContext, available)
           consumed == ConsumedUnits(ReachedContext, available)
<1>1. /\ InOrder /\ TypeOK /\ Searching /\ available # 0
      /\ ~Inexpressible(ReachedContext, available)
      /\ Claim(ReachedContext, matched, consumed)
      /\ phase = "bed_and_breakfast" /\ UNCHANGED <<history, day>>
  BY DEF Charging, InOrder, OnceEach, Sound, SearchMatchesDay
<1>2. /\ ctx.left <= ctx.held /\ ctx.left <= ctx.quantity
      /\ ctx.left \in Int /\ ctx.left > 0
      /\ SearchDay \in Day /\ SearchDay > day /\ day \in Day
  BY <1>1, ContextType, SearchDayType
     DEF InOrder, OnceEach, Sound, Counts, PoolCoversDisposal, Identifying, TypeOK
<1>3. consumed = matched
  BY <1>1, MatchedIsConsumed
<1>4. /\ matched \in Int /\ matched > 0 /\ matched <= ctx.left
      /\ history[SearchDay].purchased.quantity > 0
  BY <1>1, MatchedUnitsBounds
<1>5. /\ \E left, amount_left, held, cost, proceeds, gain, base :
           ctx' = [ReachedContext EXCEPT
                     !.left = left, !.amount_left = amount_left, !.held = held,
                     !.cost = cost, !.proceeds = proceeds, !.gain = gain,
                     !.base = base]
      /\ phase' \in {"fault", "bed_and_breakfast"}
      /\ eris_distribution' = [d \in Day |->
           IF d \in ReachedContext.eris
             THEN [quantity |-> eris_distribution[d].quantity + matched,
                   amount |-> eris_distribution[d].amount + matched * history[d].eri]
             ELSE eris_distribution[d]]
  BY <1>1 DEF Claim
<1>6. normalize_amount(matched * ctx.cost, ctx.held) \in Int
  <2>1. matched * ctx.cost \in Int /\ ctx.held \in Int /\ ctx.held > 0
    BY <1>1, <1>2, <1>4, ContextType
  <2> QED
    BY <2>1, NormalizeType
<1>7. \A d \in Day : bnb_list'[d].quantity =
        IF d = SearchDay /\ phase' # "fault" THEN bnb_list[d].quantity + matched
        ELSE bnb_list[d].quantity
  <2> HIDE DEF matched, consumed
  <2> QED
    BY <1>1, <1>3, <1>4, <1>6, ClaimTallies
<1> HIDE DEF available, matched, consumed
<1>8. ctx'.look = SearchDay /\ ctx'.eris = ReachedContext.eris
  BY <1>1, <1>5, ReachedContextType DEF Context
<1>9. ReportsPassed'
  BY <1>1, <1>8, ReachedReports DEF ReportsPassed
<1>10. ClaimsCharged'
  <2> SUFFICES ASSUME NEW e \in Day, day <= e, history[e].eri > 0
               PROVE  ClaimsFrom(e + 1)' <= eris_distribution'[e].quantity
    BY <1>1 DEF ClaimsCharged
  <2>1. ClaimsFrom(e + 1) <= eris_distribution[e].quantity
    BY DEF Charging, ClaimsCharged
  <2>2. e + 1 \in Nat \ {0} /\ e \in Int /\ SearchDay \in Int
    BY <1>2 DEF Day
  <2>3. ClaimsFrom(e + 1) \in Int /\ eris_distribution[e].quantity \in Nat
    BY <1>1, <2>2, ClaimsFromType DEF TypeOK, Tally
  <2>4. ClaimsFrom(e + 1)' =
          IF e + 1 <= SearchDay /\ phase' # "fault" THEN ClaimsFrom(e + 1) + matched
          ELSE ClaimsFrom(e + 1)
    <3>1. CASE phase' = "fault"
      BY <1>7, <3>1, ClaimsFromKept
    <3>2. CASE phase' # "fault"
      <4>1. matched \in Nat
        BY <1>4
      <4>2. \A d \in Day : bnb_list'[d].quantity =
              IF d = SearchDay THEN bnb_list[d].quantity + matched
              ELSE bnb_list[d].quantity
        BY <1>7, <3>2
      <4> QED
        BY <1>1, <1>2, <2>2, <3>2, <4>1, <4>2, ClaimsFromGrow
    <3> QED
      BY <3>1, <3>2
  <2>5. eris_distribution'[e].quantity =
          IF e \in ReachedContext.eris THEN eris_distribution[e].quantity + matched
          ELSE eris_distribution[e].quantity
    BY <1>5
  <2>6. e + 1 <= SearchDay => e \in ReachedContext.eris
    BY <1>1, <2>2, ReachedReports
  <2> QED
    BY <1>4, <2>1, <2>2, <2>3, <2>4, <2>5, <2>6
<1> QED
  BY <1>5, <1>9, <1>10 DEF EriReachesEveryUnit

\* The report of the day that closes is charged on the holding as well.
LEMMA CloseDayCharging ==
  ASSUME Charging, CloseDay
  PROVE  ReportsPassed' /\ ClaimsCharged' /\ EriReachesEveryUnit'
<1> DEFINE income == portfolio.quantity * today.eri
<1>1. /\ phase = "close" /\ phase' \in {"refused", "done", "open"}
      /\ UNCHANGED <<history, bnb_list>>
      /\ phase' = "open" => day' = day + 1
      /\ day' \in {day, day + 1}
      /\ portfolio' \in {portfolio, [portfolio EXCEPT !.amount = @ + income]}
      /\ eris_distribution' =
           IF phase' = "refused" \/ income = 0 THEN eris_distribution
           ELSE [eris_distribution EXCEPT ![day] =
                   [quantity |-> @.quantity + portfolio.quantity,
                    amount |-> @.amount + income]]
  BY DEF CloseDay, AtTheEnd
<1>2. /\ TypeOK /\ day \in Day /\ portfolio \in Position
      /\ portfolio.quantity \in Nat /\ today.eri \in Nat
      /\ \A e \in Day : eris_distribution[e].quantity \in Nat
  <2>1. Sound /\ TypeOK
    BY DEF Charging, InOrder, OnceEach, Sound
  <2>2. /\ day \in Day /\ portfolio \in Position
        /\ eris_distribution \in [Day -> Tally]
    BY <2>1 DEF TypeOK
  <2>3. portfolio.quantity \in Nat
    BY <2>1, CountTypes
  <2>4. today.eri \in Nat
    BY <2>1, <2>2, DayType DEF today
  <2>5. \A e \in Day : eris_distribution[e].quantity \in Nat
    BY <2>2 DEF Tally
  <2> QED
    BY <2>1, <2>2, <2>3, <2>4, <2>5
<1>3. today.eri > 0 => (income = 0 <=> portfolio.quantity = 0)
  BY <1>2
<1> HIDE DEF income
<1>4. portfolio'.quantity = portfolio.quantity
  BY <1>1, <1>2 DEF Position
<1>5. \A e \in Day : eris_distribution'[e].quantity =
        IF phase' = "refused" \/ income = 0 \/ e # day
          THEN eris_distribution[e].quantity
        ELSE eris_distribution[e].quantity + portfolio.quantity
  BY <1>1, <1>2 DEF TypeOK
<1>6. \A e : ClaimsFrom(e)' = ClaimsFrom(e)
  BY <1>1, ClaimsFromKept
<1>7. \A e \in Day : ClaimsFrom(e + 1) \in Int
  BY <1>2, ClaimsFromType DEF Day
<1>8. ClaimsCharged'
  <2> SUFFICES ASSUME NEW e \in Day, day' <= e, history[e].eri > 0
               PROVE  ClaimsFrom(e + 1)' <= eris_distribution'[e].quantity
    BY <1>1 DEF ClaimsCharged
  <2>1. day <= e
    BY <1>1, <1>2 DEF Day
  <2>2. ClaimsFrom(e + 1) <= eris_distribution[e].quantity
    BY <2>1 DEF Charging, ClaimsCharged
  <2>3. eris_distribution'[e].quantity >= eris_distribution[e].quantity
    BY <1>2, <1>5
  <2>4. eris_distribution'[e].quantity \in Nat
    BY <1>2, <1>5
  <2> QED
    BY <1>2, <1>6, <1>7, <2>2, <2>3, <2>4
<1>9. EriReachesEveryUnit'
  <2> SUFFICES ASSUME phase' = "open", history[day].eri > 0
               PROVE  eris_distribution'[day].quantity
                        >= portfolio.quantity + ClaimsFrom(day + 1)
    <3>1. phase' = "open" => day' = day + 1 /\ day' - 1 = day
      BY <1>1, <1>2 DEF Day
    <3>2. phase' = "open" => ClaimsFrom(day)' = ClaimsFrom(day + 1)
      BY <1>1, <3>1 DEF ClaimsFrom
    <3> QED
      BY <1>1, <1>4, <3>1, <3>2 DEF EriReachesEveryUnit, TreatedAsHeld
  <2>1. ClaimsFrom(day + 1) <= eris_distribution[day].quantity
    BY <1>2 DEF Charging, ClaimsCharged, Day
  <2>2. ClaimsFrom(day + 1) \in Int
    BY <1>2, <1>7
  <2>3. eris_distribution'[day].quantity
          = eris_distribution[day].quantity + portfolio.quantity
    BY <1>2, <1>3, <1>5 DEF today
  <2> QED
    BY <1>2, <2>1, <2>2, <2>3
<1> QED
  BY <1>1, <1>8, <1>9 DEF ReportsPassed

LEMMA RecalculateCharging ==
  ASSUME Charging, Recalculate
  PROVE  ReportsPassed' /\ ClaimsCharged' /\ EriReachesEveryUnit'
<1>1. /\ phase' = "open" /\ day' = 1
      /\ \A d \in Day : bnb_list'[d].quantity = 0
      /\ \A d \in Day : eris_distribution'[d].quantity = 0
  BY DEF Recalculate, ClaimsAfterReset, Nothing
<1>2. \A e \in Day : ClaimsFrom(e + 1)' = 0
  <2> SUFFICES ASSUME NEW e \in Day
               PROVE  ClaimsFrom(e + 1)' = 0
    OBVIOUS
  <2> DEFINE claims == [d \in Day |-> bnb_list'[d].quantity]
             days == e + 1 .. LastDay
  <2>1. days \in SUBSET Day /\ IsFiniteSet(days)
    BY DaysFrom DEF Day
  <2>2. \A d \in Day : claims[d] = 0
    BY <1>1
  <2> HIDE DEF claims, days
  <2>3. SumFunctionOnSet(claims, days) = 0
    BY <2>1, <2>2, SumOfZeros
  <2> QED
    BY <2>3 DEF ClaimsFrom, claims, days
<1> QED
  BY <1>1, <1>2 DEF ReportsPassed, ClaimsCharged, EriReachesEveryUnit

LEMMA StepCharging == Charging /\ [Next]_vars => Charging'
<1> SUFFICES ASSUME Charging, [Next]_vars
             PROVE  Charging'
  OBVIOUS
<1>1. InOrder'
  BY StepInOrder DEF Charging
<1>2. CASE UNCHANGED vars
  <2>1. UNCHANGED <<history, day, phase, ctx, portfolio, bnb_list, eris_distribution>>
    BY <1>2 DEF vars
  <2>2. ClaimsCharged' /\ ClaimsFrom(day)' = ClaimsFrom(day)
    BY <2>1, ChargesKept DEF Charging, ClaimsFrom
  <2> QED
    BY <1>1, <2>1, <2>2
       DEF Charging, ReportsPassed, EriReachesEveryUnit, TreatedAsHeld
<1>3. CASE \/ OpenDay \/ ProcessAcquisition \/ RecordSplitReconciliations
           \/ SearchRefusesDay \/ EndSearch \/ MatchSection104 \/ FinishDisposal
  <2>1. /\ UNCHANGED <<history, day, bnb_list, eris_distribution>>
        /\ phase' \notin {"open", "same_day", "bed_and_breakfast"}
    BY <1>3 DEF OpenDay, ProcessAcquisition, RecordSplitReconciliations,
                SearchRefusesDay, EndSearch, MatchSection104, FinishDisposal
  <2>2. ClaimsCharged'
    BY <2>1, ChargesKept DEF Charging
  <2> QED
    BY <1>1, <2>1, <2>2 DEF Charging, ReportsPassed, EriReachesEveryUnit
<1>4. CASE \/ StartSale \/ StartTransfer \/ MatchSameDay \/ SearchPassesDay
           \/ SearchMatchesDay \/ CloseDay \/ Recalculate
  BY <1>1, <1>4, BeginCharging, SameDayCharging, PassCharging, ClaimCharging,
     CloseDayCharging, RecalculateCharging DEF Charging
<1> QED
  BY <1>2, <1>3, <1>4 DEF Next

(***************************************************************************)
(* Excess reported income reaches every unit of a holding that is never    *)
(* reorganised, whatever is disposed of and repurchased around the report. *)
(***************************************************************************)
THEOREM EriAlwaysReaches ==
  Spec /\ NeverReorganised => []EriReachesEveryUnit
<1>1. Charging => EriReachesEveryUnit
  BY DEF Charging
<1> QED
  BY <1>1, InitCharging, StepCharging, PTL DEF Spec

----------------------------------------------------------------------------
(***************************************************************************)
(* Ratios in between.  RatioBetween composes the reorganisations of a set  *)
(* of days in an order nobody states; the search composes them day by day. *)
(* RatioStep is one step of the fold.                                      *)
(***************************************************************************)
RatioStep(records, s, fold) ==
  IF s = {} THEN Unscaled
  ELSE ComposeRatios(records[Pick(s)].split.ratio, fold[s \ {Pick(s)}])

RatioOver(records, S) ==
  FoldSet(LAMBDA d, ratio : ComposeRatios(records[d].split.ratio, ratio), Unscaled, S)

LEMMA RatioFoldExists ==
  ASSUME NEW S, IsFiniteSet(S), NEW records
  PROVE  \E fold : fold = [s \in SUBSET S |-> RatioStep(records, s, fold)]
<1> DEFINE Folds(n, fold) ==
             fold = [s \in SmallSubsets(S, n) |-> RatioStep(records, s, fold)]
           Reached == {n \in Nat : \E fold : Folds(n, fold)}
<1>1. 0 \in Reached
  <2> DEFINE fold == [s \in SmallSubsets(S, 0) |-> Unscaled]
  <2>1. \A s \in SmallSubsets(S, 0) : s = {}
    <3> SUFFICES ASSUME NEW s \in SUBSET S, Cardinality(s) <= 0
                 PROVE  s = {}
      BY DEF SmallSubsets
    <3>1. IsFiniteSet(s) /\ Cardinality(s) \in Nat
      BY FS_Subset, FS_CardinalityType
    <3> QED
      BY <3>1, FS_EmptySet
  <2>2. fold = [s \in SmallSubsets(S, 0) |-> RatioStep(records, s, fold)]
    BY <2>1 DEF RatioStep
  <2> QED
    BY <2>2
<1>2. ASSUME NEW n \in Nat, n \in Reached
      PROVE  n + 1 \in Reached
  <2>1. PICK fold : Folds(n, fold)
    BY <1>2
  <2> DEFINE longer == [s \in SmallSubsets(S, n + 1) |->
                          IF Cardinality(s) <= n THEN fold[s]
                          ELSE RatioStep(records, s, fold)]
  <2>2. ASSUME NEW s \in SmallSubsets(S, n + 1)
        PROVE  longer[s] = RatioStep(records, s, longer)
    <3>1. s \in SUBSET S /\ Cardinality(s) <= n + 1
      BY DEF SmallSubsets
    <3>2. longer[s] = RatioStep(records, s, fold)
      <4>1. CASE Cardinality(s) <= n
        <5>1. s \in SmallSubsets(S, n)
          BY <3>1, <4>1 DEF SmallSubsets
        <5>2. fold[s] = RatioStep(records, s, fold)
          BY <2>1, <5>1
        <5> QED
          BY <4>1, <5>2
      <4>2. CASE ~(Cardinality(s) <= n)
        BY <4>2
      <4> QED
        BY <4>1, <4>2
    <3>3. s # {} => longer[s \ {Pick(s)}] = fold[s \ {Pick(s)}]
      <4> SUFFICES ASSUME s # {}
                   PROVE  longer[s \ {Pick(s)}] = fold[s \ {Pick(s)}]
        OBVIOUS
      <4> DEFINE rest == s \ {Pick(s)}
      <4>1. Pick(s) \in s
        BY DEF Pick
      <4>2. /\ rest \in SUBSET S /\ Cardinality(s) \in Nat
            /\ Cardinality(rest) = Cardinality(s) - 1
        BY <3>1, <4>1, Smaller
      <4> HIDE DEF rest
      <4>3. Cardinality(rest) <= n /\ Cardinality(rest) <= n + 1
        BY <3>1, <4>2
      <4>4. rest \in SmallSubsets(S, n + 1)
        BY <4>2, <4>3 DEF SmallSubsets
      <4>5. longer[rest] = fold[rest]
        BY <4>3, <4>4
      <4> QED
        BY <4>5 DEF rest
    <3> HIDE DEF longer
    <3> QED
      BY <3>2, <3>3 DEF RatioStep
  <2>3. longer = [s \in SmallSubsets(S, n + 1) |-> longer[s]]
    OBVIOUS
  <2> HIDE DEF longer
  <2>4. longer = [s \in SmallSubsets(S, n + 1) |-> RatioStep(records, s, longer)]
    BY <2>2, <2>3
  <2> QED
    BY <2>4
<1> HIDE DEF Reached
<1>3. \A n \in Nat : n \in Reached
  BY <1>1, <1>2, NaturalsBySteps
<1>4. Cardinality(S) \in Nat
  BY FS_CardinalityType
<1>5. SmallSubsets(S, Cardinality(S)) = SUBSET S
  BY FS_Subset DEF SmallSubsets
<1>6. PICK fold : Folds(Cardinality(S), fold)
  BY <1>3, <1>4 DEF Reached
<1> QED
  BY <1>5, <1>6

RatioFold(records, S) == CHOOSE fold : fold = [s \in SUBSET S |-> RatioStep(records, s, fold)]

LEMMA RatioFoldByStep ==
  ASSUME NEW S, IsFiniteSet(S), NEW records
  PROVE  /\ \A s \in SUBSET S :
              RatioFold(records, S)[s] = RatioStep(records, s, RatioFold(records, S))
         /\ RatioOver(records, S) = RatioFold(records, S)[S]
<1>1. RatioFold(records, S) = [s \in SUBSET S |-> RatioStep(records, s, RatioFold(records, S))]
  BY RatioFoldExists DEF RatioFold
<1>2. RatioOver(records, S) = RatioFold(records, S)[S]
  BY DEF RatioOver, FoldSet, MapThenFoldSet, RatioFold, RatioStep, Pick
<1> QED
  BY <1>1, <1>2

\* A part of the fold over S is the fold over that part.
LEMMA RatioOfPart ==
  ASSUME NEW S, IsFiniteSet(S), NEW records, NEW T \in SUBSET S
  PROVE  RatioOver(records, T) = RatioFold(records, S)[T]
<1> DEFINE whole == RatioFold(records, S)
           part  == RatioFold(records, T)
           Same  == {s \in SUBSET T : part[s] = whole[s]}
<1>1. IsFiniteSet(T)
  BY FS_Subset
<1>2. /\ \A s \in SUBSET T : part[s] = RatioStep(records, s, part)
      /\ \A s \in SUBSET T : whole[s] = RatioStep(records, s, whole)
  BY <1>1, RatioFoldByStep
<1> HIDE DEF whole, part
<1>3. {} \in Same
  BY <1>2 DEF RatioStep
<1>4. ASSUME NEW s \in SUBSET T, s # {}, \A x \in s : s \ {x} \in Same
      PROVE  s \in Same
  <2>1. Pick(s) \in s
    BY <1>4 DEF Pick
  <2> QED
    BY <1>2, <1>4, <2>1 DEF RatioStep
<1> HIDE DEF Same
<1>5. \A s \in SUBSET T : s \in Same
  BY <1>1, <1>3, <1>4, SubsetsBySteps
<1>6. part[T] = whole[T]
  BY <1>5 DEF Same
<1> QED
  BY <1>1, <1>6, RatioFoldByStep DEF whole, part

LEMMA RatioOverByPick ==
  ASSUME NEW S, IsFiniteSet(S), NEW records
  PROVE  /\ S = {} => RatioOver(records, S) = Unscaled
         /\ S # {} => /\ Pick(S) \in S
                      /\ RatioOver(records, S)
                           = ComposeRatios(records[Pick(S)].split.ratio,
                                           RatioOver(records, S \ {Pick(S)}))
<1>1. RatioOver(records, S) = RatioStep(records, S, RatioFold(records, S))
  BY RatioFoldByStep
<1>2. S # {} => Pick(S) \in S
  BY DEF Pick
<1>3. RatioOver(records, S \ {Pick(S)}) = RatioFold(records, S)[S \ {Pick(S)}]
  BY RatioOfPart
<1> QED
  BY <1>1, <1>2, <1>3 DEF RatioStep

LEMMA RatioOverType ==
  ASSUME NEW S, IsFiniteSet(S), NEW records, \A d \in S : records[d].split.ratio \in Ratio
  PROVE  RatioOver(records, S) \in Ratio
<1> DEFINE Typed == {s \in SUBSET S : RatioOver(records, s) \in Ratio}
<1>1. {} \in Typed
  <2>1. RatioOver(records, {}) = Unscaled
    BY FS_EmptySet, RatioOverByPick
  <2> QED
    BY <2>1 DEF Unscaled, Ratio
<1>2. ASSUME NEW s \in SUBSET S, s # {}, \A x \in s : s \ {x} \in Typed
      PROVE  s \in Typed
  <2>1. IsFiniteSet(s)
    BY FS_Subset
  <2>2. /\ Pick(s) \in s
        /\ RatioOver(records, s) = ComposeRatios(records[Pick(s)].split.ratio,
                                                 RatioOver(records, s \ {Pick(s)}))
    BY <1>2, <2>1, RatioOverByPick
  <2>3. RatioOver(records, s \ {Pick(s)}) \in Ratio
    BY <1>2, <2>2
  <2>4. records[Pick(s)].split.ratio \in Ratio
    BY <2>2
  <2> QED
    BY <2>2, <2>3, <2>4, ComposeType
<1> HIDE DEF Typed
<1>3. \A s \in SUBSET S : s \in Typed
  BY <1>1, <1>2, SubsetsBySteps
<1> QED
  BY <1>3 DEF Typed

\* The order two reorganisations are composed in does not matter.
LEMMA ComposeLaws ==
  ASSUME NEW p \in Ratio, NEW q \in Ratio, NEW r \in Ratio
  PROVE  /\ ComposeRatios(p, q) = ComposeRatios(q, p)
         /\ ComposeRatios(p, ComposeRatios(q, r)) = ComposeRatios(q, ComposeRatios(p, r))
<1>1. \A a, b, c \in Nat : a * b = b * a /\ a * (b * c) = b * (a * c)
  OBVIOUS
<1>2. /\ p.num \in Nat /\ p.den \in Nat /\ q.num \in Nat /\ q.den \in Nat
      /\ r.num \in Nat /\ r.den \in Nat
  BY DEF Ratio
<1> QED
  BY <1>1, <1>2 DEF ComposeRatios

\* Any day of the set may be composed first.
LEMMA RatioOverTake ==
  ASSUME NEW S, IsFiniteSet(S), NEW records, \A d \in S : records[d].split.ratio \in Ratio,
         NEW x \in S
  PROVE  RatioOver(records, S)
           = ComposeRatios(records[x].split.ratio, RatioOver(records, S \ {x}))
<1> DEFINE Over(s) == RatioOver(records, s)
           Of(d) == records[d].split.ratio
           Free == {s \in SUBSET S : \A y \in s : Over(s) = ComposeRatios(Of(y), Over(s \ {y}))}
<1>1. {} \in Free
  OBVIOUS
<1>2. ASSUME NEW s \in SUBSET S, s # {}, \A y \in s : s \ {y} \in Free
      PROVE  s \in Free
  <2> SUFFICES ASSUME NEW y \in s
               PROVE  Over(s) = ComposeRatios(Of(y), Over(s \ {y}))
    OBVIOUS
  <2> DEFINE first == Pick(s)
  <2>1. IsFiniteSet(s)
    BY FS_Subset
  <2>2. first \in s /\ Over(s) = ComposeRatios(Of(first), Over(s \ {first}))
    BY <1>2, <2>1, RatioOverByPick
  <2> HIDE DEF first
  <2>3. CASE y = first
    BY <2>2, <2>3
  <2>4. CASE y # first
    <3>1. y \in s \ {first} /\ first \in s \ {y}
      BY <2>2, <2>4
    <3>2. Over(s \ {first}) = ComposeRatios(Of(y), Over((s \ {first}) \ {y}))
      BY <1>2, <2>2, <3>1
    <3>3. Over(s \ {y}) = ComposeRatios(Of(first), Over((s \ {y}) \ {first}))
      BY <1>2, <3>1
    <3>4. (s \ {first}) \ {y} = (s \ {y}) \ {first}
      OBVIOUS
    <3> DEFINE rest == (s \ {y}) \ {first}
    <3>5. Of(y) \in Ratio /\ Of(first) \in Ratio /\ Over(rest) \in Ratio
      <4>1. rest \in SUBSET S /\ IsFiniteSet(rest)
        BY FS_Subset
      <4> HIDE DEF rest
      <4> QED
        BY <2>2, <4>1, RatioOverType
    <3> HIDE DEF rest, Over, Of
    <3>6. /\ Over(s) = ComposeRatios(Of(first), ComposeRatios(Of(y), Over(rest)))
          /\ Over(s \ {y}) = ComposeRatios(Of(first), Over(rest))
      BY <2>2, <3>2, <3>3, <3>4 DEF rest
    <3> QED
      BY <3>5, <3>6, ComposeLaws
  <2> QED
    BY <2>3, <2>4
<1> HIDE DEF Free
<1>3. \A s \in SUBSET S : s \in Free
  BY <1>1, <1>2, SubsetsBySteps
<1> QED
  BY <1>3 DEF Free

----------------------------------------------------------------------------
(***************************************************************************)
(* Rounding goes to the nearest, so a count and what it is converted to    *)
(* differ from their ratio by half a unit at most.                         *)
(***************************************************************************)
LEMMA DivisionBounds ==
  ASSUME NEW n \in Int, NEW d \in Int, d > 0
  PROVE  /\ n \div d \in Int
         /\ d * (n \div d) <= n
         /\ n < d * (n \div d) + d
  OBVIOUS

LEMMA RoundNearest ==
  ASSUME NEW n \in Nat, NEW d \in Int, d > 0
  PROVE  /\ RoundHalfUp(n, d) \in Int
         /\ 2 * (RoundHalfUp(n, d) * d) <= 2 * n + d
         /\ 2 * n < 2 * (RoundHalfUp(n, d) * d) + d
<1> DEFINE q == (2 * n + d) \div (2 * d)
<1>1. 2 * n + d \in Int /\ 2 * d \in Int /\ 2 * d > 0
  OBVIOUS
<1>2. q \in Int /\ (2 * d) * q <= 2 * n + d /\ 2 * n + d < (2 * d) * q + 2 * d
  BY <1>1, DivisionBounds
<1>3. RoundHalfUp(n, d) = q
  BY DEF RoundHalfUp
<1> HIDE DEF q
<1>4. (2 * d) * q = 2 * (q * d)
  BY <1>2
<1>5. q * d \in Int
  BY <1>2
<1> QED
  BY <1>2, <1>3, <1>4, <1>5

\* A product with one factor a unit larger.
LEMMA OneMore ==
  ASSUME NEW a \in Int, NEW b \in Int, a < b, NEW k \in Int, k > 0
  PROVE  a * k \in Int /\ b * k \in Int /\ a * k + k <= b * k
<1>1. (b - a) * k >= k
  OBVIOUS
<1>2. (b - a) * k = b * k - a * k
  OBVIOUS
<1> QED
  BY <1>1, <1>2

(***************************************************************************)
(* Whichever way a claim is converted, its two counts differ from the      *)
(* ratio by rounding at most.                                              *)
(***************************************************************************)
LEMMA CountsFollowTheRatio ==
  ASSUME NEW ratio \in Ratio, NEW available \in Nat, NEW left \in Nat,
         NEW matched, NEW consumed,
         LET convertible == unscale_quantity(available, ratio)
             scaled == scale_quantity(matched, ratio)
         IN  /\ matched = IF left < convertible THEN left ELSE convertible
             /\ consumed = IF matched = convertible \/ scaled > available
                             THEN available ELSE scaled
  PROVE  LET error == 2 * (consumed * ratio.den - matched * ratio.num)
             bound == IF ratio.num > ratio.den THEN ratio.num ELSE ratio.den
         IN  error \in -bound .. bound
<1> DEFINE num == ratio.num
           den == ratio.den
           convertible == unscale_quantity(available, ratio)
           scaled == scale_quantity(matched, ratio)
           bound == IF num > den THEN num ELSE den
<1>1. num \in Int /\ num > 0 /\ den \in Int /\ den > 0
  BY DEF Ratio
<1>2. available * den \in Nat
  BY <1>1
<1>3. /\ convertible \in Int
      /\ 2 * (convertible * num) <= 2 * (available * den) + num
      /\ 2 * (available * den) < 2 * (convertible * num) + num
  BY <1>1, <1>2, RoundNearest DEF unscale_quantity
<1> HIDE DEF convertible
<1>4. bound \in Int /\ num <= bound /\ den <= bound
  BY <1>1
<1>5. convertible * num \in Int
  BY <1>1, <1>3
<1>6. SUFFICES 2 * (consumed * den - matched * num) \in -bound .. bound
  OBVIOUS
<1> HIDE DEF num, den, bound
<1>7. CASE matched = convertible
  <2>1. consumed = available
    BY <1>7 DEF convertible
  <2> QED
    BY <1>1, <1>2, <1>3, <1>4, <1>5, <1>7, <2>1
<1>8. CASE matched # convertible
  <2>1. matched = left /\ left < convertible /\ matched \in Nat
    BY <1>3, <1>8 DEF convertible
  <2>2. matched * num \in Nat
    BY <1>1, <2>1
  <2>3. /\ scaled \in Int
        /\ 2 * (scaled * den) <= 2 * (matched * num) + den
        /\ 2 * (matched * num) < 2 * (scaled * den) + den
    BY <1>1, <2>2, RoundNearest DEF scale_quantity, num, den
  <2> HIDE DEF scaled
  <2>4. scaled * den \in Int
    BY <1>1, <2>3
  <2>5. CASE scaled <= available
    <3>1. consumed = scaled
      BY <1>8, <2>3, <2>5 DEF scaled, convertible
    <3> QED
      BY <1>1, <1>4, <2>2, <2>3, <2>4, <3>1
  <2>6. CASE ~(scaled <= available)
    <3>1. consumed = available
      BY <1>8, <2>3, <2>6 DEF scaled, convertible
    <3>2. available * den + den <= scaled * den
      BY <1>1, <2>3, <2>6, OneMore
    <3>3. matched * num + num <= convertible * num
      BY <1>1, <1>3, <2>1, OneMore
    <3> QED
      BY <1>1, <1>2, <1>3, <1>4, <1>5, <2>2, <2>3, <2>4, <3>1, <3>2, <3>3
  <2> QED
    BY <2>5, <2>6
<1> QED
  BY <1>7, <1>8

----------------------------------------------------------------------------
(***************************************************************************)
(* What the search carries is the ratio between the disposal and the day   *)
(* it has reached, unless it passed a reorganisation that has none.        *)
(***************************************************************************)
Looking == {"same_day", "bed_and_breakfast"}
PlannedIn(records, first, last) ==
  {d \in Day : first < d /\ d <= last /\ records[d].split.planned}

RatioOnTheWay ==
  phase \in Looking =>
    /\ ctx.look >= day
    /\ ctx.settled => /\ \A d \in PlannedIn(history, day, ctx.look) :
                            history[d].split.ratio \in Ratio
                      /\ ctx.ratio = RatioOver(history, PlannedIn(history, day, ctx.look))

LEMMA BetweenIsFinite ==
  ASSUME NEW first, NEW last
  PROVE  /\ IsFiniteSet(PlannedIn(history, first, last))
         /\ RatioBetween(first, last) = RatioOver(history, PlannedIn(history, first, last))
<1>1. IsFiniteSet(Day)
  BY HistoryAssumption, FS_Interval DEF Day
<1>2. PlannedIn(history, first, last) \in SUBSET Day
  BY DEF PlannedIn
<1> QED
  BY <1>1, <1>2, FS_Subset DEF RatioBetween, SplitsBetween, RatioOver, PlannedIn

LEMMA RatioStarts ==
  ASSUME TypeOK
  PROVE  PlannedIn(history, day, day) = {} /\ RatioOver(history, PlannedIn(history, day, day)) = Unscaled
<1>1. PlannedIn(history, day, day) = {}
  BY DEF PlannedIn, TypeOK, Day
<1> QED
  BY <1>1, BetweenIsFinite, RatioOverByPick

LEMMA RatioExtends ==
  ASSUME TypeOK, RatioOnTheWay, phase = "bed_and_breakfast", Searching,
         ReachedContext.settled
  PROVE  /\ \A d \in PlannedIn(history, day, SearchDay) : history[d].split.ratio \in Ratio
         /\ ReachedContext.ratio = RatioOver(history, PlannedIn(history, day, SearchDay))
<1> DEFINE found == history[SearchDay]
           old == PlannedIn(history, day, ctx.look)
           new == PlannedIn(history, day, SearchDay)
<1>1. /\ SearchDay \in Day /\ SearchDay > day /\ SearchDay = ctx.look + 1
      /\ ctx.look \in Day /\ day \in Day
  BY SearchDayType, ContextType DEF SearchDay, TypeOK
<1>2. /\ ReachedContext.settled =
           (ctx.settled /\ (found.split.planned => found.split.ratio # NoRatio))
      /\ ReachedContext.ratio =
           IF found.split.planned /\ found.split.ratio # NoRatio
             THEN ComposeRatios(ctx.ratio, found.split.ratio) ELSE ctx.ratio
  <2>1. ctx \in Context
    BY ContextType
  <2> QED
    BY <2>1 DEF ReachedContext, Context
<1>3. ctx.settled /\ (found.split.planned => found.split.ratio \in Ratio)
  BY <1>1, <1>2, SplitType
<1>4. /\ \A d \in old : history[d].split.ratio \in Ratio
      /\ ctx.ratio = RatioOver(history, old)
  BY <1>3, BetweenIsFinite DEF RatioOnTheWay, Looking
<1>5. IsFiniteSet(old) /\ IsFiniteSet(new) /\ RatioOver(history, PlannedIn(history, day, SearchDay)) = RatioOver(history, new)
  BY BetweenIsFinite
<1>6. CASE ~found.split.planned
  <2>1. new = old
    BY <1>1, <1>6 DEF PlannedIn, Day
  <2> QED
    BY <1>2, <1>4, <1>5, <1>6, <2>1
<1>7. CASE found.split.planned
  <2>1. SearchDay \in new /\ new \ {SearchDay} = old
    BY <1>1, <1>7 DEF PlannedIn, Day, RatioOnTheWay
  <2>2. \A d \in new : history[d].split.ratio \in Ratio
    BY <1>3, <1>4, <1>7, <2>1
  <2>3. RatioOver(history, new) = ComposeRatios(found.split.ratio, RatioOver(history, old))
    <3> HIDE DEF new, old
    <3>1. IsFiniteSet(new) /\ SearchDay \in new
          /\ \A d \in new : history[d].split.ratio \in Ratio
      BY <1>5, <2>1, <2>2
    <3>2. RatioOver(history, new)
            = ComposeRatios(history[SearchDay].split.ratio, RatioOver(history, new \ {SearchDay}))
      BY <3>1, RatioOverTake
    <3> QED
      BY <2>1, <3>2
  <2>4. RatioOver(history, old) \in Ratio /\ found.split.ratio \in Ratio
    BY <1>3, <1>4, <1>5, <1>7, RatioOverType
  <2>5. found.split.ratio # NoRatio
    BY <2>4 DEF Ratio, NoRatio
  <2>6. ReachedContext.ratio = ComposeRatios(RatioOver(history, old), found.split.ratio)
    BY <1>2, <1>4, <1>7, <2>5
  <2> HIDE DEF found, old, new
  <2> QED
    BY <1>5, <2>2, <2>3, <2>4, <2>6, ComposeLaws DEF new
<1> QED
  BY <1>6, <1>7

LEMMA RatioFrame ==
  ASSUME RatioOnTheWay, phase \in Looking, UNCHANGED <<history, day>>,
         ctx'.look = ctx.look, ctx'.ratio = ctx.ratio, ctx'.settled = ctx.settled
  PROVE  RatioOnTheWay'
  BY DEF RatioOnTheWay, PlannedIn

LEMMA BeginOnTheWay ==
  ASSUME TypeOK, UNCHANGED <<history, day>>,
         NEW quantity, NEW amount, NEW no_gain_no_loss,
         BeginDisposal(quantity, amount, no_gain_no_loss)
  PROVE  RatioOnTheWay'
<1>1. ctx'.look = day /\ ctx'.ratio = Unscaled
  BY DEF BeginDisposal, DisposalContext
<1>2. PlannedIn(history, day, day) = {} /\ RatioOver(history, PlannedIn(history, day, day)) = Unscaled
  BY RatioStarts
<1>3. day \in Int
  BY DEF TypeOK, Day
<1>4. PlannedIn(history, day, day)' = {} /\ RatioOver(history, PlannedIn(history, day, day))' = Unscaled
  BY <1>2 DEF PlannedIn
<1> QED
  BY <1>1, <1>3, <1>4 DEF RatioOnTheWay, PlannedIn

LEMMA StepOnTheWay == Sound /\ RatioOnTheWay /\ [Next]_vars => RatioOnTheWay'
<1> SUFFICES ASSUME Sound, RatioOnTheWay, [Next]_vars
             PROVE  RatioOnTheWay'
  OBVIOUS
<1>1. TypeOK
  BY DEF Sound
<1>2. CASE StartSale
  BY <1>1, <1>2, BeginOnTheWay DEF StartSale, RatioOnTheWay, Looking
<1>3. CASE StartTransfer
  BY <1>1, <1>3, BeginOnTheWay DEF StartTransfer, RatioOnTheWay, Looking
<1>4. CASE MatchSameDay
  <2>1. ctx'.look = ctx.look /\ ctx'.ratio = ctx.ratio /\ ctx'.settled = ctx.settled
    BY <1>1, <1>4, ContextType DEF MatchSameDay, Identify, Context
  <2> QED
    BY <1>4, <2>1, RatioFrame DEF MatchSameDay, Looking
<1>5. CASE SearchPassesDay
  <2>1. /\ Searching /\ phase = "bed_and_breakfast" /\ ctx' = ReachedContext
        /\ UNCHANGED <<history, day>> /\ ReachedContext.look = SearchDay
    BY <1>1, <1>5, ReachedContextType DEF SearchPassesDay
  <2>2. SearchDay > day /\ SearchDay \in Day /\ day \in Day
    BY <1>1, <2>1, SearchDayType DEF TypeOK
  <2> QED
    BY <1>1, <2>1, <2>2, RatioExtends DEF RatioOnTheWay, PlannedIn, Day
<1>6. CASE SearchMatchesDay
  <2>1. /\ Searching /\ phase = "bed_and_breakfast"
        /\ ctx'.look = SearchDay /\ ctx'.ratio = ReachedContext.ratio
        /\ ctx'.settled = ReachedContext.settled
        /\ UNCHANGED <<history, day>>
    <3>1. Searching /\ ReachedContext \in Context /\ ReachedContext.look = SearchDay
      BY <1>1, <1>6, ReachedContextType DEF SearchMatchesDay
    <3> QED
      BY <1>6, <3>1 DEF SearchMatchesDay, Claim, Context
  <2>2. SearchDay > day /\ SearchDay \in Day /\ day \in Day
    BY <1>1, <2>1, SearchDayType DEF TypeOK
  <2> QED
    BY <1>1, <2>1, <2>2, RatioExtends DEF RatioOnTheWay, PlannedIn, Day
<1> QED
  BY <1>2, <1>3, <1>4, <1>5, <1>6 DEF Next, OpenDay, ProcessAcquisition,
     RecordSplitReconciliations, SearchRefusesDay, EndSearch, MatchSection104,
     FinishDisposal, CloseDay, Recalculate, vars, RatioOnTheWay,
     PlannedIn, Looking

(***************************************************************************)
(* A claim across reorganisations takes of the acquisition the shares the  *)
(* disposal gave up, to rounding: _match_across_splits.                    *)
(***************************************************************************)
THEOREM ClaimsAlwaysFollowTheRatio == Spec => ClaimsFollowTheRatio
<1> DEFINE Followed ==
      phase = "bed_and_breakfast" /\ bnb_list' # bnb_list =>
       LET ratio    == RatioBetween(day, ctx'.look)
           matched  == ctx.left - ctx'.left
           consumed == bnb_list'[ctx'.look].quantity - bnb_list[ctx'.look].quantity
           error    == 2 * (consumed * ratio.den - matched * ratio.num)
           bound    == IF ratio.num > ratio.den THEN ratio.num ELSE ratio.den
       IN  /\ \A d \in SplitsBetween(day, ctx'.look) : history[d].split.ratio # NoRatio
           /\ matched > 0 /\ consumed > 0
           /\ error \in -bound .. bound
<1>1. ASSUME Sound, RatioOnTheWay, Next
      PROVE  Followed
  <2> SUFFICES ASSUME phase = "bed_and_breakfast", bnb_list' # bnb_list
               PROVE  Followed
    OBVIOUS
  <2> DEFINE available == Available(SearchDay)
             matched == MatchedUnits(ReachedContext, available)
             consumed == ConsumedUnits(ReachedContext, available)
             ratio == ReachedContext.ratio
             bound == IF ratio.num > ratio.den THEN ratio.num ELSE ratio.den
  <2>1. /\ Searching /\ TypeOK /\ available # 0
        /\ ~Inexpressible(ReachedContext, available)
        /\ Claim(ReachedContext, matched, consumed)
    BY <1>1 DEF Next, OpenDay, ProcessAcquisition, RecordSplitReconciliations,
       StartSale, StartTransfer, MatchSameDay, SearchPassesDay, SearchRefusesDay,
       SearchMatchesDay, EndSearch, MatchSection104, FinishDisposal, CloseDay,
       Recalculate, Sound
  <2>2. /\ ReachedContext \in Context /\ ReachedContext.look = SearchDay
        /\ SearchDay \in Day /\ ratio \in Ratio /\ ReachedContext.settled
    BY <2>1, ReachedContextType, SearchDayType DEF Context, Inexpressible
  <2>3. /\ matched \in Int /\ matched > 0 /\ consumed \in Int /\ consumed > 0
        /\ available \in Int /\ consumed <= available
        /\ bnb_list[SearchDay].quantity \in Nat
    <3>1. /\ matched \in Int /\ matched > 0 /\ consumed \in Int /\ consumed > 0
          /\ history[SearchDay].purchased.quantity > 0
          /\ bnb_list[SearchDay].quantity + consumed + SameDayClaims(history[SearchDay])
               <= history[SearchDay].purchased.quantity
      BY <2>1, MatchedUnitsBounds
    <3>2. /\ history[SearchDay].purchased.quantity \in Nat
          /\ SameDayClaims(history[SearchDay]) \in Nat
          /\ bnb_list[SearchDay].quantity \in Nat
      BY <2>1, <2>2, DayType, ClaimType DEF SameDayClaims
    <3> HIDE DEF consumed, matched
    <3> QED
      BY <3>1, <3>2 DEF Available
  <2>4. ctx.left \in Nat
    BY <2>1, ContextType, SearchDayType
  <2>5. 2 * (consumed * ratio.den - matched * ratio.num) \in -bound .. bound
    <3>1. /\ matched = IF ctx.left < unscale_quantity(available, ratio)
                         THEN ctx.left ELSE unscale_quantity(available, ratio)
          /\ consumed = IF \/ matched = unscale_quantity(available, ratio)
                           \/ scale_quantity(matched, ratio) > available
                          THEN available ELSE scale_quantity(matched, ratio)
      BY DEF MatchedUnits, ConsumedUnits
    <3>2. available \in Nat
      BY <2>3
    <3> HIDE DEF available, matched, consumed, ratio
    <3> QED
      BY <2>2, <2>4, <3>1, <3>2, CountsFollowTheRatio
  <2>6. ratio = RatioBetween(day, SearchDay)
    BY <1>1, <2>1, <2>2, RatioExtends, BetweenIsFinite
  <2>7. \A d \in SplitsBetween(day, SearchDay) : history[d].split.ratio # NoRatio
    <3>1. \A d \in SplitsBetween(day, SearchDay) : history[d].split.ratio \in Ratio
      BY <1>1, <2>1, <2>2, RatioExtends DEF SplitsBetween, PlannedIn
    <3> QED
      BY <3>1 DEF Ratio, NoRatio
  <2>8. ctx'.look = SearchDay /\ ctx'.left = ctx.left - matched
    BY <2>1, <2>2, ContextType DEF Claim, Identify, Context
  <2>9. bnb_list'[SearchDay].quantity = bnb_list[SearchDay].quantity + consumed
    BY <2>1, <2>2, <2>3 DEF Claim, ClaimedDay, TypeOK
  <2> HIDE DEF matched, consumed, available, ratio
  <2>10. ctx.left - ctx'.left = matched
    BY <2>3, <2>4, <2>8
  <2>11. bnb_list'[ctx'.look].quantity - bnb_list[ctx'.look].quantity = consumed
    BY <2>3, <2>8, <2>9
  <2> QED
    BY <2>3, <2>5, <2>6, <2>7, <2>8, <2>10, <2>11
<1>2. Sound /\ RatioOnTheWay /\ [Next]_vars => [Followed]_vars
  BY <1>1
<1>3. Init => RatioOnTheWay
  BY DEF Init, RatioOnTheWay, Looking
<1> QED
  BY <1>2, <1>3, InitSound, StepSound, StepOnTheWay, PTL DEF Spec, ClaimsFollowTheRatio
----------------------------------------------------------------------------
(***************************************************************************)
(* Assertions.  The walk asserts that a pool of no units has no cost, that *)
(* a disposal's parts add up to it, that a transfer makes no gain and that *)
(* it never gives up more than is held.  The first holds because every     *)
(* cost sits on the ten-decimal grid, where a share of the whole is the    *)
(* whole.                                                                  *)
(***************************************************************************)
OnGrid(amount) == \E k \in Int : amount = GRID * k
ReportsOnGrid == \A d \in Day : OnGrid(history[d].eri)

Balanced(c) ==
  /\ OnGrid(c.cost)
  /\ IF c.no_gain_no_loss THEN c.gain = 0
     ELSE /\ c.proceeds + c.amount_left = c.amount
          /\ c.left = 0 => c.amount_left = 0

Faultless ==
  /\ phase # "fault"
  /\ Accepted(history) /\ ReportsOnGrid
  /\ OnGrid(portfolio.amount)
  /\ phase \in Identifying => Balanced(ctx)
  /\ phase = "finish" => ctx.left = 0

Unfailing == Agreed /\ OnceEach /\ Faultless

LEMMA GridLaws ==
  /\ OnGrid(0)
  /\ \A a, b : OnGrid(a) /\ OnGrid(b) => OnGrid(a + b) /\ OnGrid(a - b)
  /\ \A a, n : OnGrid(a) /\ n \in Int => OnGrid(n * a)
  /\ \A a : OnGrid(a) => a \in Int
<1>1. GRID \in Int /\ GRID > 0
  BY AmountsAssumption
<1>2. OnGrid(0)
  <2>1. 0 = GRID * 0
    BY <1>1
  <2> QED
    BY <2>1 DEF OnGrid
<1>3. ASSUME NEW a, NEW b, OnGrid(a), OnGrid(b)
      PROVE  OnGrid(a + b) /\ OnGrid(a - b)
  <2>1. PICK k \in Int, m \in Int : a = GRID * k /\ b = GRID * m
    BY <1>3 DEF OnGrid
  <2>2. a + b = GRID * (k + m) /\ a - b = GRID * (k - m)
    BY <1>1, <2>1
  <2>3. k + m \in Int /\ k - m \in Int
    OBVIOUS
  <2> QED
    BY <2>2, <2>3 DEF OnGrid
<1>4. ASSUME NEW a, NEW n, OnGrid(a), n \in Int
      PROVE  OnGrid(n * a)
  <2>1. PICK k \in Int : a = GRID * k
    BY <1>4 DEF OnGrid
  <2>2. n * a = GRID * (n * k) /\ n * k \in Int
    BY <1>1, <1>4, <2>1
  <2> QED
    BY <2>2 DEF OnGrid
<1>5. \A a : OnGrid(a) => a \in Int
  BY <1>1 DEF OnGrid
<1> QED
  BY <1>2, <1>3, <1>4, <1>5

LEMMA NormalizedOnGrid ==
  ASSUME NEW n \in Int, NEW d \in Int, d > 0
  PROVE  OnGrid(normalize_amount(n, d))
<1>1. GRID \in Int /\ GRID > 0
  BY AmountsAssumption
<1>2. d * GRID \in Int /\ d * GRID > 0
  BY <1>1
<1>3. RoundHalfUp(n, d * GRID) \in Int
  BY <1>2, RoundHalfUpType
<1> QED
  BY <1>3 DEF normalize_amount, OnGrid

\* What divides evenly is not rounded.
LEMMA RoundExact ==
  ASSUME NEW k \in Int, NEW d \in Int, d > 0
  PROVE  RoundHalfUp(d * k, d) = k
<1>1. d * k \in Int
  OBVIOUS
<1>2. CASE d * k >= 0
  <2>1. RoundHalfUp(d * k, d) = (2 * (d * k) + d) \div (2 * d)
    BY <1>2 DEF RoundHalfUp
  <2> DEFINE q == (2 * (d * k) + d) \div (2 * d)
  <2>2. 2 * (d * k) + d \in Int /\ 2 * d \in Int /\ 2 * d > 0
    BY <1>1
  <2>3. q \in Int /\ (2 * d) * q <= 2 * (d * k) + d /\ 2 * (d * k) + d < (2 * d) * q + 2 * d
    BY <2>2, DivisionBounds
  <2> HIDE DEF q
  <2>4. q = k
    <3>1. CASE q < k
      <4>1. q * d + d <= k * d
        BY <2>3, <3>1, OneMore
      <4>2. (2 * d) * q = 2 * (q * d) /\ d * k = k * d /\ q * d \in Int
        BY <2>3
      <4> QED
        BY <1>1, <2>3, <4>1, <4>2
    <3>2. CASE k < q
      <4>1. k * d + d <= q * d
        BY <2>3, <3>2, OneMore
      <4>2. (2 * d) * q = 2 * (q * d) /\ d * k = k * d /\ q * d \in Int
        BY <2>3
      <4> QED
        BY <1>1, <2>3, <4>1, <4>2
    <3> QED
      BY <2>3, <3>1, <3>2
  <2> QED
    BY <2>1, <2>4 DEF q
<1>3. CASE ~(d * k >= 0)
  <2> DEFINE q == (d - 2 * (d * k)) \div (2 * d)
  <2>1. RoundHalfUp(d * k, d) = -q
    BY <1>3 DEF RoundHalfUp
  <2>2. d - 2 * (d * k) \in Int /\ 2 * d \in Int /\ 2 * d > 0
    BY <1>1
  <2>3. q \in Int /\ (2 * d) * q <= d - 2 * (d * k) /\ d - 2 * (d * k) < (2 * d) * q + 2 * d
    BY <2>2, DivisionBounds
  <2> HIDE DEF q
  <2>4. q = -k
    <3>1. CASE q < -k
      <4>1. q * d + d <= (-k) * d
        BY <2>3, <3>1, OneMore
      <4>2. (2 * d) * q = 2 * (q * d) /\ (-k) * d = -(d * k) /\ q * d \in Int
        BY <2>3
      <4> QED
        BY <1>1, <2>3, <4>1, <4>2
    <3>2. CASE -k < q
      <4>1. (-k) * d + d <= q * d
        BY <2>3, <3>2, OneMore
      <4>2. (2 * d) * q = 2 * (q * d) /\ (-k) * d = -(d * k) /\ q * d \in Int
        BY <2>3
      <4> QED
        BY <1>1, <2>3, <4>1, <4>2
    <3> QED
      BY <2>3, <3>1, <3>2
  <2> QED
    BY <2>1, <2>4
<1> QED
  BY <1>2, <1>3

\* The share of a cost on the grid that falls to all of the units is all of it.
LEMMA WholeCost ==
  ASSUME NEW units \in Int, units > 0, NEW cost, OnGrid(cost)
  PROVE  normalize_amount(units * cost, units) = cost
<1>1. GRID \in Int /\ GRID > 0
  BY AmountsAssumption
<1>2. PICK k \in Int : cost = GRID * k
  BY DEF OnGrid
<1>3. units * GRID \in Int /\ units * GRID > 0
  BY <1>1
<1>4. units * cost = (units * GRID) * k
  BY <1>1, <1>2
<1>5. RoundHalfUp((units * GRID) * k, units * GRID) = k
  BY <1>3, RoundExact
<1> QED
  BY <1>2, <1>4, <1>5 DEF normalize_amount

LEMMA NormalizeNothing == normalize_amount(0, 1) = 0
<1>1. OnGrid(0)
  BY GridLaws
<1>2. normalize_amount(1 * 0, 1) = 0
  BY <1>1, WholeCost
<1> QED
  BY <1>2

\* A part that is identified keeps the sums of the disposal.
LEMMA IdentifyBalances ==
  ASSUME TypeOK, Balanced(ctx),
         NEW units \in Int, units = ctx.left \/ ctx.quantity > 0,
         NEW allowable \in Int, NEW removed, OnGrid(removed)
  PROVE  LET after == Identify(units, allowable, removed)
         IN  /\ Balanced(after)
             /\ after.left = ctx.left - units
             /\ after.held = ctx.held - units
             /\ after.cost = ctx.cost - removed
             /\ after.no_gain_no_loss = ctx.no_gain_no_loss
             /\ after.amount = ctx.amount
<1> DEFINE after == Identify(units, allowable, removed)
           deemed == IF ctx.no_gain_no_loss THEN allowable ELSE TakeShare(units)
<1>1. TakeShare(units) \in Int /\ removed \in Int /\ deemed \in Int
  BY TakeShareType, GridLaws
<1>2. units = ctx.left => TakeShare(units) = ctx.amount_left
  BY DEF TakeShare
<1>3. /\ after.left = ctx.left - units
      /\ after.amount_left = ctx.amount_left - TakeShare(units)
      /\ after.held = ctx.held - units
      /\ after.cost = ctx.cost - removed
      /\ after.proceeds = ctx.proceeds + deemed
      /\ after.gain = ctx.gain + deemed - allowable
      /\ after.no_gain_no_loss = ctx.no_gain_no_loss
      /\ after.amount = ctx.amount
  BY ContextType DEF Identify, Context
<1>4. OnGrid(after.cost)
  <2>1. OnGrid(ctx.cost - removed)
    BY GridLaws DEF Balanced
  <2> QED
    BY <1>3, <2>1
<1> DEFINE amount == ctx.amount
           proceeds == ctx.proceeds
           amount_left == ctx.amount_left
           gain == ctx.gain
           share == TakeShare(units)
<1>5. /\ amount \in Int /\ proceeds \in Int /\ amount_left \in Int /\ gain \in Int
      /\ share \in Int /\ deemed \in Int /\ ctx.left \in Int
      /\ after.proceeds = proceeds + deemed /\ after.amount_left = amount_left - share
      /\ after.gain = gain + deemed - allowable /\ after.amount = amount
      /\ ctx.no_gain_no_loss => deemed = allowable /\ gain = 0
      /\ ~ctx.no_gain_no_loss => deemed = share /\ proceeds + amount_left = amount
  BY <1>1, <1>3, ContextType DEF Balanced
<1> HIDE DEF after, deemed, amount, proceeds, amount_left, gain, share
<1>6. CASE ctx.no_gain_no_loss
  <2>1. after.gain = 0
    BY <1>5, <1>6
  <2> QED
    BY <1>3, <1>4, <1>6, <2>1 DEF Balanced, after
<1>7. CASE ~ctx.no_gain_no_loss
  <2>1. after.proceeds + after.amount_left = after.amount
    BY <1>5, <1>7
  <2>2. after.left = 0 => after.amount_left = 0
    <3>1. after.left = 0 => units = ctx.left
      BY <1>3, <1>5
    <3>2. units = ctx.left => share = amount_left
      BY <1>2 DEF share, amount_left
    <3> QED
      BY <1>5, <3>1, <3>2
  <2>3. ~after.no_gain_no_loss
    BY <1>3, <1>7
  <2> QED
    BY <1>3, <1>4, <2>1, <2>2, <2>3 DEF Balanced, after
<1> QED
  BY <1>3, <1>6, <1>7 DEF after

\* What an action leaves alone is still in order.
LEMMA FaultlessKept ==
  ASSUME Faultless, UNCHANGED history, phase' # "fault", OnGrid(portfolio'.amount),
         phase' \in Identifying => Balanced(ctx'),
         phase' = "finish" => ctx'.left = 0
  PROVE  Faultless'
  BY DEF Faultless, Accepted, Holding, ReportsOnGrid

LEMMA PortfolioType ==
  ASSUME Sound
  PROVE  /\ portfolio \in Position
         /\ portfolio.quantity \in Nat /\ portfolio.amount \in Int
  BY DEF Sound, TypeOK, Counts, Position

LEMMA InitFaultless == Init /\ Accepted(history) /\ ReportsOnGrid => Faultless
<1>1. OnGrid(NoPosition.amount)
  BY GridLaws DEF NoPosition
<1> QED
  BY <1>1 DEF Init, Faultless, Identifying

LEMMA OpenDayFaultless == Unfailing /\ OpenDay => Faultless'
<1> SUFFICES ASSUME Unfailing, OpenDay
             PROVE  Faultless'
  OBVIOUS
<1>1. /\ Faultless /\ Sound /\ UNCHANGED history
      /\ phase' \in {"refused", "acquire"}
  BY DEF Unfailing, OnceEach, OpenDay
<1>2. portfolio'.amount = portfolio.amount
  BY <1>1, PortfolioType DEF OpenDay, Position
<1> QED
  BY <1>1, <1>2, FaultlessKept DEF Faultless, Identifying

LEMMA ProcessAcquisitionFaultless ==
  Unfailing /\ RepurchaseBasisNotNegative /\ ProcessAcquisition => Faultless'
<1> SUFFICES ASSUME Unfailing, RepurchaseBasisNotNegative, ProcessAcquisition
             PROVE  Faultless'
  OBVIOUS
<1>1. /\ Faultless /\ Sound /\ TypeOK /\ OwnDayComesFirst
      /\ phase = "acquire" /\ UNCHANGED history
  BY DEF Unfailing, OnceEach, Sound, ProcessAcquisition
<1>2. ~AcquisitionBreaks
  <2>1. /\ bnb_list[day].quantity \in Nat /\ day \in Day
        /\ today.purchased.quantity \in Nat /\ SameDayClaims(today) \in Nat
    BY <1>1, TodayType, SameDayClaimsType
  <2>2. bnb_list[day].quantity > 0 =>
          bnb_list[day].quantity + SameDayClaims(today) <= today.purchased.quantity
    BY <1>1, <2>1 DEF OwnDayComesFirst, today
  <2>3. ModifiedAmount(today, bnb_list[day]) \in Int
    BY <1>1, <2>1, ModifiedAmountType DEF today
  <2>4. ~(ModifiedAmount(today, bnb_list[day]) < 0)
    BY <1>1, <2>3 DEF RepurchaseBasisNotNegative
  <2>5. ~(bnb_list[day].quantity > today.purchased.quantity)
    BY <2>1, <2>2
  <2> QED
    BY <2>4, <2>5 DEF AcquisitionBreaks
<1>3. phase' \in {"refused", "reconcile"}
  BY <1>2 DEF ProcessAcquisition
<1>4. OnGrid(portfolio'.amount)
  <2>1. CASE portfolio' = portfolio
    BY <1>1, <2>1 DEF Faultless
  <2>2. CASE portfolio' = AddToPosition(portfolio, TotalQuantity(today),
                                        ModifiedAmount(today, bnb_list[day]))
    <3> DEFINE amount == ModifiedAmount(today, bnb_list[day])
    <3>1. amount \in Int /\ portfolio.amount \in Int
      BY <1>1, TodayType, ModifiedAmountType, PortfolioType
    <3> HIDE DEF amount
    <3>2. portfolio'.amount = normalize_amount(portfolio.amount + amount, 1)
      BY <2>2 DEF AddToPosition, amount
    <3> QED
      BY <3>1, <3>2, NormalizedOnGrid
  <2> QED
    BY <2>1, <2>2 DEF ProcessAcquisition
<1> QED
  BY <1>1, <1>3, <1>4, FaultlessKept DEF Identifying

LEMMA RecordSplitReconciliationsFaultless ==
  Unfailing /\ RecordSplitReconciliations => Faultless'
<1> SUFFICES ASSUME Unfailing, RecordSplitReconciliations
             PROVE  Faultless'
  OBVIOUS
<1>1. /\ Faultless /\ Sound /\ UNCHANGED history
      /\ phase' \in {"refused", "dispose"}
  BY DEF Unfailing, OnceEach, RecordSplitReconciliations
<1>2. portfolio'.amount = portfolio.amount
  BY <1>1, PortfolioType DEF RecordSplitReconciliations, Position
<1> QED
  BY <1>1, <1>2, FaultlessKept DEF Faultless, Identifying

\* A day the first pass accepted gives up no more than it has.
LEMMA AcceptedDay ==
  ASSUME Sound, Accepted(history)
  PROVE  /\ Closing >= 0
         /\ today.disposed.quantity + today.transferred <= Supply
<1>1. Closing >= 0
  BY CountTypes DEF Accepted, Closing
<1> QED
  BY <1>1, CountTypes

LEMMA BeginBalanced ==
  ASSUME Sound, Faultless, NEW quantity \in Nat, NEW amount \in Int,
         NEW no_gain_no_loss \in BOOLEAN, quantity > 0,
         quantity <= portfolio.quantity,
         BeginDisposal(quantity, amount, no_gain_no_loss)
  PROVE  phase' = "same_day" /\ Balanced(ctx')
<1>1. /\ ctx'.cost = portfolio.amount /\ ctx'.no_gain_no_loss = no_gain_no_loss
      /\ ctx'.gain = 0 /\ ctx'.proceeds = 0 /\ ctx'.amount_left = amount
      /\ ctx'.amount = amount /\ ctx'.left = quantity
  BY DEF BeginDisposal, DisposalContext
<1>2. phase' = "same_day"
  BY DEF BeginDisposal
<1> QED
  BY <1>1, <1>2 DEF Balanced, Faultless

LEMMA StartSaleFaultless == Unfailing /\ StartSale => Faultless'
<1> SUFFICES ASSUME Unfailing, StartSale
             PROVE  Faultless'
  OBVIOUS
<1>1. /\ Faultless /\ Sound /\ TypeOK /\ phase = "dispose"
      /\ UNCHANGED <<history, portfolio>> /\ Accepted(history)
      /\ portfolio.quantity = Supply /\ OnGrid(portfolio'.amount)
  BY DEF Unfailing, Agreed, CountsAgree, Faultless, Sound, StartSale
<1>2. CASE today.disposed.quantity > 0
  <2>1. BeginDisposal(today.disposed.quantity, today.disposed.amount, FALSE)
    BY <1>2 DEF StartSale
  <2>2. today.disposed.quantity \in Nat /\ today.disposed.amount \in Int
    BY <1>1, DayType DEF TypeOK, today
  <2>3. today.disposed.quantity <= portfolio.quantity
    BY <1>1, AcceptedDay, CountTypes
  <2>4. phase' = "same_day" /\ Balanced(ctx')
    BY <1>1, <1>2, <2>1, <2>2, <2>3, BeginBalanced
  <2> QED
    BY <1>1, <2>4, FaultlessKept
<1>3. CASE ~(today.disposed.quantity > 0)
  <2>1. phase' = "transfer"
    BY <1>3 DEF StartSale
  <2> QED
    BY <1>1, <2>1, FaultlessKept DEF Identifying
<1> QED
  BY <1>2, <1>3

LEMMA StartTransferFaultless == Unfailing /\ StartTransfer => Faultless'
<1> SUFFICES ASSUME Unfailing, StartTransfer
             PROVE  Faultless'
  OBVIOUS
<1>1. /\ Faultless /\ Sound /\ TypeOK /\ phase = "transfer"
      /\ UNCHANGED <<history, portfolio>> /\ Accepted(history)
      /\ portfolio.quantity = Supply - today.disposed.quantity
      /\ OnGrid(portfolio'.amount)
  BY DEF Unfailing, Agreed, CountsAgree, Faultless, Sound, StartTransfer
<1>2. CASE today.transferred # 0 /\ BeginDisposal(today.transferred, 0, TRUE)
  <2>1. today.transferred \in Nat /\ today.transferred > 0 /\ 0 \in Int /\ TRUE \in BOOLEAN
    BY <1>1, <1>2, DayType DEF TypeOK, today
  <2>2. today.transferred <= portfolio.quantity
    BY <1>1, AcceptedDay, CountTypes
  <2>3. phase' = "same_day" /\ Balanced(ctx')
    BY <1>1, <1>2, <2>1, <2>2, BeginBalanced, Zenon
  <2> QED
    BY <1>1, <2>3, FaultlessKept
<1>3. CASE phase' \in {"close", "refused"}
  BY <1>1, <1>3, FaultlessKept DEF Identifying
<1> QED
  BY <1>2, <1>3 DEF StartTransfer

LEMMA MatchSameDayFaultless == Unfailing /\ MatchSameDay => Faultless'
<1> SUFFICES ASSUME Unfailing, MatchSameDay
             PROVE  Faultless'
  OBVIOUS
<1> DEFINE purchased == today.purchased
           units == IF ctx.left < purchased.quantity THEN ctx.left
                    ELSE purchased.quantity
           cost == normalize_amount(units * purchased.amount, purchased.quantity)
<1>1. /\ Faultless /\ Sound /\ TypeOK /\ phase = "same_day"
      /\ phase' = "bed_and_breakfast" /\ UNCHANGED <<history, portfolio>>
      /\ Balanced(ctx) /\ OnGrid(portfolio'.amount)
  BY DEF Unfailing, Agreed, Faultless, Sound, MatchSameDay, Identifying
<1>2. Balanced(ctx')
  <2>1. CASE units > 0
    <3>1. ctx' = Identify(units, cost, cost)
      BY <2>1 DEF MatchSameDay
    <3>2. /\ purchased.quantity \in Nat /\ purchased.amount \in Nat
          /\ ctx.left \in Int /\ ctx.quantity \in Nat /\ ctx.left <= ctx.quantity
      BY <1>1, DayType, ContextType
         DEF Sound, Counts, TypeOK, today, Identifying
    <3>3. units \in Int /\ purchased.quantity > 0 /\ ctx.quantity > 0
      BY <2>1, <3>2
    <3>4. units * purchased.amount \in Int /\ purchased.quantity \in Int
      BY <3>2, <3>3
    <3>5. cost \in Int /\ OnGrid(cost)
      BY <3>3, <3>4, NormalizedOnGrid, GridLaws
    <3> HIDE DEF units, cost
    <3> QED
      BY <1>1, <3>1, <3>3, <3>5, IdentifyBalances
  <2>2. CASE ~(units > 0)
    <3>1. ctx' = ctx
      BY <2>2 DEF MatchSameDay
    <3> QED
      BY <1>1, <3>1
  <2> QED
    BY <2>1, <2>2
<1> QED
  BY <1>1, <1>2, FaultlessKept

LEMMA SearchFaultless ==
  Unfailing /\ (SearchPassesDay \/ SearchRefusesDay \/ EndSearch) => Faultless'
<1> SUFFICES ASSUME Unfailing, SearchPassesDay \/ SearchRefusesDay \/ EndSearch
             PROVE  Faultless'
  OBVIOUS
<1>1. /\ Faultless /\ Sound /\ TypeOK /\ phase = "bed_and_breakfast"
      /\ UNCHANGED <<history, portfolio>>
      /\ Balanced(ctx) /\ OnGrid(portfolio'.amount)
  BY DEF Unfailing, Agreed, Faultless, Sound, SearchPassesDay, SearchRefusesDay,
         EndSearch, Identifying
<1>2. CASE SearchPassesDay
  <2>1. ctx' = ReachedContext /\ phase' = phase
    BY <1>2 DEF SearchPassesDay
  <2>2. /\ ctx'.cost = ctx.cost /\ ctx'.no_gain_no_loss = ctx.no_gain_no_loss
        /\ ctx'.gain = ctx.gain /\ ctx'.proceeds = ctx.proceeds
        /\ ctx'.amount_left = ctx.amount_left /\ ctx'.amount = ctx.amount
        /\ ctx'.left = ctx.left
    BY <1>1, <2>1, ContextType DEF ReachedContext, Context
  <2>3. Balanced(ctx')
    BY <1>1, <2>2 DEF Balanced
  <2> QED
    BY <1>1, <2>1, <2>3, FaultlessKept
<1>3. CASE SearchRefusesDay
  <2>1. phase' = "refused"
    BY <1>3 DEF SearchRefusesDay
  <2> QED
    BY <1>1, <2>1, FaultlessKept DEF Identifying
<1>4. CASE EndSearch
  <2>1. phase' = "section_104" /\ ctx' = ctx
    BY <1>4 DEF EndSearch
  <2> QED
    BY <1>1, <2>1, FaultlessKept
<1> QED
  BY <1>2, <1>3, <1>4

\* The last units of the pool take all of its cost with them.
LEMMA LastUnitsTakeTheCost ==
  ASSUME NEW units \in Int, units > 0, NEW held \in Int, units <= held,
         NEW cost, OnGrid(cost), held - units = 0
  PROVE  cost - normalize_amount(units * cost, held) = 0
<1>1. units = held
  OBVIOUS
<1>2. normalize_amount(units * cost, units) = cost
  BY WholeCost
<1>3. cost \in Int
  BY GridLaws
<1> QED
  BY <1>1, <1>2, <1>3

LEMMA SearchMatchesDayFaultless == Unfailing /\ SearchMatchesDay => Faultless'
<1> SUFFICES ASSUME Unfailing, SearchMatchesDay
             PROVE  Faultless'
  OBVIOUS
<1> DEFINE reached == ReachedContext
           matched == MatchedUnits(ReachedContext, Available(SearchDay))
           consumed == ConsumedUnits(ReachedContext, Available(SearchDay))
           record == history[reached.look]
           allowable == ShareOfCost(consumed, record.purchased.quantity,
                                    record.purchased.amount)
           delta == normalize_amount(matched * ctx.cost, ctx.held)
           after == Identify(matched, allowable, delta)
<1>1. /\ Faultless /\ Sound /\ TypeOK /\ phase = "bed_and_breakfast"
      /\ UNCHANGED <<history, portfolio>>
      /\ Balanced(ctx) /\ OnGrid(portfolio'.amount)
      /\ TypeOK /\ Searching /\ Available(SearchDay) # 0
      /\ ~Inexpressible(ReachedContext, Available(SearchDay))
      /\ Claim(ReachedContext, matched, consumed)
  BY DEF Unfailing, Agreed, Faultless, Sound, SearchMatchesDay, Identifying
<1>2. /\ ctx.left \in Int /\ ctx.held \in Int /\ ctx.quantity \in Nat
      /\ ctx.left <= ctx.held /\ ctx.left <= ctx.quantity /\ OnGrid(ctx.cost)
      /\ ctx.cost \in Int
  BY <1>1, ContextType
     DEF Sound, Counts, PoolCoversDisposal, Identifying, Balanced
<1>3. /\ matched \in Int /\ matched > 0 /\ matched <= ctx.left
      /\ consumed \in Int /\ consumed > 0
      /\ history[SearchDay].purchased.quantity > 0
  BY <1>1, MatchedUnitsBounds
<1>4. ctx' = [reached EXCEPT
               !.left = after.left, !.amount_left = after.amount_left,
               !.held = after.held, !.cost = after.cost,
               !.proceeds = after.proceeds, !.gain = after.gain,
               !.base = after.base]
      /\ phase' = IF after.held = 0 /\ after.cost # 0 THEN "fault"
                  ELSE "bed_and_breakfast"
  BY <1>1 DEF Claim
<1>5. /\ SearchDay \in Day /\ reached \in Context /\ reached.look = SearchDay
      /\ reached.no_gain_no_loss = ctx.no_gain_no_loss
      /\ reached.amount = ctx.amount
  BY <1>1, SearchDayType, ReachedContextType, ContextType DEF ReachedContext, Context
<1>6. allowable \in Int
  <2>1. record = history[SearchDay]
    BY <1>5
  <2>2. /\ record.purchased.quantity \in Int /\ record.purchased.quantity > 0
        /\ record.purchased.amount \in Int
    BY <1>1, <1>3, <1>5, <2>1, DayType
  <2> HIDE DEF record, consumed
  <2> QED
    BY <1>3, <2>2, ShareOfCostType
<1>7. OnGrid(delta)
  <2>1. matched * ctx.cost \in Int /\ ctx.held > 0
    BY <1>2, <1>3
  <2> HIDE DEF matched
  <2> QED
    BY <1>2, <2>1, NormalizedOnGrid
<1>8. delta \in Int /\ ctx.quantity > 0
  BY <1>2, <1>3, <1>7, GridLaws
<1> HIDE DEF reached, record, allowable, matched, consumed
<1>9. ctx.held - matched = 0 => ctx.cost - delta = 0
  BY <1>2, <1>3, LastUnitsTakeTheCost
<1> HIDE DEF delta
<1>10. /\ after \in Context
       /\ Balanced(after) /\ after.held = ctx.held - matched
       /\ after.cost = ctx.cost - delta
       /\ after.no_gain_no_loss = ctx.no_gain_no_loss /\ after.amount = ctx.amount
  BY <1>1, <1>3, <1>6, <1>7, <1>8, IdentifyBalances, IdentifyType
<1> HIDE DEF after
<1>11. phase' = "bed_and_breakfast"
  BY <1>4, <1>9, <1>10
<1>12. /\ ctx'.left = after.left /\ ctx'.amount_left = after.amount_left
       /\ ctx'.cost = after.cost /\ ctx'.proceeds = after.proceeds
       /\ ctx'.gain = after.gain /\ ctx'.amount = after.amount
       /\ ctx'.no_gain_no_loss = after.no_gain_no_loss
  BY <1>4, <1>5, <1>10 DEF Context
<1>13. Balanced(ctx')
  BY <1>10, <1>12 DEF Balanced
<1> QED
  BY <1>1, <1>11, <1>13, FaultlessKept

LEMMA MatchSection104Faultless == Unfailing /\ MatchSection104 => Faultless'
<1> SUFFICES ASSUME Unfailing, MatchSection104
             PROVE  Faultless'
  OBVIOUS
<1> DEFINE delta == normalize_amount(ctx.left * ctx.cost, ctx.held)
           after == Identify(ctx.left, delta, delta)
<1>1. /\ Faultless /\ Sound /\ TypeOK /\ phase = "section_104"
      /\ UNCHANGED <<history, portfolio>>
      /\ Balanced(ctx) /\ OnGrid(portfolio'.amount)
  BY DEF Unfailing, Agreed, Faultless, Sound, MatchSection104, Identifying
<1>2. /\ ctx.left \in Int /\ ctx.held \in Int /\ ctx.cost \in Int
      /\ 0 <= ctx.left /\ ctx.left <= ctx.held /\ OnGrid(ctx.cost)
  BY <1>1, ContextType
     DEF Sound, Counts, PoolCoversDisposal, Identifying, Balanced
<1>3. CASE ctx.left > 0
  <2>1. OnGrid(delta)
    <3>1. ctx.left * ctx.cost \in Int /\ ctx.held > 0
      BY <1>2, <1>3
    <3> QED
      BY <1>2, <3>1, NormalizedOnGrid
  <2>2. delta \in Int
    BY <2>1, GridLaws
  <2>3. ctx.held - ctx.left = 0 => ctx.cost - delta = 0
    BY <1>2, <1>3, LastUnitsTakeTheCost
  <2>4. ctx' = after
        /\ phase' = IF after.held = 0 /\ normalize_amount(after.cost, 1) # 0
                      THEN "fault" ELSE "finish"
    BY <1>3 DEF MatchSection104
  <2> HIDE DEF delta
  <2>5. /\ Balanced(after) /\ after.held = ctx.held - ctx.left
        /\ after.cost = ctx.cost - delta /\ after.left = ctx.left - ctx.left
    BY <1>1, <1>2, <2>1, <2>2, IdentifyBalances
  <2> HIDE DEF after
  <2>6. after.held = 0 => normalize_amount(after.cost, 1) = 0
    BY <2>3, <2>5, NormalizeNothing
  <2>7. phase' = "finish" /\ Balanced(ctx') /\ ctx'.left = 0
    BY <1>2, <2>4, <2>5, <2>6
  <2> QED
    BY <1>1, <2>7, FaultlessKept
<1>4. CASE ~(ctx.left > 0)
  <2>1. phase' = "finish" /\ ctx' = ctx /\ ctx.left = 0
    BY <1>2, <1>4 DEF MatchSection104
  <2> QED
    BY <1>1, <2>1, FaultlessKept
<1> QED
  BY <1>3, <1>4

LEMMA FinishDisposalFaultless == Unfailing /\ FinishDisposal => Faultless'
<1> SUFFICES ASSUME Unfailing, FinishDisposal
             PROVE  Faultless'
  OBVIOUS
<1>1. /\ Faultless /\ Sound /\ TypeOK /\ phase = "finish" /\ ctx.left = 0
      /\ UNCHANGED history /\ Balanced(ctx)
  BY DEF Unfailing, Agreed, Faultless, Sound, FinishDisposal, Identifying
<1>2. ~FinishBreaks
  <2>1. ctx.no_gain_no_loss => ctx.gain = 0
    BY <1>1 DEF Balanced
  <2>2. ~ctx.no_gain_no_loss => ctx.amount - ctx.proceeds = 0
    <3> SUFFICES ASSUME ~ctx.no_gain_no_loss
                 PROVE  ctx.amount - ctx.proceeds = 0
      OBVIOUS
    <3>1. ctx.proceeds + ctx.amount_left = ctx.amount /\ ctx.amount_left = 0
      BY <1>1 DEF Balanced
    <3> QED
      BY <1>1, <3>1, ContextType
  <2> QED
    BY <1>1, <2>1, <2>2, NormalizeNothing DEF FinishBreaks
<1>3. phase' \in {"close", "transfer"}
  BY <1>2 DEF FinishDisposal
<1>4. OnGrid(portfolio'.amount)
  <2>1. portfolio'.amount = normalize_amount(ctx.cost, 1) /\ ctx.cost \in Int
    BY <1>1, ContextType DEF FinishDisposal
  <2> QED
    BY <2>1, NormalizedOnGrid
<1> QED
  BY <1>1, <1>3, <1>4, FaultlessKept DEF Identifying

LEMMA CloseDayFaultless == Unfailing /\ CloseDay => Faultless'
<1> SUFFICES ASSUME Unfailing, CloseDay
             PROVE  Faultless'
  OBVIOUS
<1> DEFINE income == portfolio.quantity * today.eri
<1>1. /\ Faultless /\ Sound /\ TypeOK /\ UNCHANGED history
      /\ phase' \in {"refused", "done", "open"}
  BY DEF Unfailing, Agreed, Sound, CloseDay
<1>2. OnGrid(portfolio'.amount)
  <2>1. OnGrid(portfolio.amount) /\ OnGrid(today.eri)
    BY <1>1 DEF Faultless, ReportsOnGrid, today, TypeOK
  <2>2. OnGrid(income)
    BY <1>1, <2>1, PortfolioType, GridLaws
  <2>3. OnGrid(portfolio.amount + income)
    BY <2>1, <2>2, GridLaws
  <2>4. portfolio' \in {portfolio, [portfolio EXCEPT !.amount = @ + income]}
    BY DEF CloseDay
  <2> HIDE DEF income
  <2>5. [portfolio EXCEPT !.amount = @ + income].amount = portfolio.amount + income
    BY <1>1, PortfolioType DEF Position
  <2> QED
    BY <2>1, <2>3, <2>4, <2>5
<1> QED
  BY <1>1, <1>2, FaultlessKept DEF Identifying

LEMMA RecalculateFaultless == Unfailing /\ Recalculate => Faultless'
<1> SUFFICES ASSUME Unfailing, Recalculate
             PROVE  Faultless'
  OBVIOUS
<1>1. Faultless /\ UNCHANGED history /\ phase' = "open" /\ portfolio' = NoPosition
  BY DEF Unfailing, Recalculate
<1>2. OnGrid(portfolio'.amount)
  BY <1>1, GridLaws DEF NoPosition
<1> QED
  BY <1>1, <1>2, FaultlessKept DEF Identifying

LEMMA StepUnfailing ==
  Unfailing /\ RepurchaseBasisNotNegative /\ [Next]_vars => Unfailing'
<1> SUFFICES ASSUME Unfailing, RepurchaseBasisNotNegative, [Next]_vars
             PROVE  Unfailing'
  OBVIOUS
<1>1. Agreed' /\ OnceEach'
  BY StepAgrees, StepOnceEach DEF Unfailing
<1>2. Faultless'
  <2>1. CASE UNCHANGED vars
    BY <2>1, FaultlessKept DEF vars, Unfailing, Faultless
  <2>2. CASE Next
    BY <2>2, OpenDayFaultless, ProcessAcquisitionFaultless,
       RecordSplitReconciliationsFaultless, StartSaleFaultless,
       StartTransferFaultless, MatchSameDayFaultless, SearchFaultless,
       SearchMatchesDayFaultless, MatchSection104Faultless,
       FinishDisposalFaultless, CloseDayFaultless, RecalculateFaultless
       DEF Next
  <2> QED
    BY <2>1, <2>2
<1> QED
  BY <1>1, <1>2 DEF Unfailing

(***************************************************************************)
(* No assertion of the walk fails on a history the first pass accepted     *)
(* whose reports are priced on the ten-decimal grid, unless a repurchase   *)
(* takes on a negative basis: the two corners the runs over free shares    *)
(* and over a report off the grid exhibit are the only ones.               *)
(***************************************************************************)
THEOREM AssertionsHold ==
  Spec /\ Accepted(history) /\ ReportsOnGrid /\ []RepurchaseBasisNotNegative
    => []NoAssertionFails
<1>1. Init /\ Accepted(history) /\ ReportsOnGrid => Unfailing
  BY InitSound, InitAgreed, InitOnceEach, InitFaultless DEF Unfailing, Agreed
<1>2. Unfailing => NoAssertionFails
  BY DEF Unfailing, Faultless, NoAssertionFails
<1> QED
  BY <1>1, <1>2, StepUnfailing, PTL DEF Spec
=============================================================================
