--------------------------- MODULE IngestionProofs ---------------------------
(***************************************************************************)
(* Proofs about the first pass: what it records of a connected person's    *)
(* gift, the overdrafts it refuses a history for, and the names a report   *)
(* of excess income is recorded under.                                     *)
(***************************************************************************)
EXTENDS IngestionProperties, Induction

Opened == {"plan", "row", "post"}

\* What the day's planning leaves of a holding's reorganisation.
Planned ==
  [ratio : Ratio \cup {NoRatio}, day_open : Int, scaled_open : Int, delta : Int,
   day_close : Int, planned : BOOLEAN]

PlaceTyped ==
  /\ rows \in Ledgers
  /\ next \in 1 .. Len(rows) + 1
  /\ phase \in Phases
  /\ phase \in Opened => next <= Len(rows)
  /\ planned \subseteq Day

HoldingsTyped ==
  /\ DOMAIN portfolio \subseteq Symbol
  /\ \A n \in DOMAIN portfolio : portfolio[n] \in Int
  /\ sources \in [Symbol -> SUBSET Account]

PoolTyped ==
  /\ pool_quantity \in [DOMAIN rows -> Int]
  /\ \A i \in DOMAIN rows : Sign(i) # 0 => pool_quantity[i] >= 0

RecordsTyped ==
  /\ balance \in [Account -> Int]
  /\ logs \in [Day -> [Symbol -> Log]]

PlansTyped ==
  /\ renames \in [Day -> [Symbol -> Symbol]]
  /\ components \in [Day -> [Symbol -> [names : SUBSET Symbol, capacity : Int]]]
  /\ capacities \in [Day -> [Symbol -> Int]]
  /\ splits \in [Day -> [Symbol -> Planned]]

Typed ==
  /\ PlaceTyped
  /\ HoldingsTyped
  /\ PoolTyped
  /\ RecordsTyped
  /\ PlansTyped

LEMMA RowType ==
  ASSUME rows \in Ledgers
  PROVE  /\ Len(rows) \in Nat /\ DOMAIN rows = 1 .. Len(rows) /\ IsFiniteSet(DOMAIN rows)
         /\ \A i \in DOMAIN rows : rows[i] \in Row
         /\ \A i \in DOMAIN rows : Sign(i) # 0 => rows[i].quantity > 0
<1>1. rows \in Seq(Row)
  BY IngestionAssumption
<1>2. Len(rows) \in Nat /\ DOMAIN rows = 1 .. Len(rows)
  BY <1>1
<1>3. IsFiniteSet(1 .. Len(rows))
  BY <1>2, FS_Interval
<1>4. \A i \in 1 .. Len(rows) :
        rows[i].action \in Increasing \cup Decreasing => rows[i].quantity > 0
  BY IngestionAssumption
<1> QED
  BY <1>1, <1>2, <1>3, <1>4 DEF Sign

\* The row being read.
LEMMA RowRead ==
  ASSUME Typed, phase \in Opened
  PROVE  /\ next \in DOMAIN rows /\ row \in Row /\ row = rows[next]
         /\ row.date \in Day /\ row.symbol \in Symbol /\ row.renamed \in Symbol
         /\ row.account \in Account /\ row.cash \in Int /\ row.price \in Nat
         /\ row.action \in Action
         /\ units \in Int /\ (Sign(next) # 0 => units >= 0)
         /\ log \in Log
<1>1. next \in DOMAIN rows
  BY RowType DEF Typed, PlaceTyped
<1>2. row \in Row
  BY <1>1, RowType DEF Typed, PlaceTyped, row
<1>3. row.date \in Day /\ row.symbol \in Symbol
  BY <1>2 DEF Row
<1>4. log \in Log
  BY <1>3 DEF Typed, RecordsTyped, log
<1> QED
  BY <1>1, <1>2, <1>3, <1>4 DEF Row, Typed, PoolTyped, row, units

LEMMA HeldType == Typed => \A n : Held(n) \in Int
  BY DEF Typed, HoldingsTyped, Held

LEMMA SymbolsFinite == \A names \in SUBSET Symbol : IsFiniteSet(names)
<1>1. Tickers \in Nat
  BY IngestionAssumption
<1>2. IsFiniteSet(Symbol)
  BY <1>1, FS_Interval DEF Symbol
<1> QED
  BY <1>2, FS_Subset

LEMMA RowsFinite ==
  ASSUME rows \in Ledgers
  PROVE  \A indices \in SUBSET DOMAIN rows : IsFiniteSet(indices)
  BY RowType, FS_Subset

----------------------------------------------------------------------------
(***************************************************************************)
(* The module's sums are folds of an operator; each is the sum of the      *)
(* function with the operator's values.                                    *)
(***************************************************************************)
HeldBy(names) == [n \in names |-> Held(n)]
SignedBy(indices, pooled) == [i \in indices |-> Sign(i) * pooled[i]]
StatedBy(indices) == [i \in indices |-> Sign(i) * rows[i].quantity]
DisposedBy(d, names) == [n \in names |-> logs[d][n].disposed]
CashBy(indices) == [i \in indices |-> CashMoved(i)]

LEMMA HeldSum ==
  ASSUME NEW names, IsFiniteSet(names)
  PROVE  MapThenSumSet(LAMBDA n : Held(n), names) = SumFunctionOnSet(HeldBy(names), names)
<1> DEFINE f == HeldBy(names)
           Fold(sum) == sum = [s \in SUBSET names |->
                          IF s = {} THEN 0 ELSE Held(Pick(s)) + sum[s \ {Pick(s)}]]
           chosen == CHOOSE sum : Fold(sum)
<1>1. \A s \in SUBSET names : s # {} => f[Pick(s)] = Held(Pick(s))
  BY DEF Pick, HeldBy
<1>2. PartialSums(f, names) = [s \in SUBSET names |-> Step(f, s, PartialSums(f, names))]
  BY PartialSumsFold
<1>3. Fold(PartialSums(f, names))
  BY <1>1, <1>2 DEF Step
<1>4. Fold(chosen)
  BY <1>3
<1>5. MapThenSumSet(LAMBDA n : Held(n), names) = chosen[names]
  BY DEF MapThenSumSet, MapThenFoldSet, Pick
<1> HIDE DEF chosen, f
<1>6. \A s \in SUBSET names : chosen[s] = Step(f, s, chosen)
  BY <1>1, <1>4 DEF Step
<1> QED
  BY <1>5, <1>6, SumIsAnyFold DEF f

LEMMA SignedSum ==
  ASSUME NEW indices, IsFiniteSet(indices), NEW pooled
  PROVE  SignedQuantity(indices, pooled) = SumFunctionOnSet(SignedBy(indices, pooled), indices)
<1> DEFINE f == SignedBy(indices, pooled)
           Fold(sum) == sum = [s \in SUBSET indices |->
                          IF s = {} THEN 0 ELSE Sign(Pick(s)) * pooled[Pick(s)] + sum[s \ {Pick(s)}]]
           chosen == CHOOSE sum : Fold(sum)
<1>1. \A s \in SUBSET indices : s # {} => f[Pick(s)] = Sign(Pick(s)) * pooled[Pick(s)]
  BY DEF Pick, SignedBy
<1>2. PartialSums(f, indices) = [s \in SUBSET indices |-> Step(f, s, PartialSums(f, indices))]
  BY PartialSumsFold
<1>3. Fold(PartialSums(f, indices))
  BY <1>1, <1>2 DEF Step
<1>4. Fold(chosen)
  BY <1>3
<1>5. SignedQuantity(indices, pooled) = chosen[indices]
  BY DEF MapThenSumSet, MapThenFoldSet, Pick, SignedQuantity
<1> HIDE DEF chosen, f
<1>6. \A s \in SUBSET indices : chosen[s] = Step(f, s, chosen)
  BY <1>1, <1>4 DEF Step
<1> QED
  BY <1>5, <1>6, SumIsAnyFold DEF f

LEMMA StatedSum ==
  ASSUME NEW indices, IsFiniteSet(indices)
  PROVE  StatedUnits(indices) = SumFunctionOnSet(StatedBy(indices), indices)
<1> DEFINE f == StatedBy(indices)
           Fold(sum) == sum = [s \in SUBSET indices |->
                          IF s = {} THEN 0 ELSE Sign(Pick(s)) * rows[Pick(s)].quantity + sum[s \ {Pick(s)}]]
           chosen == CHOOSE sum : Fold(sum)
<1>1. \A s \in SUBSET indices : s # {} => f[Pick(s)] = Sign(Pick(s)) * rows[Pick(s)].quantity
  BY DEF Pick, StatedBy
<1>2. PartialSums(f, indices) = [s \in SUBSET indices |-> Step(f, s, PartialSums(f, indices))]
  BY PartialSumsFold
<1>3. Fold(PartialSums(f, indices))
  BY <1>1, <1>2 DEF Step
<1>4. Fold(chosen)
  BY <1>3
<1>5. StatedUnits(indices) = chosen[indices]
  BY DEF MapThenSumSet, MapThenFoldSet, Pick, StatedUnits
<1> HIDE DEF chosen, f
<1>6. \A s \in SUBSET indices : chosen[s] = Step(f, s, chosen)
  BY <1>1, <1>4 DEF Step
<1> QED
  BY <1>5, <1>6, SumIsAnyFold DEF f

LEMMA DisposedSum ==
  ASSUME NEW names, IsFiniteSet(names), NEW d
  PROVE  MapThenSumSet(LAMBDA n : logs[d][n].disposed, names) = SumFunctionOnSet(DisposedBy(d, names), names)
<1> DEFINE f == DisposedBy(d, names)
           Fold(sum) == sum = [s \in SUBSET names |->
                          IF s = {} THEN 0 ELSE logs[d][Pick(s)].disposed + sum[s \ {Pick(s)}]]
           chosen == CHOOSE sum : Fold(sum)
<1>1. \A s \in SUBSET names : s # {} => f[Pick(s)] = logs[d][Pick(s)].disposed
  BY DEF Pick, DisposedBy
<1>2. PartialSums(f, names) = [s \in SUBSET names |-> Step(f, s, PartialSums(f, names))]
  BY PartialSumsFold
<1>3. Fold(PartialSums(f, names))
  BY <1>1, <1>2 DEF Step
<1>4. Fold(chosen)
  BY <1>3
<1>5. MapThenSumSet(LAMBDA n : logs[d][n].disposed, names) = chosen[names]
  BY DEF MapThenSumSet, MapThenFoldSet, Pick
<1> HIDE DEF chosen, f
<1>6. \A s \in SUBSET names : chosen[s] = Step(f, s, chosen)
  BY <1>1, <1>4 DEF Step
<1> QED
  BY <1>5, <1>6, SumIsAnyFold DEF f

LEMMA CashSum ==
  ASSUME NEW indices, IsFiniteSet(indices)
  PROVE  MapThenSumSet(CashMoved, indices) = SumFunctionOnSet(CashBy(indices), indices)
<1> DEFINE f == CashBy(indices)
           Fold(sum) == sum = [s \in SUBSET indices |->
                          IF s = {} THEN 0 ELSE CashMoved(Pick(s)) + sum[s \ {Pick(s)}]]
           chosen == CHOOSE sum : Fold(sum)
<1>1. \A s \in SUBSET indices : s # {} => f[Pick(s)] = CashMoved(Pick(s))
  BY DEF Pick, CashBy
<1>2. PartialSums(f, indices) = [s \in SUBSET indices |-> Step(f, s, PartialSums(f, indices))]
  BY PartialSumsFold
<1>3. Fold(PartialSums(f, indices))
  BY <1>1, <1>2 DEF Step
<1>4. Fold(chosen)
  BY <1>3
<1>5. MapThenSumSet(CashMoved, indices) = chosen[indices]
  BY DEF MapThenSumSet, MapThenFoldSet, Pick
<1> HIDE DEF chosen, f
<1>6. \A s \in SUBSET indices : chosen[s] = Step(f, s, chosen)
  BY <1>1, <1>4 DEF Step
<1> QED
  BY <1>5, <1>6, SumIsAnyFold DEF f

LEMMA HeldSumType ==
  ASSUME Typed, NEW names \in SUBSET Symbol
  PROVE  MapThenSumSet(LAMBDA n : Held(n), names) \in Int
<1>1. IsFiniteSet(names)
  BY SymbolsFinite
<1>2. \A n \in names : HeldBy(names)[n] \in Int
  BY HeldType DEF HeldBy
<1>3. SumFunctionOnSet(HeldBy(names), names) \in Int
  BY <1>1, <1>2, SumType
<1> QED
  BY <1>1, <1>3, HeldSum

LEMMA SignType == \A i : Sign(i) \in Int /\ Sign(i) \in -1 .. 1
  BY DEF Sign

LEMMA SignedType ==
  ASSUME rows \in Ledgers, NEW indices \in SUBSET DOMAIN rows,
         NEW pooled \in [DOMAIN rows -> Int]
  PROVE  SignedQuantity(indices, pooled) \in Int
<1>1. IsFiniteSet(indices)
  BY RowsFinite
<1>2. \A i \in indices : SignedBy(indices, pooled)[i] \in Int
  BY SignType DEF SignedBy
<1>3. SumFunctionOnSet(SignedBy(indices, pooled), indices) \in Int
  BY <1>1, <1>2, SumType
<1> QED
  BY <1>1, <1>3, SignedSum

LEMMA StatedType ==
  ASSUME rows \in Ledgers, NEW indices \in SUBSET DOMAIN rows
  PROVE  StatedUnits(indices) \in Int
<1>1. IsFiniteSet(indices)
  BY RowsFinite
<1>2. \A i \in indices : rows[i].quantity \in Int
  BY RowType DEF Row
<1>3. \A i \in indices : StatedBy(indices)[i] \in Int
  BY <1>2, SignType DEF StatedBy
<1>4. SumFunctionOnSet(StatedBy(indices), indices) \in Int
  BY <1>1, <1>3, SumType
<1> QED
  BY <1>1, <1>4, StatedSum

----------------------------------------------------------------------------
LEMMA InitTyped == Init => Typed
<1> SUFFICES ASSUME Init
             PROVE  Typed
  OBVIOUS
<1>1. PlaceTyped
  BY RowType DEF Init, PlaceTyped, Phases, Opened
<1>2. HoldingsTyped
  BY DEF Init, HoldingsTyped
<1>3. PoolTyped
  <2>1. /\ pool_quantity = [i \in 1 .. Len(rows) |-> rows[i].quantity]
        /\ rows \in Ledgers
    BY DEF Init
  <2>2. \A i \in DOMAIN rows : rows[i].quantity \in Int
    BY <2>1, RowType DEF Row
  <2> QED
    BY <2>1, <2>2, RowType DEF PoolTyped
<1>4. RecordsTyped
  <2>1. NoLog \in Log
    BY DEF NoLog, Log, NoPrice
  <2> QED
    BY <2>1 DEF Init, RecordsTyped
<1>5. PlansTyped
  <2>1. NoSplit \in Planned
    BY DEF NoSplit, Planned, Unscaled, Ratio
  <2> QED
    BY <2>1 DEF Init, PlansTyped, NoCapacity
<1> QED
  BY <1>1, <1>2, <1>3, <1>4, <1>5 DEF Typed

LEMMA OpenTransactionDayTyped == Typed /\ OpenTransactionDay => Typed'
<1> SUFFICES ASSUME Typed, OpenTransactionDay
             PROVE  Typed'
  OBVIOUS
<1> DEFINE pairs == RenamePairs(RowsOn(row.date))
<1>1. CASE RenamesConflict(pairs)
  BY <1>1 DEF OpenTransactionDay, Refuse, Typed, PlaceTyped, HoldingsTyped, PoolTyped,
              RecordsTyped, PlansTyped, Sign, Phases, Opened
<1>2. CASE ~RenamesConflict(pairs)
  <2>1. next \in DOMAIN rows /\ row.date \in Day
    BY RowType DEF OpenTransactionDay, Typed, PlaceTyped, row, Row
  <2>2. PlaceTyped'
    BY <1>2, <2>1 DEF OpenTransactionDay, Typed, PlaceTyped, Phases, Opened
  <2>3. HoldingsTyped'
    BY <1>2 DEF OpenTransactionDay, Typed, HoldingsTyped, SourcesAtOpen
  <2>4. PoolTyped' /\ RecordsTyped'
    BY <1>2 DEF OpenTransactionDay, Typed, PoolTyped, RecordsTyped, Sign
  <2>5. PlansTyped'
    <3>1. \A p \in pairs : p[2] \in Symbol
      BY RowType DEF RenamePairs, RowsOn, Typed, PlaceTyped, Row
    <3>2. \A s : (\E p \in pairs : p[1] = s) => (CHOOSE p \in pairs : p[1] = s) \in pairs
      OBVIOUS
    <3>3. renames' \in [Day -> [Symbol -> Symbol]]
      <4> DEFINE to == [s \in Symbol |-> IF \E p \in pairs : p[1] = s
                                         THEN (CHOOSE p \in pairs : p[1] = s)[2] ELSE s]
      <4>1. renames' = [renames EXCEPT ![row.date] = to]
        BY <1>2 DEF OpenTransactionDay
      <4> HIDE DEF pairs
      <4>2. to \in [Symbol -> Symbol]
        BY <3>1, <3>2
      <4> HIDE DEF to
      <4> QED
        BY <2>1, <4>1, <4>2 DEF Typed, PlansTyped
    <3>4. \A names \in SUBSET Symbol, s \in Symbol :
            Component(row.date, names, s) \in [names : SUBSET Symbol, capacity : Int]
      <4> SUFFICES ASSUME NEW names \in SUBSET Symbol, NEW s \in Symbol
                   PROVE  Component(row.date, names, s)
                            \in [names : SUBSET Symbol, capacity : Int]
        OBVIOUS
      <4> DEFINE mine == {i \in RowsOn(row.date) : rows[i].symbol \in names}
      <4>1. MapThenSumSet(LAMBDA n : Held(n), names) \in Int
        BY HeldSumType
      <4>2. Increases(mine) \in SUBSET DOMAIN rows
        BY DEF Increases, RowsOn
      <4>3. SignedQuantity(Increases(mine), pool_quantity) \in Int
        BY <4>2, SignedType DEF Typed, PlaceTyped, PoolTyped
      <4> QED
        BY <4>1, <4>3 DEF Component
    <3>5. \A s : ConnectedNames(pairs, s) \in SUBSET Symbol
      BY DEF ConnectedNames
    <3>6. components' \in [Day -> [Symbol -> [names : SUBSET Symbol, capacity : Int]]]
      <4> DEFINE renamed == UNION {{p[1], p[2]} : p \in pairs}
                 new == [s \in Symbol |->
                           IF s \in renamed THEN Component(row.date, ConnectedNames(pairs, s), s)
                           ELSE components[row.date][s]]
      <4>1. components' = [components EXCEPT ![row.date] = new]
        BY <1>2 DEF OpenTransactionDay
      <4> HIDE DEF pairs, renamed
      <4>2. \A s \in Symbol :
              components[row.date][s] \in [names : SUBSET Symbol, capacity : Int]
        BY <2>1 DEF Typed, PlansTyped
      <4>3. \A s \in Symbol : Component(row.date, ConnectedNames(pairs, s), s)
                               \in [names : SUBSET Symbol, capacity : Int]
        BY <3>4, <3>5
      <4>4. new \in [Symbol -> [names : SUBSET Symbol, capacity : Int]]
        BY <4>2, <4>3
      <4> HIDE DEF new
      <4> QED
        BY <2>1, <4>1, <4>4 DEF Typed, PlansTyped
    <3> QED
      BY <1>2, <3>3, <3>6 DEF OpenTransactionDay, Typed, PlansTyped
  <2> QED
    BY <2>2, <2>3, <2>4, <2>5 DEF Typed
<1> QED
  BY <1>1, <1>2

(***************************************************************************)
(* The reorganisation a step plans: one row, of the day and ticker.        *)
(***************************************************************************)
LEMMA SoleIsOne ==
  ASSUME NEW indices, IsFiniteSet(indices), indices # {}, ~NotSole(indices)
  PROVE  SoleReorganisation(indices) \in indices
<1>1. CASE Cardinality(indices) = 1
  BY <1>1 DEF SoleReorganisation
<1>2. CASE Cardinality(indices) # 1
  <2>1. Cardinality(indices) \in Nat /\ Cardinality(indices) # 0
    BY FS_CardinalityType, FS_EmptySet
  <2>2. Cardinality(RawRows(indices)) = 1
    BY <1>2, <2>1 DEF NotSole
  <2>3. RawRows(indices) # {}
    BY <2>2, FS_EmptySet
  <2>4. SoleReorganisation(indices) \in RawRows(indices)
    BY <1>2, <2>3 DEF SoleReorganisation
  <2> QED
    BY <2>4 DEF RawRows
<1> QED
  BY <1>1, <1>2

LEMMA LeastUnplanned ==
  ASSUME Unplanned # {}
  PROVE  Min(Unplanned) \in Unplanned
<1>1. Unplanned \in SUBSET Nat
  BY DEF Unplanned, Symbol
<1>2. PICK s \in Unplanned : \A t \in Unplanned : s <= t
  BY <1>1, LeastNatural
<1> QED
  BY <1>2 DEF Min

\* The ticker and the row of the reorganisation the step plans.
PlannedSymbol == Min(Unplanned)
PlannedRow == SoleReorganisation(SplitRowsOn(row.date, PlannedSymbol))

LEMMA PlannedRowIs ==
  ASSUME Typed, PlanStockSplit, phase' # "refused"
  PROVE  /\ PlannedSymbol \in Symbol
         /\ PlannedRow \in DOMAIN rows
         /\ rows[PlannedRow].date = row.date
         /\ rows[PlannedRow].symbol = PlannedSymbol
         /\ rows[PlannedRow].action = "STOCK_SPLIT"
         /\ ~splits[row.date][PlannedSymbol].planned
         /\ ~SplitRefused(PlannedRow)
<1>1. /\ phase = "plan" /\ Unplanned # {}
      /\ ~NotSole(SplitRowsOn(row.date, PlannedSymbol)) /\ ~SplitRefused(PlannedRow)
  BY DEF PlanStockSplit, Refuse, PlannedSymbol, PlannedRow
<1>2. PlannedSymbol \in Unplanned
  BY <1>1, LeastUnplanned DEF PlannedSymbol
<1>3. /\ PlannedSymbol \in Symbol /\ SplitRowsOn(row.date, PlannedSymbol) # {}
      /\ ~splits[row.date][PlannedSymbol].planned
  BY <1>2 DEF Unplanned
<1>4. SplitRowsOn(row.date, PlannedSymbol) \in SUBSET DOMAIN rows
  BY DEF SplitRowsOn, RowsOn
<1>5. IsFiniteSet(SplitRowsOn(row.date, PlannedSymbol))
  BY <1>4, RowsFinite DEF Typed, PlaceTyped
<1>6. PlannedRow \in SplitRowsOn(row.date, PlannedSymbol)
  BY <1>1, <1>3, <1>5, SoleIsOne DEF PlannedRow
<1> QED
  BY <1>1, <1>3, <1>6 DEF SplitRowsOn, RowsOn

LEMMA ScaleNatural ==
  ASSUME NEW quantity \in Int, NEW ratio \in Ratio
  PROVE  /\ scale_quantity(quantity, ratio) \in Int
         /\ quantity >= 0 => scale_quantity(quantity, ratio) >= 0
<1>1. /\ ratio.num \in Int /\ ratio.num > 0
      /\ ratio.den \in Int /\ ratio.den > 0
  BY DEF Ratio
<1> DEFINE n == quantity * ratio.num
           d == ratio.den
<1>2. n \in Int /\ (quantity >= 0 => n >= 0)
  BY <1>1
<1>3. d \in Int /\ d > 0
  BY <1>1
<1> HIDE DEF n, d
<1>4. RoundHalfUp(n, d) \in Int /\ (n >= 0 => RoundHalfUp(n, d) >= 0)
  BY <1>2, <1>3 DEF RoundHalfUp
<1> QED
  BY <1>2, <1>4 DEF scale_quantity, n, d

\* Rows a reorganisation places are rows of its day that move units.
LEMMA AroundAreRows ==
  \A i : /\ RowsAround(i) \in SUBSET DOMAIN rows
         /\ RowsBefore(i) \in SUBSET RowsAround(i)
         /\ RowsBefore(i) \in SUBSET DOMAIN rows
         /\ \A j \in RowsAround(i) : Sign(j) # 0
  BY DEF RowsAround, RowsBefore, RowsOn

LEMMA EventType ==
  ASSUME Typed, NEW i \in DOMAIN rows, ~SplitRefused(i)
  PROVE  /\ DayOpen(i) \in Int /\ AtEvent(i) \in Int /\ AtEvent(i) > 0
         /\ Event(i).before \in Int /\ Event(i).after \in Int
         /\ Event(i).ratio \in Ratio \cup {NoRatio}
         /\ Resolved(i) => Event(i).ratio \in Ratio
<1>1. NamesOn(rows[i].date, rows[i].symbol) \in SUBSET Symbol
  BY DEF NamesOn, ConnectedNames
<1>2. DayOpen(i) \in Int
  BY <1>1, HeldSumType DEF DayOpen
<1>3. StatedUnits(RowsBefore(i)) \in Int
  <2>1. RowsBefore(i) \in SUBSET DOMAIN rows /\ rows \in Ledgers
    BY AroundAreRows DEF Typed, PlaceTyped
  <2> QED
    BY <2>1, StatedType
<1>4. AtEvent(i) \in Int
  <2>1. AtEvent(i) = DayOpen(i) + StatedUnits(RowsBefore(i))
    BY Zenon DEF AtEvent, StatedUnits
  <2> QED
    BY <1>2, <1>3, <2>1
<1>5. AtEvent(i) > 0
  BY <1>4 DEF SplitRefused
<1>6. rows[i] \in Row
  BY RowType DEF Typed, PlaceTyped
<1>7. CASE rows[i].source = "paired"
  <2>1. Event(i) = rows[i].event
    BY <1>7 DEF Event
  <2> QED
    BY <1>2, <1>4, <1>5, <1>6, <2>1 DEF Row, Resolved
<1>8. CASE rows[i].source # "paired"
  <2> DEFINE after == AtEvent(i) + rows[i].quantity
  <2>1. after \in Int
    BY <1>4, <1>6 DEF Row
  <2>2. Event(i) = [before |-> AtEvent(i), after |-> after,
                    ratio |-> [num |-> after, den |-> AtEvent(i)]]
    BY <1>8 DEF Event
  <2> HIDE DEF after
  <2>3. Event(i).after = after
    BY <2>2
  <2>4. after > 0
    BY <1>8, <2>1, <2>3 DEF SplitRefused
  <2>5. [num |-> after, den |-> AtEvent(i)] \in Ratio
    BY <1>4, <1>5, <2>1, <2>4 DEF Ratio
  <2> QED
    BY <1>2, <1>4, <1>5, <2>1, <2>2, <2>5
<1> QED
  BY <1>7, <1>8

LEMMA RestatedType ==
  ASSUME Typed, NEW i \in DOMAIN rows, ~SplitRefused(i)
  PROVE  /\ Restated(i) \in [DOMAIN rows -> Int]
         /\ \A j \in DOMAIN rows : Sign(j) # 0 => Restated(i)[j] >= 0
<1> SUFFICES ASSUME NEW j \in DOMAIN rows
             PROVE  /\ Restated(i)[j] \in Int
                    /\ Sign(j) # 0 => Restated(i)[j] >= 0
  BY DEF Restated
<1>1. rows[j].quantity \in Int /\ (Sign(j) # 0 => rows[j].quantity >= 0)
  BY RowType DEF Typed, PlaceTyped, Row
<1>2. CASE Resolved(i) /\ j \in RowsBefore(i)
  <2>1. Event(i).ratio \in Ratio
    BY <1>2, EventType
  <2>2. Restated(i)[j] = scale_quantity(rows[j].quantity, Event(i).ratio)
    BY <1>2 DEF Restated
  <2> QED
    BY <1>1, <2>1, <2>2, ScaleNatural
<1>3. CASE ~(Resolved(i) /\ j \in RowsBefore(i))
  BY <1>3 DEF Restated, Typed, PoolTyped
<1> QED
  BY <1>2, <1>3

LEMMA TransformationType ==
  ASSUME Typed, NEW i \in DOMAIN rows, ~SplitRefused(i)
  PROVE  /\ Transformation(i) \in Planned /\ OpensAt(i) \in Int /\ DayCapacity(i) \in Int
         /\ ScaledOpen(i) \in Int /\ UncorrectedClose(i) \in Int
         /\ ExpectedDayClose(i) \in Int
<1>1. ScaledOpen(i) \in Int
  BY EventType, ScaleNatural DEF ScaledOpen
<1>2. \A indices \in SUBSET DOMAIN rows : SignedQuantity(indices, Restated(i)) \in Int
  BY RestatedType, SignedType DEF Typed, PlaceTyped
<1>3. UncorrectedClose(i) \in Int
  BY <1>1, <1>2, AroundAreRows DEF UncorrectedClose
<1>4. RowsAround(i) \ RowsBefore(i) \in SUBSET DOMAIN rows
  BY AroundAreRows
<1>5. ExpectedDayClose(i) \in Int
  BY <1>2, <1>3, <1>4, EventType DEF ExpectedDayClose
<1>6. Transformation(i) \in Planned
  BY <1>1, <1>3, <1>5, EventType DEF Transformation, Planned
<1>7. OpensAt(i) \in Int
  BY <1>6 DEF OpensAt, Planned
<1>8. Increases(RowsAround(i)) \in SUBSET DOMAIN rows
  BY AroundAreRows DEF Increases
<1> QED
  BY <1>1, <1>2, <1>3, <1>5, <1>6, <1>7, <1>8 DEF DayCapacity

LEMMA PlanStockSplitTyped == Typed /\ PlanStockSplit => Typed'
<1> SUFFICES ASSUME Typed, PlanStockSplit
             PROVE  Typed'
  OBVIOUS
<1>1. CASE phase' = "refused"
  BY <1>1 DEF PlanStockSplit, Refuse, Typed, PlaceTyped, HoldingsTyped, PoolTyped,
              RecordsTyped, PlansTyped, Sign, Phases, Opened
<1>2. CASE phase' # "refused"
  <2> DEFINE i == PlannedRow
             s == PlannedSymbol
             names == NamesOn(row.date, s)
             capacity == [n \in Symbol |-> IF n \in names THEN DayCapacity(i)
                                          ELSE capacities[row.date][n]]
  <2>1. /\ pool_quantity' = Restated(i)
        /\ splits' = [splits EXCEPT ![row.date][s] = Transformation(i)]
        /\ portfolio' = WithHolding(s, OpensAt(i))
        /\ capacities' = [capacities EXCEPT ![row.date] = capacity]
        /\ UNCHANGED <<rows, next, phase, refusal, planned, sources, balance,
                       logs, renames, components>>
    BY <1>2 DEF PlanStockSplit, Refuse, PlannedRow, PlannedSymbol
  <2>2. /\ s \in Symbol /\ i \in DOMAIN rows /\ ~SplitRefused(i)
    BY <1>2, PlannedRowIs
  <2>3. /\ Transformation(i) \in Planned /\ OpensAt(i) \in Int /\ DayCapacity(i) \in Int
    BY <2>2, TransformationType
  <2>4. row.date \in Day
    BY RowRead DEF PlanStockSplit, Opened
  <2>5. /\ Restated(i) \in [DOMAIN rows -> Int]
        /\ \A j \in DOMAIN rows : Sign(j) # 0 => Restated(i)[j] >= 0
    BY <2>2, RestatedType
  <2>6. capacity \in [Symbol -> Int]
    <3>1. \A n \in Symbol : capacities[row.date][n] \in Int
      BY <2>4 DEF Typed, PlansTyped
    <3> QED
      BY <2>3, <3>1
  <2> HIDE DEF i, s, capacity
  <2>7. PlaceTyped' /\ RecordsTyped'
    BY <2>1 DEF Typed, PlaceTyped, RecordsTyped
  <2>8. HoldingsTyped'
    BY <2>1, <2>2, <2>3 DEF Typed, HoldingsTyped, WithHolding
  <2>9. PoolTyped'
    BY <2>1, <2>5 DEF PoolTyped, Sign
  <2>10. PlansTyped'
    BY <2>1, <2>2, <2>3, <2>4, <2>6 DEF Typed, PlansTyped
  <2> QED
    BY <2>7, <2>8, <2>9, <2>10 DEF Typed
<1> QED
  BY <1>1, <1>2

\* The log a handler leaves in place of its day's and ticker's.
LEMMA RecordTyped ==
  ASSUME Typed, phase \in Opened, NEW entry \in Log, Record(entry), balance' = balance
  PROVE  RecordsTyped'
<1>1. row.date \in Day /\ row.symbol \in Symbol
  BY RowRead
<1> QED
  BY <1>1 DEF Record, Typed, RecordsTyped

LEMMA HandledTyped ==
  ASSUME Typed, phase \in Opened, Handled, HoldingsTyped', RecordsTyped'
  PROVE  Typed'
<1>1. PlaceTyped' /\ PoolTyped' /\ PlansTyped'
  BY DEF Handled, Typed, PlaceTyped, PoolTyped, PlansTyped, Sign, Phases, Opened
<1> QED
  BY <1>1 DEF Typed

LEMMA RefusedTyped == ASSUME Typed, NEW reason, Refuse(reason) PROVE Typed'
  BY DEF Refuse, Typed, PlaceTyped, HoldingsTyped, PoolTyped, RecordsTyped, PlansTyped,
         Sign, Phases, Opened

LEMMA GiveUpTyped ==
  ASSUME Typed, phase \in Opened, GiveUp, UNCHANGED sources
  PROVE  HoldingsTyped'
<1>1. row.symbol \in Symbol /\ units \in Int /\ Held(row.symbol) \in Int
  BY RowRead, HeldType
<1>2. CASE Held(row.symbol) = units
  BY <1>2 DEF GiveUp, WithoutHolding, Typed, HoldingsTyped
<1>3. CASE Held(row.symbol) # units
  BY <1>1, <1>3 DEF GiveUp, WithHolding, Typed, HoldingsTyped
<1> QED
  BY <1>2, <1>3

\* A handler's row moves units exactly when its action says so.
LEMMA ReadingRow ==
  ASSUME NEW actions, Reading(actions)
  PROVE  /\ phase = "row" /\ phase \in Opened /\ rows[next].action \in actions
         /\ row.action \in actions
  BY DEF Reading, Opened, row

LEMMA SignOf ==
  /\ \A i : rows[i].action \in Increasing => Sign(i) = 1
  /\ \A i : rows[i].action \in Decreasing => Sign(i) = -1
  /\ \A i : rows[i].action \notin Increasing \cup Decreasing => Sign(i) = 0
  BY DEF Sign, Increasing, Decreasing, Sales

LEMMA AddAcquisitionTyped == Typed /\ AddAcquisition => Typed'
<1> SUFFICES ASSUME Typed, AddAcquisition
             PROVE  Typed'
  OBVIOUS
<1>1. phase \in Opened /\ rows[next].action \in Increasing
  BY ReadingRow DEF AddAcquisition
<1>2. /\ row.symbol \in Symbol /\ units \in Int /\ Held(row.symbol) \in Int /\ log \in Log
      /\ units >= 0
  BY <1>1, RowRead, HeldType, SignOf
<1>3. HoldingsTyped'
  <2> DEFINE count == Held(row.symbol) + units
  <2>1. count \in Int
    BY <1>2
  <2>2. portfolio' = WithHolding(row.symbol, count) /\ UNCHANGED sources
    BY DEF AddAcquisition
  <2> HIDE DEF count
  <2> QED
    BY <1>2, <2>1, <2>2 DEF WithHolding, Typed, HoldingsTyped
<1>4. RecordsTyped'
  <2> DEFINE entry == [log EXCEPT !.acquired = @ + units]
  <2>1. entry \in Log
    BY <1>2 DEF Log
  <2>2. Record(entry) /\ balance' = balance
    BY DEF AddAcquisition, Handled
  <2> HIDE DEF entry
  <2> QED
    BY <1>1, <2>1, <2>2, RecordTyped
<1>5. Handled
  BY DEF AddAcquisition
<1> QED
  BY <1>1, <1>3, <1>4, <1>5, HandledTyped

\* What each decrease records of its day, once it is accepted.
DisposalEntry == [log EXCEPT !.disposed = @ + units, !.sale_day = TRUE]
TransferEntry == [log EXCEPT !.transferred = @ + units]
GiftKind == IF row.action = "GIFT" THEN "connected" ELSE "unconnected"
GiftEntry ==
  [log EXCEPT !.disposed = @ + units, !.gift = GiftKind,
              !.gift_price = IF GiftKind = "connected" THEN row.price ELSE @]

LEMMA DecreaseTyped ==
  ASSUME Typed, phase \in Opened, NEW entry \in Log, GiveUp, Record(entry), Handled,
         UNCHANGED sources
  PROVE  Typed'
<1>1. HoldingsTyped'
  BY GiveUpTyped
<1>2. RecordsTyped'
  BY RecordTyped DEF Handled
<1> QED
  BY <1>1, <1>2, HandledTyped

LEMMA EntriesTyped ==
  ASSUME Typed, phase \in Opened, rows[next].action \in Decreasing
  PROVE  DisposalEntry \in Log /\ TransferEntry \in Log /\ GiftEntry \in Log
<1>1. /\ units \in Int /\ units >= 0 /\ log \in Log /\ row.price \in Nat
      /\ log.disposed + units \in Nat
  BY RowRead, SignOf DEF Log
<1>2. GiftKind \in {"connected", "unconnected"}
  BY DEF GiftKind
<1>3. DisposalEntry \in Log
  BY <1>1 DEF DisposalEntry, Log
<1>4. TransferEntry \in Log
  BY <1>1 DEF TransferEntry, Log
<1>5. GiftEntry \in Log
  BY <1>1, <1>2 DEF GiftEntry, Log
<1> QED
  BY <1>3, <1>4, <1>5

LEMMA AddDisposalTyped == Typed /\ AddDisposal => Typed'
<1> SUFFICES ASSUME Typed, AddDisposal
             PROVE  Typed'
  OBVIOUS
<1>1. phase \in Opened /\ rows[next].action \in Decreasing
  BY ReadingRow DEF AddDisposal, Decreasing
<1>2. \/ Refuse("shortfall") \/ Refuse("gift")
      \/ GiveUp /\ Record(DisposalEntry) /\ Handled /\ UNCHANGED sources
  BY DEF AddDisposal, DisposalEntry
<1> QED
  BY <1>1, <1>2, RefusedTyped, EntriesTyped, DecreaseTyped

LEMMA AddTransferToSpouseTyped == Typed /\ AddTransferToSpouse => Typed'
<1> SUFFICES ASSUME Typed, AddTransferToSpouse
             PROVE  Typed'
  OBVIOUS
<1>1. phase \in Opened /\ rows[next].action \in Decreasing
  BY ReadingRow DEF AddTransferToSpouse, Decreasing
<1>2. \/ Refuse("shortfall")
      \/ GiveUp /\ Record(TransferEntry) /\ Handled /\ UNCHANGED sources
  BY DEF AddTransferToSpouse, TransferEntry
<1> QED
  BY <1>1, <1>2, RefusedTyped, EntriesTyped, DecreaseTyped

LEMMA AddGiftTyped == Typed /\ AddGift => Typed'
<1> SUFFICES ASSUME Typed, AddGift
             PROVE  Typed'
  OBVIOUS
<1>1. phase \in Opened /\ rows[next].action \in Decreasing
  BY ReadingRow DEF AddGift, Decreasing
<1>2. \/ Refuse("shortfall") \/ Refuse("gift")
      \/ GiveUp /\ Record(GiftEntry) /\ Handled /\ UNCHANGED sources
  BY DEF AddGift, GiftEntry, GiftKind
<1> QED
  BY <1>1, <1>2, RefusedTyped, EntriesTyped, DecreaseTyped

LEMMA StillTyped ==
  ASSUME Typed, UNCHANGED <<rows, next, planned, portfolio, sources, pool_quantity,
                            balance, logs, renames, components, capacities, splits>>,
         phase' \in Phases, phase' \in Opened => next <= Len(rows)
  PROVE  Typed'
  BY DEF Typed, PlaceTyped, HoldingsTyped, PoolTyped, RecordsTyped, PlansTyped, Sign

LEMMA NoteSourceTyped == Typed /\ NoteSource => Typed'
<1> SUFFICES ASSUME Typed, NoteSource
             PROVE  Typed'
  OBVIOUS
<1>1. /\ next <= Len(rows) /\ phase' = "row"
      /\ UNCHANGED <<rows, next, refusal, planned, portfolio, pool_quantity, balance, logs,
                     renames, components, capacities, splits>>
  BY DEF NoteSource
<1>2. PlaceTyped' /\ PoolTyped' /\ RecordsTyped' /\ PlansTyped'
  BY <1>1 DEF Typed, PlaceTyped, PoolTyped, RecordsTyped, PlansTyped, Sign, Phases, Opened
<1>3. HoldingsTyped'
  <2>1. row \in Row
    BY <1>1, RowType DEF Typed, PlaceTyped, row
  <2>2. row.symbol \in Symbol /\ row.account \in Account
    BY <2>1 DEF Row
  <2> QED
    BY <1>1, <2>2 DEF NoteSource, Typed, HoldingsTyped
<1> QED
  BY <1>2, <1>3 DEF Typed

LEMMA AddManagementFeeTyped == Typed /\ AddManagementFee => Typed'
<1> SUFFICES ASSUME Typed, AddManagementFee
             PROVE  Typed'
  OBVIOUS
<1> DEFINE entry == [log EXCEPT !.fee_day = TRUE]
<1>1. phase \in Opened
  BY ReadingRow DEF AddManagementFee
<1>2. entry \in Log
  BY <1>1, RowRead DEF Log
<1>3. \/ Refuse("row")
      \/ Record(entry) /\ Handled /\ UNCHANGED <<portfolio, sources>>
  BY DEF AddManagementFee
<1> HIDE DEF entry
<1>4. CASE Refuse("row")
  BY <1>4, RefusedTyped
<1>5. CASE Record(entry) /\ Handled /\ UNCHANGED <<portfolio, sources>>
  <2>1. HoldingsTyped'
    BY <1>5 DEF Typed, HoldingsTyped
  <2>2. RecordsTyped'
    BY <1>1, <1>2, <1>5, RecordTyped DEF Handled
  <2> QED
    BY <1>1, <1>5, <2>1, <2>2, HandledTyped
<1> QED
  BY <1>3, <1>4, <1>5

LEMMA AddRenameTyped == Typed /\ AddRename => Typed'
<1> SUFFICES ASSUME Typed, AddRename
             PROVE  Typed'
  OBVIOUS
<1>1. phase \in Opened /\ Handled
  BY ReadingRow DEF AddRename
<1>2. /\ row.symbol \in Symbol /\ row.renamed \in Symbol
      /\ Held(row.symbol) \in Int /\ Held(row.renamed) \in Int
  BY <1>1, RowRead, HeldType
<1>3. HoldingsTyped'
  <2> DEFINE total == Held(row.symbol) + Held(row.renamed)
             names == (DOMAIN portfolio \ {row.renamed}) \cup {row.symbol}
  <2>1. /\ portfolio' = [n \in names |-> IF n = row.symbol THEN total ELSE portfolio[n]]
        /\ total \in Int
    BY <1>2 DEF AddRename
  <2>2. sources' \in [Symbol -> SUBSET Account]
    BY <1>2 DEF AddRename, Typed, HoldingsTyped
  <2> HIDE DEF total
  <2> QED
    BY <1>2, <2>1, <2>2 DEF Typed, HoldingsTyped
<1>4. RecordsTyped'
  BY DEF AddRename, Handled, Typed, RecordsTyped
<1> QED
  BY <1>1, <1>3, <1>4, HandledTyped

LEMMA PassOverTyped == Typed /\ (PassOver \/ RefuseOther \/ Finish) => Typed'
<1>1. Typed /\ PassOver => Typed'
  BY ReadingRow, HandledTyped DEF PassOver, Typed, HoldingsTyped, RecordsTyped, Handled
<1>2. Typed /\ RefuseOther => Typed'
  BY RefusedTyped DEF RefuseOther
<1>3. Typed /\ Finish => Typed'
  BY StillTyped DEF Finish, Phases, Opened
<1> QED
  BY <1>1, <1>2, <1>3

\* A report changes no log but for its price, or the history is refused.
SameButForEri(before, after) ==
  /\ after.acquired = before.acquired /\ after.disposed = before.disposed
  /\ after.transferred = before.transferred /\ after.sale_day = before.sale_day
  /\ after.gift = before.gift /\ after.gift_price = before.gift_price
EriRecorded ==
  /\ \A d \in Day, s \in Symbol :
       /\ logs'[d][s] \in Log
       /\ SameButForEri(logs[d][s], logs'[d][s])
  /\ logs' \in [Day -> [Symbol -> Log]]
  /\ next' = next + 1 /\ phase' = "open"
  /\ UNCHANGED <<rows, refusal, planned, portfolio, sources, pool_quantity,
                 balance, renames, components, capacities, splits>>

LEMMA AddEriRecords ==
  ASSUME Typed, AddEri
  PROVE  Refuse("row") \/ EriRecorded
<1>1. phase \in Opened
  BY ReadingRow DEF AddEri
<1>2. row.date \in Day /\ row.price \in Nat
  BY <1>1, RowRead
<1> DEFINE reported == {s \in EriNames(row.symbol) : logs[row.date][s].eri > 0}
           fresh == {s \in EriNames(row.symbol) : \A t \in reported : s < t}
           after == [s \in Symbol |-> IF s \in fresh
                       THEN [logs[row.date][s] EXCEPT !.eri = row.price]
                       ELSE logs[row.date][s]]
<1>3. \/ Refuse("row")
      \/ /\ logs' = [logs EXCEPT ![row.date] = after]
         /\ next' = next + 1 /\ phase' = "open"
         /\ UNCHANGED <<rows, refusal, planned, portfolio, sources, pool_quantity,
                        balance, renames, components, capacities, splits>>
  BY DEF AddEri
<1> HIDE DEF fresh
<1>4. \A s \in Symbol : logs[row.date][s] \in Log
  BY <1>2 DEF Typed, RecordsTyped
<1>5. \A s \in Symbol :
        /\ after[s] \in Log
        /\ SameButForEri(logs[row.date][s], after[s])
  BY <1>2, <1>4 DEF Log, SameButForEri
<1>6. after \in [Symbol -> Log]
  BY <1>5
<1>7. \A d \in Day, s \in Symbol :
        logs[d][s] \in Log /\ SameButForEri(logs[d][s], logs[d][s])
  BY DEF Typed, RecordsTyped, SameButForEri
<1>8. logs \in [Day -> [Symbol -> Log]]
  BY DEF Typed, RecordsTyped
<1> HIDE DEF after
<1>9. ASSUME ~Refuse("row")
      PROVE  EriRecorded
  <2>1. logs' = [logs EXCEPT ![row.date] = after]
    BY <1>3, <1>9
  <2>2. logs' \in [Day -> [Symbol -> Log]]
    BY <1>2, <1>6, <1>8, <2>1
  <2>3. ASSUME NEW d \in Day, NEW s \in Symbol
        PROVE  /\ logs'[d][s] \in Log
               /\ SameButForEri(logs[d][s], logs'[d][s])
    <3>1. CASE d = row.date
      <4>1. logs'[d][s] = after[s]
        BY <1>8, <2>1, <3>1
      <4> QED
        BY <1>5, <3>1, <4>1
    <3>2. CASE d # row.date
      <4>1. logs'[d][s] = logs[d][s]
        BY <1>8, <2>1, <3>2
      <4> QED
        BY <1>7, <4>1
    <3> QED
      BY <3>1, <3>2
  <2> QED
    BY <1>3, <1>9, <2>2, <2>3 DEF EriRecorded
<1> QED
  BY <1>9

LEMMA AddEriTyped == Typed /\ AddEri => Typed'
<1> SUFFICES ASSUME Typed, AddEri
             PROVE  Typed'
  OBVIOUS
<1>1. phase \in Opened
  BY ReadingRow DEF AddEri
<1>2. Refuse("row") => Typed'
  BY RefusedTyped
<1>3. ASSUME EriRecorded
      PROVE  Typed'
  <2>1. next \in DOMAIN rows
    BY <1>1, RowRead
  <2>2. PlaceTyped'
    BY <1>3, <2>1, RowType DEF EriRecorded, Typed, PlaceTyped, Phases, Opened
  <2>3. HoldingsTyped' /\ PoolTyped' /\ RecordsTyped' /\ PlansTyped'
    BY <1>3 DEF EriRecorded, Typed, HoldingsTyped, PoolTyped, RecordsTyped, PlansTyped, Sign
  <2> QED
    BY <2>2, <2>3 DEF Typed
<1> QED
  BY <1>2, <1>3, AddEriRecords

LEMMA PostRowTyped == Typed /\ PostRow => Typed'
<1> SUFFICES ASSUME Typed, PostRow
             PROVE  Typed'
  OBVIOUS
<1>1. phase \in Opened
  BY DEF PostRow, Opened
<1>2. next \in DOMAIN rows /\ row.account \in Account /\ row.date \in Day /\ row.cash \in Int
  BY <1>1, RowRead
<1> DEFINE new_balance == balance[row.account] + CashMoved(next)
<1>3. CashMoved(next) \in Int
  BY <1>2 DEF CashMoved, row
<1>4. new_balance \in Int
  BY <1>2, <1>3 DEF Typed, RecordsTyped
<1>5. \/ Refuse("balance")
      \/ /\ balance' = [balance EXCEPT ![row.account] = new_balance]
         /\ portfolio' = IF LaterToday = {} THEN Gathered ELSE portfolio
         /\ sources' = IF LaterToday = {} THEN GatheredSources ELSE sources
         /\ next' = next + 1
         /\ phase' = "open"
         /\ UNCHANGED <<rows, refusal, planned, pool_quantity, logs, renames,
                        components, capacities, splits>>
  BY DEF PostRow
<1> HIDE DEF new_balance
<1>6. ASSUME ~Refuse("balance")
      PROVE  Typed'
  <2>1. PlaceTyped'
    BY <1>2, <1>5, <1>6, RowType DEF Typed, PlaceTyped, Phases, Opened
  <2>2. \A n \in Symbol : EndName(row.date, n) \in Symbol
    BY <1>2 DEF Typed, PlansTyped, EndName
  <2>3. /\ DOMAIN Gathered \subseteq Symbol
        /\ \A n \in DOMAIN Gathered : Gathered[n] \in Int
    <3> DEFINE parts(n) == {m \in DOMAIN portfolio : EndName(row.date, m) = n}
               names == {EndName(row.date, m) : m \in DOMAIN portfolio}
    <3>1. Gathered = [n \in names |-> MapThenSumSet(LAMBDA m : Held(m), parts(n))]
      BY Zenon DEF Gathered
    <3>2. DOMAIN portfolio \subseteq Symbol
      BY DEF Typed, HoldingsTyped
    <3>3. \A n : parts(n) \in SUBSET Symbol
      BY <3>2
    <3>4. names \subseteq Symbol
      BY <2>2, <3>2
    <3>5. \A n : MapThenSumSet(LAMBDA m : Held(m), parts(n)) \in Int
      BY <3>3, HeldSumType
    <3> HIDE DEF parts, names
    <3> QED
      BY <3>1, <3>4, <3>5
  <2>4. GatheredSources \in [Symbol -> SUBSET Account]
    <3>1. \A m \in Symbol : sources[m] \in SUBSET Account
      BY DEF Typed, HoldingsTyped
    <3> QED
      BY <3>1 DEF GatheredSources
  <2>5. HoldingsTyped'
    BY <1>5, <1>6, <2>3, <2>4 DEF Typed, HoldingsTyped
  <2>6. RecordsTyped'
    BY <1>2, <1>4, <1>5, <1>6 DEF Typed, RecordsTyped
  <2>7. PoolTyped' /\ PlansTyped'
    BY <1>5, <1>6 DEF Typed, PoolTyped, PlansTyped, Sign
  <2> QED
    BY <2>1, <2>5, <2>6, <2>7 DEF Typed
<1> QED
  BY <1>6, RefusedTyped

LEMMA StepTyped == Typed /\ [Next]_vars => Typed'
<1> SUFFICES ASSUME Typed, [Next]_vars
             PROVE  Typed'
  OBVIOUS
<1>1. CASE UNCHANGED vars
  BY <1>1, StillTyped DEF vars, Typed, PlaceTyped
<1> QED
  BY <1>1, OpenTransactionDayTyped, PlanStockSplitTyped, NoteSourceTyped, AddAcquisitionTyped,
     AddDisposalTyped, AddTransferToSpouseTyped, AddGiftTyped, AddManagementFeeTyped,
     AddRenameTyped, PassOverTyped, AddEriTyped, PostRowTyped DEF Next

----------------------------------------------------------------------------
(***************************************************************************)
(* Gifts.  The rows read so far are all in their day's logs, and a log     *)
(* that has a gift to a connected person has no sale.                      *)
(***************************************************************************)
ReadRows == {i \in DOMAIN rows : i < next \/ (i = next /\ phase = "post")}

Fits(i, entry) ==
  /\ rows[i].action = "GIFT" => entry.gift = "connected" /\ entry.gift_price = rows[i].price
  /\ rows[i].action = "GIFT_UNCONNECTED" => entry.gift = "unconnected"
  /\ rows[i].action \in Sales => entry.sale_day
Apart(entry) == entry.gift = "connected" => ~entry.sale_day

GiftsInv ==
  /\ Typed
  /\ \A i \in ReadRows : Fits(i, logs[rows[i].date][rows[i].symbol])
  /\ \A d \in Day, s \in Symbol : Apart(logs[d][s])
  /\ phase = "ingested" => next > Len(rows)

LEMMA RowPlace ==
  ASSUME Typed
  PROVE  \A i \in DOMAIN rows : rows[i].date \in Day /\ rows[i].symbol \in Symbol
  BY RowType DEF Typed, PlaceTyped, Row

LEMMA ReadOnRefusal ==
  ASSUME NEW reason, Refuse(reason), GiftsInv
  PROVE  GiftsInv'
<1>1. Typed'
  BY RefusedTyped DEF GiftsInv
<1>2. ReadRows' \subseteq ReadRows /\ UNCHANGED <<rows, logs>> /\ phase' = "refused"
  BY DEF Refuse, ReadRows
<1> QED
  BY <1>1, <1>2 DEF GiftsInv, Fits

\* A step that leaves the logs alone and reads no row further.
LEMMA GiftsUntouched ==
  ASSUME GiftsInv, Typed', UNCHANGED <<rows, logs, next>>, phase' # "post",
         phase' # "ingested"
  PROVE  GiftsInv'
<1>1. ReadRows' \subseteq ReadRows
  BY DEF ReadRows
<1> QED
  BY <1>1 DEF GiftsInv, Fits

LEMMA GiftsRecord ==
  ASSUME GiftsInv, Typed', phase = "row", Handled, NEW entry \in Log, Record(entry),
         \A i \in DOMAIN rows : Fits(i, log) => Fits(i, entry),
         Fits(next, entry), Apart(entry)
  PROVE  GiftsInv'
<1>1. /\ ReadRows' = ReadRows \cup {next} /\ UNCHANGED <<rows, next>> /\ phase' = "post"
      /\ Typed
  <2>1. next \in DOMAIN rows
    BY RowRead DEF GiftsInv, Opened
  <2> QED
    BY <2>1 DEF ReadRows, Handled, GiftsInv
<1>2. \A i, e : Fits(i, e)' = Fits(i, e)
  BY <1>1 DEF Fits
<1>3. row.date \in Day /\ row.symbol \in Symbol /\ row = rows[next]
  BY RowRead DEF GiftsInv, Opened
<1>4. logs \in [Day -> [Symbol -> Log]]
  BY DEF GiftsInv, Typed, RecordsTyped
<1>5. logs' = [logs EXCEPT ![row.date][row.symbol] = entry]
  BY DEF Record
<1>6. \A d \in Day, s \in Symbol :
        logs'[d][s] = IF d = row.date /\ s = row.symbol THEN entry ELSE logs[d][s]
  BY <1>3, <1>4, <1>5
<1>7. \A d \in Day, s \in Symbol : Apart(logs'[d][s])
  BY <1>6 DEF GiftsInv
<1>8. ASSUME NEW i \in ReadRows'
      PROVE  Fits(i, logs'[rows[i].date][rows[i].symbol])
  <2>1. i \in DOMAIN rows /\ rows[i].date \in Day /\ rows[i].symbol \in Symbol
    BY <1>1, RowPlace DEF ReadRows
  <2>2. CASE i = next
    BY <1>3, <1>6, <2>1, <2>2
  <2>3. CASE i # next
    <3>1. Fits(i, logs[rows[i].date][rows[i].symbol])
      BY <1>1, <2>3 DEF GiftsInv
    <3>2. CASE rows[i].date = row.date /\ rows[i].symbol = row.symbol
      <4>1. Fits(i, log)
        BY <3>1, <3>2 DEF log
      <4> QED
        BY <1>6, <2>1, <3>2, <4>1
    <3>3. CASE ~(rows[i].date = row.date /\ rows[i].symbol = row.symbol)
      BY <1>6, <2>1, <3>1, <3>3
    <3> QED
      BY <3>2, <3>3
  <2> QED
    BY <2>2, <2>3
<1>9. (\A i \in ReadRows : Fits(i, logs[rows[i].date][rows[i].symbol]))'
  BY <1>1, <1>8 DEF Fits
<1>10. (\A d \in Day, s \in Symbol : Apart(logs[d][s]))'
  BY <1>7 DEF Apart
<1> QED
  BY <1>1, <1>9, <1>10 DEF GiftsInv

LEMMA AddAcquisitionGifts == GiftsInv /\ AddAcquisition => GiftsInv'
<1> SUFFICES ASSUME GiftsInv, AddAcquisition
             PROVE  GiftsInv'
  OBVIOUS
<1> DEFINE old == log
           entry == [old EXCEPT !.acquired = @ + units]
<1>1. Typed' /\ Typed
  BY AddAcquisitionTyped DEF GiftsInv
<1>2. /\ phase = "row" /\ Handled /\ Record(entry) /\ rows[next].action \in Increasing
  BY ReadingRow DEF AddAcquisition
<1>3. old \in Log /\ units \in Int /\ units >= 0
  BY <1>1, <1>2, RowRead, SignOf DEF Opened
<1>4. Apart(old)
  BY <1>1, <1>2, RowRead DEF GiftsInv, Opened, log
<1> HIDE DEF old
<1>5. entry \in Log /\ \A i \in DOMAIN rows : Fits(i, old) => Fits(i, entry)
  BY <1>3 DEF Log, Fits
<1>6. Apart(entry)
  BY <1>3, <1>4 DEF Log, Apart
<1>7. Fits(next, entry)
  BY <1>2 DEF Fits, Increasing, Sales
<1> HIDE DEF entry
<1> QED
  BY <1>1, <1>2, <1>5, <1>6, <1>7, GiftsRecord DEF old

LEMMA AddDisposalGifts == GiftsInv /\ AddDisposal => GiftsInv'
<1> SUFFICES ASSUME GiftsInv, AddDisposal
             PROVE  GiftsInv'
  OBVIOUS
<1> DEFINE old == log
           entry == [old EXCEPT !.disposed = @ + units, !.sale_day = TRUE]
<1>1. Typed' /\ Typed
  BY AddDisposalTyped DEF GiftsInv
<1>2. phase = "row" /\ rows[next].action \in Sales
  BY ReadingRow DEF AddDisposal
<1>3. \/ Refuse("shortfall") \/ Refuse("gift")
      \/ old.gift # "connected" /\ Handled /\ Record(entry)
  BY DEF AddDisposal
<1>4. old \in Log /\ old.disposed + units \in Nat
  BY <1>1, <1>2, RowRead, SignOf DEF Opened, Decreasing, Log
<1>5. CASE Refuse("shortfall") \/ Refuse("gift")
  BY <1>5, ReadOnRefusal
<1>6. CASE old.gift # "connected" /\ Handled /\ Record(entry)
  <2> HIDE DEF old
  <2>1. entry \in Log /\ entry.sale_day /\ entry.gift = old.gift
    BY <1>4 DEF Log
  <2>2. \A i \in DOMAIN rows : Fits(i, old) => Fits(i, entry)
    BY <1>4 DEF Log, Fits
  <2>3. Apart(entry)
    BY <1>6, <2>1 DEF Apart
  <2>4. Fits(next, entry)
    BY <1>2, <2>1 DEF Fits, Sales
  <2> HIDE DEF entry
  <2> QED
    BY <1>1, <1>2, <1>6, <2>1, <2>2, <2>3, <2>4, GiftsRecord DEF old
<1> QED
  BY <1>3, <1>5, <1>6

LEMMA AddTransferToSpouseGifts == GiftsInv /\ AddTransferToSpouse => GiftsInv'
<1> SUFFICES ASSUME GiftsInv, AddTransferToSpouse
             PROVE  GiftsInv'
  OBVIOUS
<1> DEFINE old == log
           entry == [old EXCEPT !.transferred = @ + units]
<1>1. Typed' /\ Typed
  BY AddTransferToSpouseTyped DEF GiftsInv
<1>2. phase = "row" /\ rows[next].action = "TRANSFER_TO_SPOUSE"
  BY ReadingRow DEF AddTransferToSpouse
<1>3. Refuse("shortfall") \/ (Handled /\ Record(entry))
  BY DEF AddTransferToSpouse
<1>4. old \in Log /\ units \in Int /\ units >= 0
  BY <1>1, <1>2, RowRead, SignOf DEF Opened, Decreasing
<1>5. Apart(old)
  BY <1>1, <1>2, RowRead DEF GiftsInv, Opened, log
<1>6. CASE Refuse("shortfall")
  BY <1>6, ReadOnRefusal
<1>7. CASE Handled /\ Record(entry)
  <2> HIDE DEF old
  <2>1. entry \in Log /\ \A i \in DOMAIN rows : Fits(i, old) => Fits(i, entry)
    BY <1>4 DEF Log, Fits
  <2>2. Apart(entry)
    BY <1>4, <1>5 DEF Log, Apart
  <2>3. Fits(next, entry)
    BY <1>2 DEF Fits, Sales
  <2> HIDE DEF entry
  <2> QED
    BY <1>1, <1>2, <1>7, <2>1, <2>2, <2>3, GiftsRecord DEF old
<1> QED
  BY <1>3, <1>6, <1>7

LEMMA AddGiftGifts == GiftsInv /\ AddGift => GiftsInv'
<1> SUFFICES ASSUME GiftsInv, AddGift
             PROVE  GiftsInv'
  OBVIOUS
<1> DEFINE old == log
           kind == GiftKind
           price == row.price
           entry == [old EXCEPT !.disposed = @ + units, !.gift = kind,
                        !.gift_price = IF kind = "connected" THEN price ELSE @]
<1>1. Typed' /\ Typed
  BY AddGiftTyped DEF GiftsInv
<1>2. phase = "row" /\ rows[next].action \in {"GIFT", "GIFT_UNCONNECTED"}
  BY ReadingRow DEF AddGift
<1>3. \/ Refuse("shortfall") \/ Refuse("gift")
      \/ ~GiftsClash(kind) /\ Handled /\ Record(entry)
  BY DEF AddGift, GiftKind
<1>4. old \in Log /\ old.disposed + units \in Nat /\ price \in Nat /\ next \in DOMAIN rows
  BY <1>1, <1>2, RowRead, SignOf DEF Opened, Decreasing, Log
<1>5. /\ kind \in {"connected", "unconnected"} /\ price = rows[next].price
      /\ kind = "connected" <=> rows[next].action = "GIFT"
  BY DEF GiftKind, row
<1>6. CASE Refuse("shortfall") \/ Refuse("gift")
  BY <1>6, ReadOnRefusal
<1>7. CASE ~GiftsClash(kind) /\ Handled /\ Record(entry)
  <2>1. /\ kind = "connected" => ~old.sale_day
        /\ old.gift \in {"none", kind}
        /\ kind = "connected" => old.gift_price \in {NoPrice, price}
    BY <1>7 DEF GiftsClash
  <2> HIDE DEF old, kind, price
  <2> DEFINE stated == IF kind = "connected" THEN price ELSE old.gift_price
  <2>7. stated \in {NoPrice} \cup Nat
    BY <1>4 DEF Log
  <2>8. entry = [old EXCEPT !.disposed = old.disposed + units, !.gift = kind,
                            !.gift_price = stated]
    OBVIOUS
  <2> HIDE DEF entry, stated
  <2>2. /\ entry \in Log /\ entry.gift = kind /\ entry.sale_day = old.sale_day
        /\ entry.gift_price = stated
    BY <1>4, <1>5, <2>7, <2>8 DEF Log
  <2>3. \A i \in DOMAIN rows : rows[i].price \in Nat
    BY <1>1, RowType DEF Typed, PlaceTyped, Row
  <2>4. ASSUME NEW i \in DOMAIN rows, Fits(i, old)
        PROVE  Fits(i, entry)
    <3>1. rows[i].action = "GIFT" => kind = "connected" /\ old.gift_price = rows[i].price
      BY <1>5, <2>1, <2>4 DEF Fits
    <3>2. rows[i].action = "GIFT" => entry.gift_price = rows[i].price
      BY <2>1, <2>2, <2>3, <3>1 DEF NoPrice, stated
    <3>3. rows[i].action = "GIFT_UNCONNECTED" => kind = "unconnected"
      BY <1>5, <2>1, <2>4 DEF Fits
    <3> QED
      BY <2>2, <2>4, <3>1, <3>2, <3>3 DEF Fits
  <2>5. Apart(entry)
    BY <2>1, <2>2 DEF Apart
  <2>6. Fits(next, entry)
    BY <1>2, <1>5, <2>2 DEF Fits, Sales, stated
  <2> QED
    BY <1>1, <1>2, <1>7, <2>2, <2>4, <2>5, <2>6, GiftsRecord DEF old
<1> QED
  BY <1>3, <1>6, <1>7

\* Reading on past a row that is neither a sale nor a gift.
LEMMA GiftsPassed ==
  ASSUME GiftsInv, Typed', UNCHANGED rows, phase' # "ingested",
         \A i \in ReadRows' \ ReadRows : rows[i].action \notin Decreasing,
         \A d \in Day, s \in Symbol :
           /\ logs'[d][s].gift = logs[d][s].gift
           /\ logs'[d][s].gift_price = logs[d][s].gift_price
           /\ logs'[d][s].sale_day = logs[d][s].sale_day
  PROVE  GiftsInv'
<1>1. ASSUME NEW i \in ReadRows'
      PROVE  Fits(i, logs'[rows[i].date][rows[i].symbol])
  <2>1. rows[i].date \in Day /\ rows[i].symbol \in Symbol
    BY RowPlace DEF ReadRows, GiftsInv
  <2>2. CASE i \in ReadRows
    <3>1. Fits(i, logs[rows[i].date][rows[i].symbol])
      BY <2>2 DEF GiftsInv
    <3> QED
      BY <2>1, <3>1 DEF Fits
  <2>3. CASE i \notin ReadRows
    BY <2>3 DEF Fits, Decreasing, Sales
  <2> QED
    BY <2>2, <2>3
<1>2. (\A i \in ReadRows : Fits(i, logs[rows[i].date][rows[i].symbol]))'
  BY <1>1 DEF Fits
<1>3. (\A d \in Day, s \in Symbol : Apart(logs[d][s]))'
  BY DEF GiftsInv, Apart
<1> QED
  BY <1>2, <1>3 DEF GiftsInv

LEMMA OthersKeepGifts ==
  ASSUME GiftsInv, AddManagementFee \/ AddRename \/ PassOver
  PROVE  GiftsInv'
<1>1. Typed /\ Typed'
  BY AddManagementFeeTyped, AddRenameTyped, PassOverTyped DEF GiftsInv
<1>2. /\ rows[next].action \in {"FEE", "RENAME", "CASH", "STOCK_SPLIT"} /\ phase = "row"
      /\ next \in DOMAIN rows
  BY <1>1, ReadingRow, RowRead DEF AddManagementFee, AddRename, PassOver
<1>3. CASE Refuse("row")
  BY <1>3, ReadOnRefusal
<1>4. CASE ~Refuse("row")
  <2>1. Handled /\ UNCHANGED rows /\ phase' = "post"
    BY <1>4 DEF AddManagementFee, AddRename, PassOver, Handled
  <2>2. \A i \in ReadRows' \ ReadRows : rows[i].action \notin Decreasing
    BY <1>2, <2>1 DEF ReadRows, Handled, Decreasing, Sales
  <2>3. logs' = logs \/ Record([log EXCEPT !.fee_day = TRUE])
    BY <1>4 DEF AddManagementFee, AddRename, PassOver
  <2>4. \A d \in Day, s \in Symbol :
          /\ logs'[d][s].gift = logs[d][s].gift
          /\ logs'[d][s].gift_price = logs[d][s].gift_price
          /\ logs'[d][s].sale_day = logs[d][s].sale_day
    <3> DEFINE entry == [log EXCEPT !.fee_day = TRUE]
    <3>1. /\ row.date \in Day /\ row.symbol \in Symbol /\ log \in Log
          /\ logs \in [Day -> [Symbol -> Log]]
      BY <1>1, <1>2, RowRead DEF Opened, Typed, RecordsTyped
    <3>2. /\ entry.gift = log.gift /\ entry.gift_price = log.gift_price
          /\ entry.sale_day = log.sale_day
      BY <3>1 DEF Log
    <3>3. logs' = logs \/ logs' = [logs EXCEPT ![row.date][row.symbol] = entry]
      BY <2>3 DEF Record
    <3> HIDE DEF entry
    <3> QED
      BY <3>1, <3>2, <3>3 DEF log
  <2> QED
    BY <1>1, <2>1, <2>2, <2>4, GiftsPassed
<1> QED
  BY <1>3, <1>4

LEMMA AddEriKeepsGifts == GiftsInv /\ AddEri => GiftsInv'
<1> SUFFICES ASSUME GiftsInv, AddEri
             PROVE  GiftsInv'
  OBVIOUS
<1>1. Typed /\ Typed'
  BY AddEriTyped DEF GiftsInv
<1>2. phase = "row" /\ rows[next].action = "EXCESS_REPORTED_INCOME" /\ next \in DOMAIN rows
  BY <1>1, ReadingRow, RowRead DEF AddEri
<1>3. CASE Refuse("row")
  BY <1>3, ReadOnRefusal
<1>4. CASE EriRecorded
  <2>1. \A i \in ReadRows' \ ReadRows : rows[i].action \notin Decreasing
    <3>1. ReadRows' \subseteq ReadRows \cup {next}
      BY <1>2, <1>4, RowType DEF ReadRows, EriRecorded, GiftsInv, Typed, PlaceTyped
    <3> QED
      BY <1>2, <3>1 DEF Decreasing, Sales
  <2>3. \A d \in Day, s \in Symbol :
          /\ logs'[d][s].gift = logs[d][s].gift
          /\ logs'[d][s].gift_price = logs[d][s].gift_price
          /\ logs'[d][s].sale_day = logs[d][s].sale_day
    BY <1>4 DEF EriRecorded, SameButForEri
  <2>4. UNCHANGED rows /\ phase' # "ingested"
    BY <1>4 DEF EriRecorded
  <2> QED
    BY <1>1, <2>1, <2>3, <2>4, GiftsPassed
<1> QED
  BY <1>1, <1>3, <1>4, AddEriRecords

LEMMA PlanningKeepsGifts ==
  ASSUME GiftsInv, OpenTransactionDay \/ PlanStockSplit \/ NoteSource
  PROVE  GiftsInv'
<1>1. Typed'
  BY OpenTransactionDayTyped, PlanStockSplitTyped, NoteSourceTyped DEF GiftsInv
<1>2. UNCHANGED <<rows, logs, next>> /\ phase' \in {"refused", "plan", "row"}
  BY DEF OpenTransactionDay, PlanStockSplit, NoteSource, Refuse
<1> QED
  BY <1>1, <1>2, GiftsUntouched

LEMMA EndsKeepGifts ==
  ASSUME GiftsInv, PostRow \/ Finish \/ RefuseOther
  PROVE  GiftsInv'
<1>1. Typed /\ Typed'
  BY PostRowTyped, PassOverTyped DEF GiftsInv
<1>2. CASE \E reason : Refuse(reason)
  BY <1>2, ReadOnRefusal
<1>3. CASE ~\E reason : Refuse(reason)
  <2>1. /\ UNCHANGED <<rows, logs>>
        /\ \/ phase = "post" /\ next' = next + 1 /\ phase' = "open"
           \/ phase = "open" /\ next' = next /\ phase' = "ingested" /\ next > Len(rows)
    BY <1>3 DEF PostRow, Finish, RefuseOther
  <2>2. ReadRows' = ReadRows
    BY <1>1, <2>1, RowType DEF ReadRows, Typed, PlaceTyped
  <2> QED
    BY <1>1, <2>1, <2>2 DEF GiftsInv, Fits
<1> QED
  BY <1>2, <1>3

LEMMA StepKeepsGifts == GiftsInv /\ [Next]_vars => GiftsInv'
<1> SUFFICES ASSUME GiftsInv, [Next]_vars
             PROVE  GiftsInv'
  OBVIOUS
<1>1. CASE UNCHANGED vars
  <2>1. Typed'
    BY <1>1, StepTyped DEF GiftsInv
  <2> QED
    BY <1>1, <2>1 DEF vars, GiftsInv, ReadRows, Fits
<1> QED
  BY <1>1, AddAcquisitionGifts, AddDisposalGifts, AddTransferToSpouseGifts, AddGiftGifts,
     OthersKeepGifts, AddEriKeepsGifts, PlanningKeepsGifts, EndsKeepGifts DEF Next

LEMMA InitGifts == Init => GiftsInv
<1> SUFFICES ASSUME Init
             PROVE  GiftsInv
  OBVIOUS
<1>1. Typed
  BY InitTyped
<1>2. ReadRows = {}
  BY <1>1, RowType DEF Init, ReadRows, Typed, PlaceTyped
<1>3. \A d \in Day, s \in Symbol : Apart(logs[d][s])
  BY DEF Init, Apart, NoLog
<1>4. phase # "ingested"
  BY DEF Init
<1> QED
  BY <1>1, <1>2, <1>3, <1>4 DEF GiftsInv

LEMMA GiftsStandAlone == GiftsInv => ConnectedGiftStandsAlone
<1> SUFFICES ASSUME GiftsInv, phase = "ingested", NEW i \in DOMAIN rows, NEW j \in DOMAIN rows,
                    rows[i].action = "GIFT",
                    rows[j].action \in Decreasing \ {"TRANSFER_TO_SPOUSE"},
                    rows[j].date = rows[i].date, rows[j].symbol = rows[i].symbol
             PROVE  rows[j].action = "GIFT" /\ rows[j].price = rows[i].price
  BY DEF ConnectedGiftStandsAlone
<1> DEFINE entry == logs[rows[i].date][rows[i].symbol]
<1>1. i \in ReadRows /\ j \in ReadRows
  BY RowType DEF GiftsInv, Typed, PlaceTyped, ReadRows
<1>2. Fits(i, entry) /\ Fits(j, entry)
  BY <1>1 DEF GiftsInv
<1>3. Apart(entry)
  BY RowPlace DEF GiftsInv
<1> HIDE DEF entry
<1> QED
  BY <1>2, <1>3 DEF Fits, Apart, Decreasing, Sales

\* The first pass keeps its state well formed: counts are whole numbers,
\* and what it records of a day is never negative.
THEOREM FirstPassTyped == Spec => []Typed
<1>1. Init => Typed
  BY InitTyped
<1>2. Typed /\ [Next]_vars => Typed'
  BY StepTyped
<1> QED
  BY <1>1, <1>2, PTL DEF Spec

\* A day's gift to a connected person is the whole of its disposal, whatever
\* rows the history has and in whatever order the parsers left them.
THEOREM GiftsAlwaysStandAlone == Spec => []ConnectedGiftStandsAlone
<1>1. Init => GiftsInv
  BY InitGifts
<1>2. GiftsInv /\ [Next]_vars => GiftsInv'
  BY StepKeepsGifts
<1>3. GiftsInv => ConnectedGiftStandsAlone
  BY GiftsStandAlone
<1> QED
  BY <1>1, <1>2, <1>3, PTL DEF Spec

----------------------------------------------------------------------------
(***************************************************************************)
(* Cash.  An account's balance is what the rows read so far moved, and it  *)
(* has been judged at the last row of each day it has closed.              *)
(***************************************************************************)
IsEri(i) == rows[i].action = "EXCESS_REPORTED_INCOME"
PostedTo(n, a) == {i \in DOMAIN rows : i < n /\ rows[i].account = a}
CashPosted(n, a) == SumFunctionOnSet(CashBy(DOMAIN rows), PostedTo(n, a))

\* What an account closes a day with, and whether that is an overdraft.
CashTo(a, d) ==
  SumFunctionOnSet(CashBy(DOMAIN rows),
                   {i \in DOMAIN rows : rows[i].account = a /\ rows[i].date <= d})
Overspent(d) == \E i \in RowsOn(d) : ~IsEri(i) /\ CashTo(rows[i].account, d) < 0

ClosesItsDay(i) ==
  \A j \in RowsOn(rows[i].date) : j > i /\ ~IsEri(j) => rows[j].account # rows[i].account

BalancesPosted == \A a \in Account : balance[a] = CashPosted(next, a)
ClosedInCredit ==
  balance_check =>
    \A i \in DOMAIN rows : i < next /\ ~IsEri(i) /\ ClosesItsDay(i) =>
      CashTo(rows[i].account, rows[i].date) >= 0
RefusedOverdrawn == refusal = "balance" => phase = "refused" /\ Overspent(row.date)

CashInv ==
  /\ Typed
  /\ phase = "ingested" => next > Len(rows)
  /\ phase = "post" => ~IsEri(next)
  /\ BalancesPosted
  /\ ClosedInCredit
  /\ RefusedOverdrawn

LEMMA CashType ==
  ASSUME Typed
  PROVE  /\ \A i \in DOMAIN rows : CashMoved(i) \in Int
         /\ \A i \in DOMAIN rows : CashBy(DOMAIN rows)[i] = CashMoved(i)
         /\ \A i \in DOMAIN rows : IsEri(i) => CashMoved(i) = 0
         /\ \A indices \in SUBSET DOMAIN rows : IsFiniteSet(indices)
         /\ \A i \in DOMAIN rows : rows[i].account \in Account /\ rows[i].date \in Day
         /\ DOMAIN rows = 1 .. Len(rows) /\ Len(rows) \in Nat
<1>1. rows \in Ledgers
  BY DEF Typed, PlaceTyped
<1>2. \A i \in DOMAIN rows : rows[i] \in Row
  BY <1>1, RowType
<1>3. \A i \in DOMAIN rows :
        rows[i].account \in Account /\ rows[i].date \in Day /\ rows[i].cash \in Int
  BY <1>2 DEF Row
<1>4. \A i \in DOMAIN rows : CashMoved(i) \in Int
  BY <1>3 DEF CashMoved
<1>5. \A i \in DOMAIN rows : IsEri(i) => CashMoved(i) = 0
  BY DEF CashMoved, IsEri, Sales
<1>6. \A i \in DOMAIN rows : CashBy(DOMAIN rows)[i] = CashMoved(i)
  BY DEF CashBy
<1> QED
  BY <1>1, <1>3, <1>4, <1>5, <1>6, RowsFinite, RowType

LEMMA RowsInOrder ==
  ASSUME Typed
  PROVE  \A i, j \in DOMAIN rows : i <= j => rows[i].date <= rows[j].date
<1>1. rows \in Ledgers
  BY DEF Typed, PlaceTyped
<1>2. DOMAIN rows = 1 .. Len(rows) /\ Len(rows) \in Nat
  BY <1>1, RowType
<1>3. \A i \in DOMAIN rows : rows[i].date \in Int
  BY <1>1, RowType DEF Row, Day
<1>4. \A i, j \in 1 .. Len(rows) : i < j =>
        rows[i].date < rows[j].date \/ rows[i].date = rows[j].date
  BY <1>1, IngestionAssumption DEF Sorted
<1> QED
  BY <1>2, <1>3, <1>4

\* Reading one more row posts its cash to its account.
LEMMA PostingNext ==
  ASSUME Typed, NEW n \in DOMAIN rows, NEW a
  PROVE  CashPosted(n + 1, a)
           = IF a = rows[n].account THEN CashPosted(n, a) + CashMoved(n) ELSE CashPosted(n, a)
<1> DEFINE cash == CashBy(DOMAIN rows)
           before == PostedTo(n, a)
<1>1. n \in Nat /\ \A i \in DOMAIN rows : i \in Int
  BY CashType
<1>2. CASE a = rows[n].account
  <2>1. PostedTo(n + 1, a) = before \cup {n}
    BY <1>1, <1>2 DEF PostedTo
  <2>2. IsFiniteSet(before) /\ n \notin before
    BY <1>1, CashType DEF PostedTo
  <2>3. (\A i \in before : cash[i] \in Int) /\ cash[n] \in Int /\ cash[n] = CashMoved(n)
    BY CashType DEF PostedTo
  <2> HIDE DEF cash, before
  <2>4. SumFunctionOnSet(cash, before \cup {n}) = SumFunctionOnSet(cash, before) + cash[n]
    BY <2>2, <2>3, SumAdd
  <2> QED
    BY <1>2, <2>1, <2>3, <2>4 DEF CashPosted, cash, before
<1>3. CASE a # rows[n].account
  <2>1. PostedTo(n + 1, a) = before
    BY <1>1, <1>3 DEF PostedTo
  <2> QED
    BY <1>3, <2>1 DEF CashPosted
<1> QED
  BY <1>2, <1>3

\* An account's last row of a day leaves it with what it closes the day with.
LEMMA ClosingIsPosted ==
  ASSUME Typed, NEW i \in DOMAIN rows, ClosesItsDay(i)
  PROVE  CashTo(rows[i].account, rows[i].date) = CashPosted(i + 1, rows[i].account)
<1> DEFINE a == rows[i].account
           d == rows[i].date
           all == {j \in DOMAIN rows : rows[j].account = a /\ rows[j].date <= d}
           cash == CashBy(DOMAIN rows)
<1>1. IsFiniteSet(all) /\ all \in SUBSET DOMAIN rows
  BY CashType
<1>2. PostedTo(i + 1, a) \in SUBSET all
  BY RowsInOrder, CashType DEF PostedTo
<1>3. \A j \in all \ PostedTo(i + 1, a) : cash[j] = 0
  <2> SUFFICES ASSUME NEW j \in all \ PostedTo(i + 1, a)
               PROVE  IsEri(j)
    BY CashType
  <2>1. j > i /\ j \in DOMAIN rows
    BY CashType DEF PostedTo
  <2>2. rows[j].date = d
    <3>1. d <= rows[j].date /\ rows[j].date <= d
      BY <2>1, RowsInOrder, CashType
    <3>2. d \in Int /\ rows[j].date \in Int
      BY <2>1, CashType DEF Day
    <3> QED
      BY <3>1, <3>2
  <2>3. j \in RowsOn(d)
    BY <2>1, <2>2 DEF RowsOn
  <2> QED
    BY <2>1, <2>3 DEF ClosesItsDay
<1>4. \A j \in all : cash[j] \in Int
  BY <1>1, CashType
<1> HIDE DEF cash, all
<1>5. SumFunctionOnSet(cash, all) = SumFunctionOnSet(cash, PostedTo(i + 1, a))
  BY <1>1, <1>2, <1>3, <1>4, SumOfSupport
<1> QED
  BY <1>5 DEF CashPosted, CashTo, cash, all

LEMMA ClosingIsCashTo ==
  ASSUME Typed, NEW a, NEW d
  PROVE  ClosingCash(a, d) = CashTo(a, d)
<1> DEFINE all == {j \in DOMAIN rows : rows[j].account = a /\ rows[j].date <= d}
<1>1. IsFiniteSet(all)
  BY CashType
<1>2. ClosingCash(a, d) = SumFunctionOnSet(CashBy(all), all)
  BY <1>1, CashSum DEF ClosingCash
<1>3. \A j \in all : CashBy(all)[j] = CashBy(DOMAIN rows)[j]
  BY CashType DEF CashBy
<1>4. SumFunctionOnSet(CashBy(all), all) = SumFunctionOnSet(CashBy(DOMAIN rows), all)
  BY <1>1, <1>3, SumSame
<1> QED
  BY <1>2, <1>4 DEF CashTo

LEMMA OverspentIsOverdrawn == Typed => \A d : Overspent(d) <=> Overdrawn(d)
  BY ClosingIsCashTo DEF Overspent, Overdrawn, IsEri

\* Steps that read no row to its end leave the cash as it was.
LEMMA CashFrame ==
  ASSUME CashInv, Typed', UNCHANGED <<rows, next, balance, refusal>>,
         phase # "refused", phase' # "ingested" \/ next > Len(rows),
         phase' = "post" => ~IsEri(next)
  PROVE  CashInv'
<1>1. BalancesPosted'
  BY DEF CashInv, BalancesPosted, CashPosted, PostedTo, CashBy, CashMoved
<1>2. ClosedInCredit'
  BY DEF CashInv, ClosedInCredit, ClosesItsDay, IsEri, RowsOn, CashTo, CashBy, CashMoved
<1>3. RefusedOverdrawn'
  BY DEF CashInv, RefusedOverdrawn
<1> QED
  BY <1>1, <1>2, <1>3 DEF CashInv, IsEri

\* So does a refusal for anything but an overdraft, and one for an overdraft
\* that is real.
LEMMA CashRefused ==
  ASSUME CashInv, NEW reason, Refuse(reason), reason = "balance" => Overspent(row.date)
  PROVE  CashInv'
<1>1. Typed'
  BY RefusedTyped DEF CashInv
<1>2. /\ UNCHANGED <<rows, next, balance>> /\ phase' = "refused" /\ refusal' = reason
  BY DEF Refuse
<1>3. BalancesPosted'
  BY <1>2 DEF CashInv, BalancesPosted, CashPosted, PostedTo, CashBy, CashMoved
<1>4. ClosedInCredit'
  BY <1>2 DEF CashInv, ClosedInCredit, ClosesItsDay, IsEri, RowsOn, CashTo, CashBy, CashMoved
<1>5. RefusedOverdrawn'
  BY <1>2 DEF RefusedOverdrawn, Overspent, IsEri, RowsOn, CashTo, CashBy, CashMoved, row
<1> QED
  BY <1>1, <1>2, <1>3, <1>4, <1>5 DEF CashInv

LEMMA HandlersKeepCash ==
  ASSUME CashInv,
         \/ OpenTransactionDay \/ PlanStockSplit \/ NoteSource \/ AddAcquisition
         \/ AddDisposal \/ AddTransferToSpouse \/ AddGift \/ AddManagementFee
         \/ AddRename \/ PassOver \/ RefuseOther \/ Finish
  PROVE  CashInv'
<1>1. Typed'
  BY OpenTransactionDayTyped, PlanStockSplitTyped, NoteSourceTyped, AddAcquisitionTyped,
     AddDisposalTyped, AddTransferToSpouseTyped, AddGiftTyped, AddManagementFeeTyped,
     AddRenameTyped, PassOverTyped DEF CashInv
<1>2. CASE \E reason \in {"rename", "split", "shortfall", "gift", "row"} : Refuse(reason)
  BY <1>2, CashRefused
<1>3. CASE ~\E reason \in {"rename", "split", "shortfall", "gift", "row"} : Refuse(reason)
  <2>1. CASE OpenTransactionDay \/ PlanStockSplit \/ NoteSource \/ Finish
    <3>1. /\ UNCHANGED <<rows, next, balance, refusal>> /\ phase # "refused"
          /\ phase' \in {"plan", "row"} \/ (phase' = "ingested" /\ next > Len(rows))
      BY <1>3, <2>1 DEF OpenTransactionDay, PlanStockSplit, NoteSource, Finish
    <3> QED
      BY <1>1, <3>1, CashFrame
  <2>2. CASE \/ AddAcquisition \/ AddDisposal \/ AddTransferToSpouse \/ AddGift
             \/ AddManagementFee \/ AddRename \/ PassOver \/ RefuseOther
    <3>1. Handled
      BY <1>3, <2>2 DEF AddAcquisition, AddDisposal, AddTransferToSpouse, AddGift,
                        AddManagementFee, AddRename, PassOver, RefuseOther
    <3>2. phase = "row" /\ rows[next].action # "EXCESS_REPORTED_INCOME"
      BY <2>2, ReadingRow
         DEF AddAcquisition, AddDisposal, AddTransferToSpouse, AddGift, AddManagementFee,
             AddRename, PassOver, RefuseOther, Increasing, Sales
    <3> QED
      BY <1>1, <3>1, <3>2, CashFrame DEF Handled, IsEri
  <2> QED
    BY <2>1, <2>2
<1> QED
  BY <1>2, <1>3

LEMMA AddEriKeepsCash == CashInv /\ AddEri => CashInv'
<1> SUFFICES ASSUME CashInv, AddEri
             PROVE  CashInv'
  OBVIOUS
<1>1. Typed /\ Typed'
  BY AddEriTyped DEF CashInv
<1>2. CASE Refuse("row")
  BY <1>2, CashRefused
<1>3. CASE EriRecorded
  <2>1. phase = "row" /\ IsEri(next) /\ next \in DOMAIN rows
    BY <1>1, ReadingRow, RowRead DEF AddEri, IsEri
  <2>2. next' = next + 1 /\ phase' = "open" /\ UNCHANGED <<rows, balance, refusal>>
    BY <1>3 DEF EriRecorded
  <2>3. CashMoved(next) = 0 /\ next \in Nat
    BY <1>1, <2>1, CashType
  <2>4. \A a \in Account : balance[a] = CashPosted(next + 1, a)
    <3> SUFFICES ASSUME NEW a \in Account
                 PROVE  balance[a] = CashPosted(next + 1, a)
      OBVIOUS
    <3>1. balance[a] = CashPosted(next, a) /\ balance[a] \in Int
      BY <1>1 DEF CashInv, BalancesPosted, Typed, RecordsTyped
    <3>2. CashPosted(next + 1, a)
            = IF a = rows[next].account THEN CashPosted(next, a) + CashMoved(next)
              ELSE CashPosted(next, a)
      BY <1>1, <2>1, PostingNext
    <3> QED
      BY <2>3, <3>1, <3>2
  <2>5. BalancesPosted'
    BY <2>2, <2>4 DEF BalancesPosted, CashPosted, PostedTo, CashBy, CashMoved
  <2>6. ClosedInCredit'
    <3>1. \A i \in DOMAIN rows : i < next + 1 /\ ~IsEri(i) => i < next
      BY <1>1, <2>1, <2>3, CashType
    <3> QED
      BY <2>2, <3>1 DEF CashInv, ClosedInCredit, ClosesItsDay, IsEri, RowsOn, CashTo,
                        CashBy, CashMoved
  <2>7. RefusedOverdrawn'
    BY <2>1, <2>2 DEF CashInv, RefusedOverdrawn
  <2> QED
    BY <1>1, <2>2, <2>5, <2>6, <2>7 DEF CashInv
<1> QED
  BY <1>1, <1>2, <1>3, AddEriRecords

LEMMA DayClosesItsDay ==
  ASSUME Typed, phase \in Opened
  PROVE  DayCloses <=> ClosesItsDay(next)
  BY DEF DayCloses, LaterToday, ClosesItsDay, IsEri, row

LEMMA PostRowKeepsCash == CashInv /\ PostRow => CashInv'
<1> SUFFICES ASSUME CashInv, PostRow
             PROVE  CashInv'
  OBVIOUS
<1>1. Typed /\ Typed' /\ phase = "post" /\ phase \in Opened
  BY PostRowTyped DEF CashInv, PostRow, Opened
<1>2. /\ next \in DOMAIN rows /\ next \in Nat /\ row = rows[next] /\ row.account \in Account
      /\ CashMoved(next) \in Int /\ ~IsEri(next)
  BY <1>1, RowRead, CashType DEF CashInv
<1> DEFINE new_balance == balance[row.account] + CashMoved(next)
<1>3. \A a \in Account : balance[a] \in Int /\ balance[a] = CashPosted(next, a)
  BY <1>1 DEF CashInv, BalancesPosted, Typed, RecordsTyped
<1>4. new_balance = CashPosted(next + 1, row.account)
  BY <1>1, <1>2, <1>3, PostingNext
<1>5. ClosesItsDay(next) => CashTo(row.account, row.date) = new_balance
  BY <1>1, <1>2, <1>4, ClosingIsPosted
<1>6. CASE Refuse("balance")
  <2>1. phase' = "refused"
    BY <1>6 DEF Refuse
  <2>2. ClosesItsDay(next) /\ new_balance < 0
    BY <1>1, <2>1, DayClosesItsDay DEF PostRow
  <2>3. next \in RowsOn(row.date)
    BY <1>2 DEF RowsOn
  <2>4. Overspent(row.date)
    BY <1>2, <1>5, <2>2, <2>3 DEF Overspent
  <2> QED
    BY <1>6, <2>4, CashRefused
<1>7. CASE ~Refuse("balance")
  <2>1. /\ balance' = [balance EXCEPT ![row.account] = new_balance]
        /\ next' = next + 1 /\ phase' = "open" /\ UNCHANGED <<rows, refusal>>
        /\ balance_check /\ DayCloses => ~(new_balance < 0)
    BY <1>7 DEF PostRow
  <2> HIDE DEF new_balance
  <2>2. \A a \in Account : balance'[a] = CashPosted(next + 1, a)
    <3> SUFFICES ASSUME NEW a \in Account
                 PROVE  balance'[a] = CashPosted(next + 1, a)
      OBVIOUS
    <3>1. balance'[a] = IF a = row.account THEN new_balance ELSE balance[a]
      BY <1>1, <2>1 DEF Typed, RecordsTyped
    <3>2. a # row.account => CashPosted(next + 1, a) = CashPosted(next, a)
      BY <1>1, <1>2, PostingNext
    <3> QED
      BY <1>3, <1>4, <3>1, <3>2
  <2>3. BalancesPosted'
    BY <2>1, <2>2 DEF BalancesPosted, CashPosted, PostedTo, CashBy, CashMoved
  <2>4. balance_check /\ ClosesItsDay(next) => CashTo(rows[next].account, rows[next].date) >= 0
    <3>1. new_balance \in Int
      BY <1>2, <1>3 DEF new_balance
    <3> QED
      BY <1>1, <1>2, <1>5, <2>1, <3>1, DayClosesItsDay
  <2>5. ClosedInCredit'
    <3>1. \A i \in DOMAIN rows : i < next + 1 => i < next \/ i = next
      BY <1>1, <1>2, CashType
    <3> QED
      BY <2>1, <2>4, <3>1 DEF CashInv, ClosedInCredit, ClosesItsDay, IsEri, RowsOn,
                              CashTo, CashBy, CashMoved
  <2>6. RefusedOverdrawn'
    BY <1>1, <2>1 DEF CashInv, RefusedOverdrawn
  <2> QED
    BY <1>1, <2>1, <2>3, <2>5, <2>6 DEF CashInv
<1> QED
  BY <1>6, <1>7

LEMMA StepKeepsCash == CashInv /\ [Next]_vars => CashInv'
<1> SUFFICES ASSUME CashInv, [Next]_vars
             PROVE  CashInv'
  OBVIOUS
<1>1. CASE UNCHANGED vars
  <2>1. Typed'
    BY <1>1, StepTyped DEF CashInv
  <2> QED
    BY <1>1, <2>1 DEF vars, CashInv, BalancesPosted, CashPosted, PostedTo, CashBy, CashMoved,
                      ClosedInCredit, ClosesItsDay, IsEri, RowsOn, CashTo,
                      RefusedOverdrawn, Overspent, row
<1> QED
  BY <1>1, HandlersKeepCash, AddEriKeepsCash, PostRowKeepsCash DEF Next

LEMMA InitCash == Init => CashInv
<1> SUFFICES ASSUME Init
             PROVE  CashInv
  OBVIOUS
<1>1. Typed
  BY InitTyped
<1>2. \A i \in DOMAIN rows : ~(i < next)
  BY <1>1, CashType DEF Init
<1>3. \A a : PostedTo(next, a) = {}
  BY <1>2 DEF PostedTo
<1>4. BalancesPosted
  BY <1>3, SumOfNone DEF Init, BalancesPosted, CashPosted
<1>5. ClosedInCredit
  BY <1>2 DEF ClosedInCredit
<1> QED
  BY <1>1, <1>4, <1>5 DEF Init, CashInv, RefusedOverdrawn

LEMMA CashGivesOverdrafts == CashInv => OverdraftsAreReal
<1> SUFFICES ASSUME CashInv
             PROVE  OverdraftsAreReal
  OBVIOUS
<1>1. refusal = "balance" => Overdrawn(row.date)
  BY OverspentIsOverdrawn DEF CashInv, RefusedOverdrawn
<1>2. ASSUME phase = "ingested", balance_check, NEW d \in Day
      PROVE  ~Overdrawn(d)
  <2> SUFFICES ASSUME NEW i \in RowsOn(d), ~IsEri(i), CashTo(rows[i].account, d) < 0
               PROVE  FALSE
    BY OverspentIsOverdrawn DEF Overspent, CashInv
  <2> DEFINE a == rows[i].account
             mine == {j \in RowsOn(d) : ~IsEri(j) /\ rows[j].account = a}
  <2>1. DOMAIN rows = 1 .. Len(rows) /\ Len(rows) \in Nat
    BY CashType DEF CashInv
  <2>2. i \in mine /\ mine \in SUBSET (0 .. Len(rows))
    BY <2>1 DEF RowsOn
  <2>3. PICK last \in mine : \A j \in mine : j <= last
    BY <2>1, <2>2, GreatestNatural
  <2>4. last \in DOMAIN rows /\ rows[last].date = d /\ rows[last].account = a /\ ~IsEri(last)
    BY <2>3 DEF RowsOn
  <2>5. ClosesItsDay(last)
    BY <2>1, <2>3, <2>4 DEF ClosesItsDay, RowsOn
  <2>6. last < next
    BY <1>2, <2>1, <2>4 DEF CashInv, Typed, PlaceTyped
  <2>7. CashTo(a, d) >= 0
    BY <1>2, <2>4, <2>5, <2>6 DEF CashInv, ClosedInCredit
  <2>8. CashTo(a, d) \in Int
    <3>1. CashTo(a, d) = CashPosted(last + 1, a)
      BY <2>4, <2>5, ClosingIsPosted DEF CashInv
    <3>2. PostedTo(last + 1, a) \in SUBSET DOMAIN rows
      BY DEF PostedTo
    <3>3. /\ IsFiniteSet(PostedTo(last + 1, a))
          /\ \A j \in PostedTo(last + 1, a) : CashBy(DOMAIN rows)[j] \in Int
      BY <3>2, CashType DEF CashInv
    <3> QED
      BY <3>1, <3>3, SumType DEF CashPosted
  <2> QED
    BY <2>7, <2>8
<1> QED
  BY <1>1, <1>2 DEF OverdraftsAreReal

\* A history is refused for an overdraft only when an account really closes
\* that day below nothing, and one that is read to its end has no such day:
\* the order a day's rows are read in decides neither.
THEOREM OverdraftsAlwaysReal == Spec => []OverdraftsAreReal
<1>1. Init => CashInv
  BY InitCash
<1>2. CashInv /\ [Next]_vars => CashInv'
  BY StepKeepsCash
<1>3. CashInv => OverdraftsAreReal
  BY CashGivesOverdrafts
<1> QED
  BY <1>1, <1>2, <1>3, PTL DEF Spec

----------------------------------------------------------------------------
(***************************************************************************)
(* Reports of excess income.  A report read has reached every name of its  *)
(* fund, and a report is recorded nowhere else.                            *)
(***************************************************************************)
ReadReports == {i \in Reports : i < next}
FundOf == [s \in Symbol |-> FundNames(s)]
ReachesItsFund(i) ==
  \A s \in FundOf[rows[i].symbol] : logs[rows[i].date][s].eri = rows[i].price
ReportedBy(d, s) ==
  logs[d][s].eri > 0 =>
    \E i \in ReadReports : rows[i].date = d /\ s \in FundOf[rows[i].symbol]
OwnFunds ==
  \A i, j \in Reports :
    rows[i].date = rows[j].date /\ rows[i].symbol # rows[j].symbol
    => FundOf[rows[i].symbol] \cap FundOf[rows[j].symbol] = {}
EriFollowsFunds == \A s \in Symbol : EriNames(s) = FundOf[s]

ReportsInv ==
  /\ GiftsInv
  /\ phase = "post" => ~IsEri(next)
  /\ OwnFunds /\ EriFollowsFunds =>
       /\ \A i \in ReadReports : ReachesItsFund(i)
       /\ \A d \in Day, s \in Symbol : ReportedBy(d, s)

\* The names of a fund are a matter of the history alone.
LEMMA HistoryAlone ==
  ASSUME rows' = rows
  PROVE  /\ FundOf' = FundOf /\ Reports' = Reports
         /\ OwnFunds' <=> OwnFunds
         /\ EriFollowsFunds' <=> EriFollowsFunds
<1>1. FundOf' = FundOf
  BY DEF FundOf, FundNames, ConnectedNames, RenamePairs
<1>2. Reports' = Reports
  BY DEF Reports
<1>3. RunRenames' = RunRenames
  BY DEF RunRenames, RenamePairs
<1>4. EriFollowsFunds' <=> EriFollowsFunds
  BY <1>1, <1>3 DEF EriFollowsFunds, EriNames, ConnectedNames
<1>5. OwnFunds' <=> OwnFunds
  BY <1>1, <1>2 DEF OwnFunds
<1> QED
  BY <1>1, <1>2, <1>4, <1>5

\* When no ticker is renamed twice, the renames a report follows are all of
\* the history's.
LEMMA LastRenameIsOnly ==
  ASSUME rows \in Ledgers, RenamedOnce
  PROVE  RunRenames = RenamePairs(DOMAIN rows)
<1>1. RunRenames \subseteq RenamePairs(DOMAIN rows)
  BY DEF RunRenames, RenamePairs
<1>2. ASSUME NEW p \in RenamePairs(DOMAIN rows)
      PROVE  p \in RunRenames
  <2>1. PICK i \in DOMAIN rows : rows[i].action = "RENAME" /\ p = <<rows[i].renamed, rows[i].symbol>>
    BY <1>2 DEF RenamePairs
  <2> DEFINE same == {j \in DOMAIN rows : rows[j].action = "RENAME" /\ rows[j].renamed = rows[i].renamed}
  <2>2. same \in SUBSET (0 .. Len(rows)) /\ same # {} /\ Len(rows) \in Nat
    BY <2>1, RowType
  <2>3. PICK last \in same : \A j \in same : j <= last
    BY <2>2, GreatestNatural
  <2>4. p = <<rows[last].renamed, rows[last].symbol>>
    BY <2>1, <2>3 DEF RenamedOnce
  <2>5. \A j \in DOMAIN rows : j > last /\ rows[j].action = "RENAME"
                                 => rows[j].renamed # rows[last].renamed
    BY <2>2, <2>3, RowType
  <2> QED
    BY <2>3, <2>4, <2>5 DEF RunRenames, RenamePairs
<1> QED
  BY <1>1, <1>2

LEMMA FollowsFunds == Typed /\ RenamedOnce /\ FundsApart => OwnFunds /\ EriFollowsFunds
<1> SUFFICES ASSUME Typed, RenamedOnce, FundsApart
             PROVE  OwnFunds /\ EriFollowsFunds
  OBVIOUS
<1>1. rows \in Ledgers
  BY DEF Typed, PlaceTyped
<1>2. EriFollowsFunds
  BY <1>1, LastRenameIsOnly DEF EriFollowsFunds, EriNames, FundOf, FundNames
<1>3. \A i \in Reports : rows[i].symbol \in Symbol
  BY RowPlace DEF Reports
<1>4. \A i \in Reports : FundOf[rows[i].symbol] = FundNames(rows[i].symbol)
  BY <1>3 DEF FundOf
<1>5. OwnFunds
  BY <1>4 DEF FundsApart, OwnFunds
<1> QED
  BY <1>2, <1>5

\* A step that reads no report and leaves the reports recorded alone.
LEMMA ReportsPassed ==
  ASSUME ReportsInv, GiftsInv', UNCHANGED rows, phase' = "post" => ~IsEri(next'),
         \/ next' = next
         \/ next' = next + 1 /\ ~IsEri(next),
         \A d \in Day, s \in Symbol : logs'[d][s].eri = logs[d][s].eri
  PROVE  ReportsInv'
<1>1. FundOf' = FundOf /\ Reports' = Reports /\ (OwnFunds' <=> OwnFunds)
      /\ (EriFollowsFunds' <=> EriFollowsFunds)
  BY HistoryAlone
<1>2. ReadReports' = ReadReports
  BY <1>1, RowType DEF ReadReports, Reports, IsEri, ReportsInv, GiftsInv, Typed, PlaceTyped
<1>3. (phase = "post" => ~IsEri(next))'
  BY DEF IsEri
<1>4. ASSUME OwnFunds, EriFollowsFunds
      PROVE  /\ \A i \in ReadReports : ReachesItsFund(i)'
             /\ \A d \in Day, s \in Symbol : ReportedBy(d, s)'
  <2>1. ASSUME NEW i \in ReadReports
        PROVE  ReachesItsFund(i)'
    <3>1. rows[i].date \in Day /\ rows[i].symbol \in Symbol
      BY RowPlace DEF ReadReports, Reports, ReportsInv, GiftsInv
    <3>2. FundOf[rows[i].symbol] \subseteq Symbol
      BY <3>1 DEF FundOf, FundNames, ConnectedNames
    <3>3. ReachesItsFund(i)
      BY <1>4 DEF ReportsInv
    <3> QED
      BY <1>1, <3>1, <3>2, <3>3 DEF ReachesItsFund
  <2>2. ASSUME NEW d \in Day, NEW s \in Symbol
        PROVE  ReportedBy(d, s)'
    <3>1. ReportedBy(d, s)
      BY <1>4 DEF ReportsInv
    <3> QED
      BY <1>1, <1>2, <3>1 DEF ReportedBy
  <2> QED
    BY <2>1, <2>2
<1> QED
  BY <1>1, <1>2, <1>3, <1>4 DEF ReportsInv

LEMMA HandlersKeepReports ==
  ASSUME ReportsInv, GiftsInv',
         \/ AddAcquisition \/ AddDisposal \/ AddTransferToSpouse \/ AddGift
         \/ AddManagementFee \/ AddRename \/ PassOver
  PROVE  ReportsInv'
<1>1. Typed
  BY DEF ReportsInv, GiftsInv
<1>2. phase = "row" /\ ~IsEri(next) /\ phase \in Opened
  BY ReadingRow DEF AddAcquisition, AddDisposal, AddTransferToSpouse, AddGift, AddManagementFee,
     AddRename, PassOver, IsEri, Increasing, Sales
<1>3. CASE \E reason : Refuse(reason)
  <2>1. UNCHANGED <<rows, next, logs>> /\ phase' = "refused"
    BY <1>3 DEF Refuse
  <2> QED
    BY <2>1, ReportsPassed
<1>4. CASE ~\E reason : Refuse(reason)
  <2>1. UNCHANGED <<rows, next>>
    BY <1>4 DEF AddAcquisition, AddDisposal, AddTransferToSpouse, AddGift, AddManagementFee,
       AddRename, PassOver, Handled
  <2>2. /\ row.date \in Day /\ row.symbol \in Symbol /\ log \in Log
        /\ logs \in [Day -> [Symbol -> Log]]
    BY <1>1, <1>2, RowRead DEF Typed, RecordsTyped
  <2>3. \/ logs' = logs
        \/ \E entry : entry.eri = log.eri /\ Record(entry)
    <3>1. /\ [log EXCEPT !.acquired = @ + units].eri = log.eri
          /\ [log EXCEPT !.fee_day = TRUE].eri = log.eri
          /\ DisposalEntry.eri = log.eri /\ TransferEntry.eri = log.eri
          /\ GiftEntry.eri = log.eri
      BY <2>2 DEF Log, DisposalEntry, TransferEntry, GiftEntry
    <3>2. \/ logs' = logs
          \/ Record([log EXCEPT !.acquired = @ + units]) \/ Record([log EXCEPT !.fee_day = TRUE])
          \/ Record(DisposalEntry) \/ Record(TransferEntry) \/ Record(GiftEntry)
      BY <1>4 DEF AddAcquisition, AddDisposal, AddTransferToSpouse, AddGift, AddManagementFee,
         AddRename, PassOver, DisposalEntry, TransferEntry, GiftEntry, GiftKind
    <3> QED
      BY <3>1, <3>2
  <2>4. ASSUME NEW d \in Day, NEW s \in Symbol
        PROVE  logs'[d][s].eri = logs[d][s].eri
    <3>1. CASE logs' = logs
      BY <3>1
    <3>2. ASSUME NEW entry, entry.eri = log.eri, Record(entry)
          PROVE  logs'[d][s].eri = logs[d][s].eri
      <4>1. logs' = [logs EXCEPT ![row.date][row.symbol] = entry]
        BY <3>2 DEF Record
      <4>2. logs'[d][s] = IF d = row.date /\ s = row.symbol THEN entry ELSE logs[d][s]
        BY <2>2, <4>1
      <4> QED
        BY <3>2, <4>2 DEF log
    <3> QED
      BY <2>3, <3>1, <3>2
  <2>5. ~IsEri(next')
    BY <1>2, <2>1
  <2> QED
    BY <2>1, <2>4, <2>5, ReportsPassed
<1> QED
  BY <1>3, <1>4

LEMMA PlacesKeepReports ==
  ASSUME ReportsInv, GiftsInv',
         \/ OpenTransactionDay \/ PlanStockSplit \/ NoteSource
         \/ PostRow \/ Finish \/ RefuseOther
  PROVE  ReportsInv'
<1>1. /\ UNCHANGED <<rows, logs>> /\ phase' # "post"
      /\ next' = next \/ (phase = "post" /\ next' = next + 1)
  BY DEF OpenTransactionDay, PlanStockSplit, NoteSource, PostRow, Finish, RefuseOther, Refuse
<1> QED
  BY <1>1, ReportsPassed DEF ReportsInv

\* What a report adds to the day's record.
FreshNames ==
  {s \in EriNames(row.symbol) :
     \A t \in {n \in EriNames(row.symbol) : logs[row.date][n].eri > 0} : s < t}
Reported == {s \in EriNames(row.symbol) : logs[row.date][s].eri > 0}

LEMMA AddEriWrites ==
  ASSUME Typed, AddEri, ~Refuse("row")
  PROVE  /\ next' = next + 1 /\ phase' = "open" /\ UNCHANGED rows
         /\ row.price > 0 /\ Reported # {} => logs[row.date][Min(Reported)].eri = row.price
         /\ \A d \in Day, s \in Symbol :
              logs'[d][s].eri = IF d = row.date /\ s \in FreshNames THEN row.price
                                ELSE logs[d][s].eri
<1>1. row.date \in Day /\ row.price \in Nat
  BY ReadingRow, RowRead DEF AddEri
<1> DEFINE after == [s \in Symbol |-> IF s \in FreshNames
                       THEN [logs[row.date][s] EXCEPT !.eri = row.price]
                       ELSE logs[row.date][s]]
<1>2. /\ logs' = [logs EXCEPT ![row.date] = after]
      /\ next' = next + 1 /\ phase' = "open" /\ UNCHANGED rows
      /\ row.price > 0 /\ Reported # {} => logs[row.date][Min(Reported)].eri = row.price
  BY DEF AddEri, FreshNames, Reported
<1>3. logs \in [Day -> [Symbol -> Log]]
  BY DEF Typed, RecordsTyped
<1>4. \A s \in Symbol : after[s].eri = IF s \in FreshNames THEN row.price
                                       ELSE logs[row.date][s].eri
  BY <1>1, <1>3 DEF Log
<1> HIDE DEF after
<1>5. ASSUME NEW d \in Day, NEW s \in Symbol
      PROVE  logs'[d][s].eri = IF d = row.date /\ s \in FreshNames THEN row.price
                               ELSE logs[d][s].eri
  <2>1. CASE d = row.date
    BY <1>1, <1>2, <1>3, <1>4, <2>1
  <2>2. CASE d # row.date
    BY <1>1, <1>2, <1>3, <2>2
  <2> QED
    BY <2>1, <2>2
<1> QED
  BY <1>2, <1>5

\* A fund that has a report of the date has it under all its names, so
\* another report of it adds nothing.
LEMMA ReportedIsWhole ==
  ASSUME ReportsInv, OwnFunds, EriFollowsFunds, next \in Reports, Reported # {}
  PROVE  /\ Reported = FundOf[row.symbol]
         /\ FreshNames = {}
         /\ \A s, t \in Reported : logs[row.date][s].eri = logs[row.date][t].eri
<1>1. row = rows[next] /\ row.date \in Day /\ row.symbol \in Symbol
  BY RowPlace DEF Reports, row, ReportsInv, GiftsInv
<1>2. EriNames(row.symbol) = FundOf[row.symbol] /\ FundOf[row.symbol] \subseteq Symbol
  BY <1>1 DEF EriFollowsFunds, FundOf, FundNames, ConnectedNames
<1>3. PICK s \in Symbol : s \in FundOf[row.symbol] /\ logs[row.date][s].eri > 0
  BY <1>2 DEF Reported
<1>4. PICK i \in ReadReports : rows[i].date = row.date /\ s \in FundOf[rows[i].symbol]
  BY <1>1, <1>3 DEF ReportsInv, ReportedBy
<1>5. rows[i].symbol = row.symbol
  BY <1>1, <1>3, <1>4 DEF OwnFunds, ReadReports
<1>6. \A t \in FundOf[row.symbol] : logs[row.date][t].eri = rows[i].price
  BY <1>4, <1>5 DEF ReportsInv, ReachesItsFund
<1>7. rows[i].price > 0
  BY DEF ReadReports, Reports
<1>8. Reported = FundOf[row.symbol]
  BY <1>2, <1>6, <1>7 DEF Reported
<1>9. FreshNames = {}
  <2>1. \A t \in FundOf[row.symbol] : t \in Int /\ ~(t < t)
    BY <1>2 DEF Symbol
  <2> QED
    BY <1>2, <1>8, <2>1 DEF FreshNames, Reported
<1> QED
  BY <1>6, <1>8, <1>9

LEMMA LeastSymbol ==
  ASSUME NEW names \in SUBSET Symbol, names # {}
  PROVE  Min(names) \in names
<1>1. names \in SUBSET Nat
  BY IngestionAssumption DEF Symbol
<1>2. \E x \in names : \A y \in names : x <= y
  BY <1>1, LeastNatural
<1> QED
  BY <1>2 DEF Min

LEMMA AddEriKeepsReports == ReportsInv /\ AddEri /\ GiftsInv' => ReportsInv'
<1> SUFFICES ASSUME ReportsInv, AddEri, GiftsInv'
             PROVE  ReportsInv'
  OBVIOUS
<1>1. Typed
  BY DEF ReportsInv, GiftsInv
<1>2. /\ IsEri(next) /\ next \in DOMAIN rows /\ row = rows[next] /\ row.date \in Day
      /\ row.symbol \in Symbol /\ row.price \in Nat
  BY <1>1, ReadingRow, RowRead DEF AddEri, IsEri
<1>3. CASE Refuse("row")
  <2>1. UNCHANGED <<rows, next, logs>> /\ phase' = "refused"
    BY <1>3 DEF Refuse
  <2> QED
    BY <2>1, ReportsPassed
<1>4. CASE ~Refuse("row")
  <2>1. /\ next' = next + 1 /\ phase' = "open" /\ UNCHANGED rows
        /\ row.price > 0 /\ Reported # {} => logs[row.date][Min(Reported)].eri = row.price
        /\ \A d \in Day, s \in Symbol :
             logs'[d][s].eri = IF d = row.date /\ s \in FreshNames THEN row.price
                               ELSE logs[d][s].eri
    BY <1>1, <1>4, AddEriWrites
  <2>2. /\ FundOf' = FundOf /\ Reports' = Reports /\ (OwnFunds' <=> OwnFunds)
        /\ (EriFollowsFunds' <=> EriFollowsFunds)
    BY <2>1, HistoryAlone
  <2>3. ReadReports' = IF next \in Reports THEN ReadReports \cup {next} ELSE ReadReports
    BY <1>1, <2>1, <2>2, RowType DEF ReadReports, Reports, Typed, PlaceTyped
  <2>4. next \in Reports <=> row.price > 0
    BY <1>2 DEF Reports, IsEri
  <2>5. ASSUME OwnFunds, EriFollowsFunds
        PROVE  /\ \A i \in ReadReports' : ReachesItsFund(i)'
               /\ \A d \in Day, s \in Symbol : ReportedBy(d, s)'
    <3>1. EriNames(row.symbol) = FundOf[row.symbol] /\ FundOf[row.symbol] \subseteq Symbol
      BY <1>2, <2>5 DEF EriFollowsFunds, FundOf, FundNames, ConnectedNames
    <3>2. \A s \in FreshNames : s \in FundOf[row.symbol] /\ ~(logs[row.date][s].eri > 0)
      <4>1. \A s \in FundOf[row.symbol] : ~(s < s)
        BY <3>1 DEF Symbol
      <4> QED
        BY <3>1, <4>1 DEF FreshNames
    <3>3. ASSUME NEW i \in ReadReports
          PROVE  ReachesItsFund(i)'
      <4>1. /\ rows[i].date \in Day /\ rows[i].symbol \in Symbol /\ rows[i].price > 0
            /\ FundOf[rows[i].symbol] \subseteq Symbol
        BY <1>1, RowPlace DEF ReadReports, Reports, FundOf, FundNames, ConnectedNames
      <4>2. \A s \in FundOf[rows[i].symbol] : logs[rows[i].date][s].eri = rows[i].price
        BY <2>5 DEF ReportsInv, ReachesItsFund
      <4>3. \A s \in FundOf[rows[i].symbol] : logs'[rows[i].date][s].eri = rows[i].price
        BY <2>1, <3>2, <4>1, <4>2
      <4> QED
        BY <2>1, <2>2, <4>3 DEF ReachesItsFund
    <3>4. ASSUME next \in Reports
          PROVE  \A s \in FundOf[row.symbol] : logs'[row.date][s].eri = row.price
      <4>1. CASE Reported = {}
        <5>1. FreshNames = FundOf[row.symbol]
          BY <3>1, <4>1 DEF FreshNames, Reported
        <5> QED
          BY <1>2, <2>1, <3>1, <5>1
      <4>2. CASE Reported # {}
        <5>1. /\ Reported = FundOf[row.symbol] /\ FreshNames = {}
              /\ \A s, t \in Reported : logs[row.date][s].eri = logs[row.date][t].eri
          BY <2>5, <3>4, <4>2, ReportedIsWhole
        <5>2. Min(Reported) \in Reported
          BY <3>1, <4>2, <5>1, LeastSymbol
        <5>3. logs[row.date][Min(Reported)].eri = row.price
          BY <2>1, <2>4, <3>4, <4>2
        <5>4. \A s \in Reported : logs[row.date][s].eri = row.price
          BY <5>1, <5>2, <5>3
        <5> QED
          BY <1>2, <2>1, <3>1, <5>1, <5>4
      <4> QED
        BY <4>1, <4>2
    <3>5. ASSUME NEW i, i = next, next \in Reports
          PROVE  ReachesItsFund(i)'
      <4>1. \A s \in FundOf[row.symbol] : logs'[row.date][s].eri = row.price
        BY <3>4, <3>5
      <4>2. /\ rows'[i].date = row.date /\ rows'[i].symbol = row.symbol
            /\ rows'[i].price = row.price /\ FundOf' = FundOf
        BY <1>2, <2>1, <2>2, <3>5
      <4> QED
        BY <4>1, <4>2 DEF ReachesItsFund
    <3>6. ASSUME NEW i \in ReadReports'
          PROVE  ReachesItsFund(i)'
      <4>1. i \in ReadReports \/ (i = next /\ next \in Reports)
        BY <2>3
      <4> QED
        BY <3>3, <3>5, <4>1
    <3>7. ASSUME NEW d \in Day, NEW s \in Symbol
          PROVE  ReportedBy(d, s)'
      <4>1. SUFFICES ASSUME logs'[d][s].eri > 0
                     PROVE  \E i \in ReadReports' : rows[i].date = d /\ s \in FundOf[rows[i].symbol]
        BY <2>1, <2>2 DEF ReportedBy
      <4>2. CASE d = row.date /\ s \in FreshNames
        BY <1>2, <2>1, <2>3, <2>4, <3>2, <4>1, <4>2
      <4>3. CASE ~(d = row.date /\ s \in FreshNames)
        <5>1. logs[d][s].eri > 0
          BY <2>1, <4>1, <4>3
        <5>2. ReportedBy(d, s)
          BY <2>5 DEF ReportsInv
        <5> QED
          BY <2>3, <5>1, <5>2 DEF ReportedBy
      <4> QED
        BY <4>2, <4>3
    <3> QED
      BY <3>6, <3>7
  <2> QED
    BY <2>1, <2>2, <2>5 DEF ReportsInv
<1> QED
  BY <1>3, <1>4

LEMMA StepKeepsReports == ReportsInv /\ [Next]_vars => ReportsInv'
<1> SUFFICES ASSUME ReportsInv, [Next]_vars
             PROVE  ReportsInv'
  OBVIOUS
<1>1. GiftsInv'
  BY StepKeepsGifts DEF ReportsInv
<1>2. CASE UNCHANGED vars
  <2>1. UNCHANGED <<rows, next, phase, logs>>
    BY <1>2 DEF vars
  <2>2. (phase = "post" => ~IsEri(next))'
    BY <2>1 DEF IsEri, ReportsInv
  <2> QED
    BY <1>1, <2>1, <2>2, ReportsPassed DEF IsEri
<1> QED
  BY <1>1, <1>2, HandlersKeepReports, PlacesKeepReports, AddEriKeepsReports DEF Next

LEMMA InitReports == Init => ReportsInv
<1> SUFFICES ASSUME Init
             PROVE  ReportsInv
  OBVIOUS
<1>1. GiftsInv
  BY InitGifts
<1>2. ReadReports = {}
  BY <1>1, RowType DEF ReadReports, Reports, Init
<1>3. \A d \in Day, s \in Symbol : ReportedBy(d, s)
  BY DEF ReportedBy, Init, NoLog
<1> QED
  BY <1>1, <1>2, <1>3 DEF ReportsInv, Init

LEMMA ReportsReach == ReportsInv => ReportsReachEveryName
<1> SUFFICES ASSUME ReportsInv, RenamedOnce, FundsApart, phase = "ingested", NEW i \in Reports,
                    NEW s \in FundNames(rows[i].symbol)
             PROVE  logs[rows[i].date][s].eri = rows[i].price
  BY DEF ReportsReachEveryName, ReportsFollowEveryRename
<1>1. Typed /\ next > Len(rows) /\ rows[i].symbol \in Symbol
  BY RowPlace DEF ReportsInv, GiftsInv, Reports
<1>2. i \in ReadReports
  BY <1>1, RowType DEF ReadReports, Reports, Typed, PlaceTyped
<1>3. ReachesItsFund(i)
  BY <1>1, <1>2, FollowsFunds DEF ReportsInv
<1> QED
  BY <1>1, <1>3 DEF ReachesItsFund, FundOf

(***************************************************************************)
(* An ERI report is recorded under every name its fund is held under in    *)
(* the run, however the renames and the reports lie: add_eri looks through *)
(* the whole run's renames, whatever row it has reached.                   *)
(***************************************************************************)
THEOREM ReportsAlwaysReachEveryName == Spec => []ReportsReachEveryName
<1>1. Init => ReportsInv
  BY InitReports
<1>2. ReportsInv /\ [Next]_vars => ReportsInv'
  BY StepKeepsReports
<1>3. ReportsInv => ReportsReachEveryName
  BY ReportsReach
<1> QED
  BY <1>1, <1>2, <1>3, PTL DEF Spec
=============================================================================
