----------------------------- MODULE CloseProofs -----------------------------
(***************************************************************************)
(* Proofs about the first pass: its provisional counts are what the        *)
(* matching walk rebuilds from its records and never go short, what it     *)
(* hands over is a history the walk may be given, a reorganised day        *)
(* closes on the broker's count, the accounts kept beside a holding are    *)
(* those it came from, and the sales of a day that renames its holding are *)
(* held to what its names can give, in whatever order they are read.       *)
(***************************************************************************)
EXTENDS IngestionProofs

\* A day's close from the one before, by what was recorded of the day.
CloseOf(reorganised, logged, renamed, d, before) ==
  IF d = 0 THEN [s \in Symbol |-> 0]
  ELSE [s \in Symbol |->
          SumFunctionOnSet(
            [n \in Symbol |-> Carried(reorganised[d][n], logged[d][n], before[n])],
            {n \in Symbol : renamed[d][n] = s})]

Reckons(reorganised, logged, renamed, n, close) ==
  close = [d \in 0 .. n |-> CloseOf(reorganised, logged, renamed, d, close[d - 1])]

LEMMA RebuiltExists ==
  ASSUME NEW reorganised, NEW logged, NEW renamed
  PROVE  \A n \in Nat : \E close : Reckons(reorganised, logged, renamed, n, close)
<1> DEFINE Close(d, before) == CloseOf(reorganised, logged, renamed, d, before)
           Counting(n, close) == close = [d \in 0 .. n |-> Close(d, close[d - 1])]
           Counted == {n \in Nat : \E close : Counting(n, close)}
<1>1. 0 \in Counted
  <2> DEFINE close == [d \in 0 .. 0 |-> [s \in Symbol |-> 0]]
  <2>1. \A d \in 0 .. 0 : Close(d, close[d - 1]) = [s \in Symbol |-> 0]
    BY DEF CloseOf
  <2>2. close = [d \in 0 .. 0 |-> Close(d, close[d - 1])]
    BY <2>1
  <2> QED
    BY <2>2
<1>2. ASSUME NEW n \in Nat, n \in Counted
      PROVE  n + 1 \in Counted
  <2>1. PICK close : Counting(n, close)
    BY <1>2
  <2> DEFINE longer == [d \in 0 .. n + 1 |-> IF d <= n THEN close[d] ELSE Close(d, close[n])]
  <2>2. ASSUME NEW d \in 0 .. n + 1
        PROVE  longer[d] = Close(d, longer[d - 1])
    <3>1. CASE d = 0
      <4>1. longer[0] = close[0] /\ close[0] = Close(0, close[0 - 1])
        BY <2>1
      <4>2. Close(0, close[0 - 1]) = Close(0, longer[0 - 1])
        BY DEF CloseOf
      <4> QED
        BY <3>1, <4>1, <4>2
    <3>2. CASE d # 0 /\ d <= n
      <4>1. d \in 0 .. n /\ d - 1 \in 0 .. n
        BY <3>2
      <4>2. longer[d] = close[d] /\ longer[d - 1] = close[d - 1]
        BY <4>1
      <4>3. close[d] = Close(d, close[d - 1])
        BY <2>1, <4>1
      <4> QED
        BY <4>2, <4>3
    <3>3. CASE d = n + 1
      <4>1. d - 1 = n /\ n \in 0 .. n + 1 /\ ~(n + 1 <= n)
        BY <3>3
      <4>2. longer[d - 1] = close[n]
        BY <4>1
      <4>3. longer[d] = Close(d, close[n])
        BY <3>3, <4>1
      <4> QED
        BY <4>2, <4>3
    <3> QED
      BY <3>1, <3>2, <3>3
  <2>3. longer = [d \in 0 .. n + 1 |-> Close(d, longer[d - 1])]
    BY <2>2
  <2>4. n + 1 \in Nat /\ Counting(n + 1, longer)
    BY <2>3
  <2> HIDE DEF longer, Close
  <2> QED
    BY <2>4
<1> HIDE DEF Counted
<1>3. \A n \in Nat : n \in Counted
  BY <1>1, <1>2, NaturalsBySteps
<1> QED
  BY <1>3 DEF Counted, Reckons

LEMMA RebuiltByDay ==
  ASSUME NEW reorganised, NEW logged, NEW renamed
  PROVE  LET close == Rebuilt(reorganised, logged, renamed)
         IN  /\ \A s \in Symbol : close[0][s] = 0
             /\ \A d \in Day, s \in Symbol :
                  close[d][s] =
                    SumFunctionOnSet(
                      [n \in Symbol |->
                         Carried(reorganised[d][n], logged[d][n], close[d - 1][n])],
                      {n \in Symbol : renamed[d][n] = s})
<1> DEFINE Close(d, before) == CloseOf(reorganised, logged, renamed, d, before)
           close == Rebuilt(reorganised, logged, renamed)
<1>1. LastDay \in Nat
  BY HistoryAssumption
<1>2. \E f : f = [d \in 0 .. LastDay |-> Close(d, f[d - 1])]
  <2>1. \E f : Reckons(reorganised, logged, renamed, LastDay, f)
    BY <1>1, RebuiltExists
  <2> QED
    BY <2>1 DEF Reckons
<1>3. close = CHOOSE f : f = [d \in 0 .. LastDay |-> Close(d, f[d - 1])]
  BY Zenon DEF Rebuilt, CloseOf
<1>4. close = [d \in 0 .. LastDay |-> Close(d, close[d - 1])]
  <2> HIDE DEF Close, close
  <2> QED
    BY <1>2, <1>3
<1> HIDE DEF close
<1>5. close[0] = Close(0, close[0 - 1])
  BY <1>1, <1>4
<1>6. \A d \in Day : close[d] = Close(d, close[d - 1]) /\ d # 0
  BY <1>1, <1>4 DEF Day
<1> QED
  BY <1>5, <1>6 DEF CloseOf, close

\* Two days of records that carry a name's count alike.
Alike(reorganised, logged, renamed, reorganised2, logged2, renamed2, d, n) ==
  /\ renamed[d][n] = renamed2[d][n]
  /\ \A opening : Carried(reorganised[d][n], logged[d][n], opening)
                   = Carried(reorganised2[d][n], logged2[d][n], opening)

\* Records that agree up to a day rebuild the same counts up to it.
LEMMA RebuiltSame ==
  ASSUME NEW reorganised, NEW logged, NEW renamed,
         NEW reorganised2, NEW logged2, NEW renamed2, NEW last \in 0 .. LastDay,
         \A d \in 1 .. last, n \in Symbol :
           Alike(reorganised, logged, renamed, reorganised2, logged2, renamed2, d, n)
  PROVE  \A d \in 0 .. last, s \in Symbol :
           Rebuilt(reorganised, logged, renamed)[d][s]
           = Rebuilt(reorganised2, logged2, renamed2)[d][s]
<1> DEFINE one == Rebuilt(reorganised, logged, renamed)
           two == Rebuilt(reorganised2, logged2, renamed2)
           Agree == {d \in Nat : d <= last => \A s \in Symbol : one[d][s] = two[d][s]}
<1>1. 0 \in Agree
  BY RebuiltByDay
<1>2. ASSUME NEW n \in Nat, n \in Agree
      PROVE  n + 1 \in Agree
  <2> SUFFICES ASSUME n + 1 <= last, NEW s \in Symbol
               PROVE  one[n + 1][s] = two[n + 1][s]
    OBVIOUS
  <2> DEFINE d == n + 1
             f == [m \in Symbol |-> Carried(reorganised[d][m], logged[d][m], one[d - 1][m])]
             g == [m \in Symbol |-> Carried(reorganised2[d][m], logged2[d][m], two[d - 1][m])]
             S == {m \in Symbol : renamed[d][m] = s}
             T == {m \in Symbol : renamed2[d][m] = s}
  <2>1. d \in 1 .. last /\ d \in Day /\ d - 1 = n
    BY HistoryAssumption DEF Day
  <2>2. S = T /\ IsFiniteSet(S)
    BY <2>1, SymbolsFinite DEF Alike
  <2>3. \A m \in Symbol : one[d - 1][m] = two[d - 1][m]
    BY <1>2, <2>1
  <2>4. \A m \in S : f[m] = g[m]
    BY <2>1, <2>3 DEF Alike
  <2>5. one[d][s] = SumFunctionOnSet(f, S)
    BY <2>1, RebuiltByDay
  <2>6. two[d][s] = SumFunctionOnSet(g, T)
    BY <2>1, RebuiltByDay
  <2> HIDE DEF f, g, S, T, one, two
  <2> QED
    BY <2>2, <2>4, <2>5, <2>6, SumSame
<1> HIDE DEF Agree
<1>3. \A n \in Nat : n \in Agree
  BY <1>1, <1>2, NaturalsBySteps
<1> QED
  BY <1>3 DEF Agree

Reorganised == [Day -> [Symbol -> Planned]]
Logged == [Day -> [Symbol -> Log]]

LEMMA CarriedType ==
  ASSUME NEW split \in Planned, NEW entry \in Log
  PROVE  \A opening \in Int : Carried(split, entry, opening) \in Int
  BY DEF Carried, Planned, Log

LEMMA RebuiltType ==
  ASSUME NEW reorganised \in Reorganised, NEW logged \in Logged, NEW renamed
  PROVE  \A d \in 0 .. LastDay, s \in Symbol :
           Rebuilt(reorganised, logged, renamed)[d][s] \in Int
<1> DEFINE close == Rebuilt(reorganised, logged, renamed)
           Whole == {d \in Nat : d <= LastDay => \A s \in Symbol : close[d][s] \in Int}
<1>1. 0 \in Whole
  BY RebuiltByDay
<1>2. ASSUME NEW n \in Nat, n \in Whole
      PROVE  n + 1 \in Whole
  <2> SUFFICES ASSUME n + 1 <= LastDay, NEW s \in Symbol
               PROVE  close[n + 1][s] \in Int
    OBVIOUS
  <2> DEFINE d == n + 1
             f == [m \in Symbol |-> Carried(reorganised[d][m], logged[d][m], close[d - 1][m])]
             S == {m \in Symbol : renamed[d][m] = s}
  <2>1. d \in Day /\ d - 1 = n
    BY HistoryAssumption DEF Day
  <2>2. \A m \in Symbol : close[d - 1][m] \in Int
    BY <1>2, <2>1, HistoryAssumption
  <2>3. \A m \in S : f[m] \in Int
    <3>1. \A m \in Symbol : reorganised[d][m] \in Planned /\ logged[d][m] \in Log
      BY <2>1 DEF Reorganised, Logged
    <3> QED
      BY <2>2, <3>1, CarriedType
  <2>4. close[d][s] = SumFunctionOnSet(f, S)
    BY <2>1, RebuiltByDay
  <2>5. IsFiniteSet(S)
    BY SymbolsFinite
  <2> HIDE DEF f, S, close
  <2> QED
    BY <2>3, <2>4, <2>5, SumType
<1> HIDE DEF Whole
<1>3. \A n \in Nat : n \in Whole
  BY <1>1, <1>2, NaturalsBySteps
<1> QED
  BY <1>3, HistoryAssumption DEF Whole

Quiet(entry) == entry.acquired = 0 /\ entry.disposed = 0 /\ entry.transferred = 0

\* A stretch of days nothing was recorded of ends with what it began with.
LEMMA RebuiltQuiet ==
  ASSUME NEW reorganised \in Reorganised, NEW logged \in Logged, NEW renamed,
         NEW from \in 0 .. LastDay,
         \A d \in Day, s \in Symbol : d > from =>
           ~reorganised[d][s].planned /\ Quiet(logged[d][s]) /\ renamed[d][s] = s
  PROVE  \A d \in from .. LastDay, s \in Symbol :
           Rebuilt(reorganised, logged, renamed)[d][s]
           = Rebuilt(reorganised, logged, renamed)[from][s]
<1> DEFINE close == Rebuilt(reorganised, logged, renamed)
           Still == {n \in Nat : from + n <= LastDay =>
                                   \A s \in Symbol : close[from + n][s] = close[from][s]}
<1>0. LastDay \in Nat /\ from \in Nat
  BY HistoryAssumption
<1>1. 0 \in Still
  BY <1>0
<1>2. ASSUME NEW n \in Nat, n \in Still
      PROVE  n + 1 \in Still
  <2> SUFFICES ASSUME from + (n + 1) <= LastDay, NEW s \in Symbol
               PROVE  close[from + (n + 1)][s] = close[from][s]
    OBVIOUS
  <2> DEFINE d == from + (n + 1)
             f == [m \in Symbol |-> Carried(reorganised[d][m], logged[d][m], close[d - 1][m])]
             S == {m \in Symbol : renamed[d][m] = s}
  <2>1. d \in Day /\ d > from /\ d - 1 = from + n /\ d - 1 \in 0 .. LastDay
    BY <1>0 DEF Day
  <2>2. close[d - 1][s] = close[from][s] /\ close[d - 1][s] \in Int
    BY <1>0, <1>2, <2>1, RebuiltType
  <2>3. S = {s}
    BY <2>1
  <2>4. f[s] = close[d - 1][s]
    BY <2>1, <2>2 DEF Carried, Quiet
  <2>5. close[d][s] = SumFunctionOnSet(f, S)
    BY <2>1, RebuiltByDay
  <2> HIDE DEF f, S, close
  <2> QED
    BY <2>2, <2>3, <2>4, <2>5, SumOfOne
<1> HIDE DEF Still
<1>3. \A n \in Nat : n \in Still
  BY <1>1, <1>2, NaturalsBySteps
<1>4. \A d \in from .. LastDay : d - from \in Nat /\ from + (d - from) = d /\ d <= LastDay
  BY <1>0
<1>5. \A d \in from .. LastDay : from + (d - from) <= LastDay =>
         \A s \in Symbol : close[from + (d - from)][s] = close[from][s]
  BY <1>3, <1>4 DEF Still
<1> QED
  BY <1>4, <1>5
----------------------------------------------------------------------------
(***************************************************************************)
(* The names of one holding.  A day's renames send each name to one that   *)
(* is renamed no further, so the names connected by them are those sent to *)
(* the same name.                                                          *)
(***************************************************************************)
LEMMA ConnectedByEnds ==
  ASSUME NEW to \in [Symbol -> Symbol], NEW pairs,
         \A n \in Symbol : to[to[n]] = to[n],
         \A p \in pairs : p[1] \in Symbol /\ p[2] \in Symbol /\ to[p[1]] = to[p[2]],
         \A n \in Symbol : to[n] # n => <<n, to[n]>> \in pairs,
         NEW s \in Symbol
  PROVE  ConnectedNames(pairs, s) = {n \in Symbol : to[n] = to[s]}
<1> DEFINE Closed(S) == \A p \in pairs : p[1] \in S <=> p[2] \in S
           mine == {n \in Symbol : to[n] = to[s]}
<1>1. mine \in SUBSET Symbol /\ Closed(mine) /\ s \in mine
  OBVIOUS
<1>2. ASSUME NEW S \in SUBSET Symbol, Closed(S), s \in S, NEW n \in mine
      PROVE  n \in S
  <2>1. \A m \in Symbol : m \in S <=> to[m] \in S
    <3> SUFFICES ASSUME NEW m \in Symbol, to[m] # m
                 PROVE  m \in S <=> to[m] \in S
      OBVIOUS
    <3>1. <<m, to[m]>> \in pairs /\ <<m, to[m]>>[1] = m /\ <<m, to[m]>>[2] = to[m]
      OBVIOUS
    <3> QED
      BY <1>2, <3>1
  <2> QED
    BY <1>2, <2>1
<1> QED
  BY <1>1, <1>2 DEF ConnectedNames

Class(d, s) == {n \in Symbol : EndName(d, n) = EndName(d, s)}
EndsMerged == \A d \in Day, s \in Symbol : renames[d][renames[d][s]] = renames[d][s]

LEMMA NamesAreClass ==
  ASSUME Typed, EndsMerged, NEW d \in Day, NEW s \in Symbol
  PROVE  NamesOn(d, s) = Class(d, s)
<1> DEFINE to == renames[d]
           pairs == {<<n, EndName(d, n)>> : n \in Symbol}
<1>1. to \in [Symbol -> Symbol] /\ \A n \in Symbol : to[to[n]] = to[n]
  BY DEF Typed, PlansTyped, EndsMerged
<1>2. \A p \in pairs : p[1] \in Symbol /\ p[2] \in Symbol /\ to[p[1]] = to[p[2]]
  BY <1>1 DEF EndName
<1>3. \A n \in Symbol : <<n, to[n]>> \in pairs
  BY DEF EndName
<1> HIDE DEF pairs, to
<1>4. ConnectedNames(pairs, s) = {n \in Symbol : to[n] = to[s]}
  BY <1>1, <1>2, <1>3, ConnectedByEnds
<1> QED
  BY <1>4 DEF NamesOn, Class, EndName, pairs, to

\* The name each ticker is sent to by a day's renames.
EndsBy(pairs) ==
  [s \in Symbol |-> IF \E p \in pairs : p[1] = s THEN (CHOOSE p \in pairs : p[1] = s)[2] ELSE s]

LEMMA EndsByRenames ==
  ASSUME NEW pairs, \A p \in pairs : p[1] \in Symbol /\ p[2] \in Symbol /\ p = <<p[1], p[2]>>,
         ~RenamesConflict(pairs)
  PROVE  /\ EndsBy(pairs) \in [Symbol -> Symbol]
         /\ \A p \in pairs : EndsBy(pairs)[p[1]] = p[2]
         /\ \A s \in Symbol : EndsBy(pairs)[EndsBy(pairs)[s]] = EndsBy(pairs)[s]
         /\ \A s \in Symbol : EndsBy(pairs)[s] # s =>
              \E p \in pairs : p[1] = s /\ p[2] = EndsBy(pairs)[s]
         /\ \A s \in Symbol : ConnectedNames(pairs, s) = {n \in Symbol : EndsBy(pairs)[n] = EndsBy(pairs)[s]}
<1> DEFINE to == EndsBy(pairs)
<1>1. \A p, q \in pairs : ~(p[1] = q[1] /\ p[2] # q[2]) /\ p[2] # q[1]
  BY DEF RenamesConflict
<1>2. ASSUME NEW s \in Symbol, NEW p \in pairs, p[1] = s
      PROVE  to[s] = p[2]
  <2>1. (CHOOSE q \in pairs : q[1] = s) \in pairs /\ (CHOOSE q \in pairs : q[1] = s)[1] = s
    BY <1>2
  <2>2. (CHOOSE q \in pairs : q[1] = s)[2] = p[2]
    BY <1>1, <1>2, <2>1
  <2> QED
    BY <1>2, <2>2 DEF EndsBy
<1>3. \A s \in Symbol : (\A p \in pairs : p[1] # s) => to[s] = s
  BY DEF EndsBy
<1>4. to \in [Symbol -> Symbol]
  <2>1. \A s \in Symbol : to[s] \in Symbol
    BY <1>2, <1>3
  <2>2. to = [s \in Symbol |-> to[s]]
    BY DEF EndsBy
  <2> HIDE DEF to
  <2> QED
    BY <2>1, <2>2
<1> HIDE DEF to
<1>5. \A p \in pairs : to[p[1]] = p[2] /\ to[p[2]] = p[2]
  BY <1>1, <1>2, <1>3
<1>6. \A s \in Symbol : to[s] # s => <<s, to[s]>> \in pairs
  BY <1>2, <1>3
<1>7. \A s \in Symbol : to[to[s]] = to[s]
  BY <1>2, <1>3, <1>5
<1>8. ASSUME NEW s \in Symbol
      PROVE  ConnectedNames(pairs, s) = {n \in Symbol : to[n] = to[s]}
  BY <1>4, <1>5, <1>6, <1>7, ConnectedByEnds
<1>9. \A s \in Symbol : to[s] # s => \E p \in pairs : p[1] = s /\ p[2] = to[s]
  BY <1>2, <1>3
<1> QED
  BY <1>4, <1>5, <1>7, <1>8, <1>9 DEF to

----------------------------------------------------------------------------
(***************************************************************************)
(* What a handler does to the counts: it moves the units of its row in the *)
(* holding and in the day's log alike, and a decrease only within what is  *)
(* available.  A rename alone moves units from name to name.               *)
(***************************************************************************)
Net(entry) == entry.acquired - entry.disposed - entry.transferred
Moving == IF Sign(next) = 0 THEN 0 ELSE Sign(next) * units
Disposing ==
  IF rows[next].action \in Decreasing \ {"TRANSFER_TO_SPOUSE"} THEN units ELSE 0

MovesUnits ==
  /\ phase = "row" /\ Handled
  /\ rows[next].action \notin {"EXCESS_REPORTED_INCOME", "RENAME"}
  /\ \A n \in Symbol : Held(n)' = Held(n) + (IF n = row.symbol THEN Moving ELSE 0)
  /\ \A d \in Day, n \in Symbol :
       /\ Net(logs'[d][n]) = Net(logs[d][n])
                             + (IF d = row.date /\ n = row.symbol THEN Moving ELSE 0)
       /\ logs'[d][n].disposed = logs[d][n].disposed
                             + (IF d = row.date /\ n = row.symbol THEN Disposing ELSE 0)
       /\ d # row.date => logs'[d][n] = logs[d][n]
  /\ Sign(next) < 0 => AvailableUnits >= units

LEMMA HeldWith ==
  ASSUME NEW s, NEW count, portfolio' = WithHolding(s, count)
  PROVE  \A n : Held(n)' = IF n = s THEN count ELSE Held(n)
  BY DEF WithHolding, Held

LEMMA HeldGivenUp ==
  ASSUME Typed, phase \in Opened, GiveUp
  PROVE  \A n : Held(n)' = IF n = row.symbol THEN Held(n) - units ELSE Held(n)
<1>1. units \in Int /\ Held(row.symbol) \in Int
  BY RowRead, HeldType
<1>2. CASE Held(row.symbol) = units
  BY <1>1, <1>2 DEF GiveUp, WithoutHolding, Held
<1>3. CASE Held(row.symbol) # units
  BY <1>3, HeldWith DEF GiveUp
<1> QED
  BY <1>2, <1>3

LEMMA RecordMoves ==
  ASSUME Typed, phase \in Opened, NEW entry \in Log, Record(entry)
  PROVE  \A d \in Day, n \in Symbol :
           logs'[d][n] = IF d = row.date /\ n = row.symbol THEN entry ELSE logs[d][n]
<1>1. row.date \in Day /\ row.symbol \in Symbol
  BY RowRead
<1> QED
  BY <1>1 DEF Record, Typed, RecordsTyped

LEMMA MovedBy ==
  ASSUME Typed, phase = "row", Handled, NEW k \in Int, k = Moving, NEW taken \in Int,
         taken = Disposing, NEW entry \in Log, Record(entry),
         rows[next].action \notin {"EXCESS_REPORTED_INCOME", "RENAME"},
         \A n \in Symbol : Held(n)' = Held(n) + (IF n = row.symbol THEN k ELSE 0),
         Net(entry) = Net(log) + k, entry.disposed = log.disposed + taken,
         Sign(next) < 0 => AvailableUnits >= units
  PROVE  MovesUnits
<1>1. phase \in Opened
  BY DEF Opened
<1>2. \A d \in Day, n \in Symbol :
        logs'[d][n] = IF d = row.date /\ n = row.symbol THEN entry ELSE logs[d][n]
  BY <1>1, RecordMoves
<1>3. \A d \in Day, n \in Symbol : logs[d][n] \in Log
  BY DEF Typed, RecordsTyped
<1>4. \A d \in Day, n \in Symbol : Net(logs[d][n]) \in Int /\ logs[d][n].disposed \in Int
  BY <1>3 DEF Net, Log
<1>5. ASSUME NEW d \in Day, NEW n \in Symbol
      PROVE  /\ Net(logs'[d][n]) = Net(logs[d][n])
                                   + (IF d = row.date /\ n = row.symbol THEN k ELSE 0)
             /\ logs'[d][n].disposed = logs[d][n].disposed
                                   + (IF d = row.date /\ n = row.symbol THEN taken ELSE 0)
             /\ d # row.date => logs'[d][n] = logs[d][n]
  <2>1. CASE d = row.date /\ n = row.symbol
    BY <1>2, <2>1 DEF log
  <2>2. CASE ~(d = row.date /\ n = row.symbol)
    BY <1>2, <1>4, <2>2
  <2> QED
    BY <2>1, <2>2
<1> QED
  BY <1>5 DEF MovesUnits

LEMMA DecreaseMoves ==
  ASSUME Typed, phase = "row", Handled, rows[next].action \in Decreasing, GiveUp,
         AvailableUnits >= units, NEW entry \in Log, Record(entry),
         entry.acquired = log.acquired,
         \/ /\ rows[next].action # "TRANSFER_TO_SPOUSE"
            /\ entry.disposed = log.disposed + units /\ entry.transferred = log.transferred
         \/ /\ rows[next].action = "TRANSFER_TO_SPOUSE"
            /\ entry.disposed = log.disposed /\ entry.transferred = log.transferred + units
  PROVE  MovesUnits
<1>1. phase \in Opened /\ Sign(next) = -1 /\ units \in Int /\ log \in Log
  BY RowRead, SignOf DEF Opened
<1>2. Moving = -units /\ Disposing \in Int /\ -units \in Int
  BY <1>1 DEF Moving, Disposing
<1>3. \A n \in Symbol : Held(n)' = Held(n) + (IF n = row.symbol THEN -units ELSE 0)
  BY <1>1, HeldGivenUp, HeldType
<1>4. Net(entry) = Net(log) + (-units)
  BY <1>1 DEF Net, Log
<1>5. entry.disposed = log.disposed + Disposing
  BY <1>1 DEF Disposing, Log
<1>6. rows[next].action \notin {"EXCESS_REPORTED_INCOME", "RENAME"}
  BY DEF Decreasing, Sales
<1> QED
  BY <1>2, <1>3, <1>4, <1>5, <1>6, MovedBy

LEMMA UnmovedLog ==
  ASSUME Typed, phase = "row", Handled, UNCHANGED portfolio, Sign(next) = 0,
         rows[next].action \notin {"EXCESS_REPORTED_INCOME", "RENAME"},
         NEW entry \in Log, Record(entry),
         entry.acquired = log.acquired, entry.disposed = log.disposed,
         entry.transferred = log.transferred
  PROVE  MovesUnits
<1>1. log \in Log
  BY RowRead DEF Opened
<1>2. Moving = 0 /\ Disposing = 0
  BY DEF Moving, Disposing, Sign
<1>3. \A n \in Symbol : Held(n)' = Held(n) + (IF n = row.symbol THEN 0 ELSE 0)
  BY HeldType DEF Held
<1>4. Net(entry) = Net(log) + 0 /\ entry.disposed = log.disposed + 0
  BY <1>1 DEF Net, Log
<1> QED
  BY <1>2, <1>3, <1>4, MovedBy

LEMMA AddAcquisitionMoves ==
  ASSUME Typed, AddAcquisition
  PROVE  MovesUnits
<1> DEFINE entry == [log EXCEPT !.acquired = @ + units]
<1>1. /\ phase = "row" /\ phase \in Opened /\ Handled /\ Record(entry)
      /\ rows[next].action \in Increasing
      /\ portfolio' = WithHolding(row.symbol, Held(row.symbol) + units)
  BY ReadingRow DEF AddAcquisition
<1>2. Sign(next) = 1 /\ units \in Int /\ units >= 0 /\ log \in Log
  BY <1>1, RowRead, SignOf
<1>3. Moving = units /\ Disposing = 0
  BY <1>1, <1>2 DEF Moving, Disposing, Increasing, Decreasing, Sales
<1>4. \A n \in Symbol : Held(n)' = Held(n) + (IF n = row.symbol THEN units ELSE 0)
  BY <1>1, <1>2, HeldWith, HeldType
<1>5. /\ entry \in Log /\ entry.disposed = log.disposed + 0
      /\ Net(entry) = Net(log) + units
  BY <1>2 DEF Log, Net
<1>6. rows[next].action \notin {"EXCESS_REPORTED_INCOME", "RENAME"}
  BY <1>1 DEF Increasing
<1>7. ~(Sign(next) < 0)
  BY <1>2
<1> HIDE DEF entry
<1> QED
  BY <1>1, <1>2, <1>3, <1>4, <1>5, <1>6, <1>7, MovedBy

LEMMA DecreasesMove ==
  ASSUME Typed, AddDisposal \/ AddTransferToSpouse \/ AddGift
  PROVE  (\E reason : Refuse(reason)) \/ MovesUnits
<1>1. phase = "row" /\ phase \in Opened /\ rows[next].action \in Decreasing
  BY ReadingRow DEF AddDisposal, AddTransferToSpouse, AddGift, Decreasing
<1>2. /\ DisposalEntry \in Log /\ TransferEntry \in Log /\ GiftEntry \in Log
      /\ log \in Log /\ AvailableUnits \in Int /\ units \in Int
  <2>1. AvailableUnits \in Int
    <3>1. row.date \in Day /\ row.symbol \in Symbol
      BY <1>1, RowRead
    <3> DEFINE component == components[row.date][row.symbol]
    <3>2. component.names \in SUBSET Symbol /\ component.capacity \in Int
      BY <3>1 DEF Typed, PlansTyped
    <3>3. Taken(component) \in Int
      <4>1. IsFiniteSet(component.names)
        BY <3>2, SymbolsFinite
      <4>2. \A n \in component.names : DisposedBy(row.date, component.names)[n] \in Int
        BY <3>1, <3>2 DEF DisposedBy, Typed, RecordsTyped, Log
      <4>3. SumFunctionOnSet(DisposedBy(row.date, component.names), component.names) \in Int
        BY <4>1, <4>2, SumType
      <4>4. Taken(component)
              = MapThenSumSet(LAMBDA n : logs[row.date][n].disposed, component.names)
        BY Zenon DEF Taken
      <4> QED
        BY <4>1, <4>3, <4>4, DisposedSum
    <3>4. capacities[row.date][row.symbol] \in Int /\ Held(row.symbol) \in Int
      BY <3>1, HeldType DEF Typed, PlansTyped
    <3> QED
      BY <3>2, <3>3, <3>4 DEF AvailableUnits
  <2> QED
    BY <1>1, <2>1, EntriesTyped, RowRead
<1>3. CASE AddDisposal
  <2>1. \/ \E reason : Refuse(reason)
        \/ /\ ~(AvailableUnits < units) /\ GiveUp /\ Record(DisposalEntry) /\ Handled
    BY <1>3 DEF AddDisposal, DisposalEntry
  <2>2. rows[next].action # "TRANSFER_TO_SPOUSE"
    BY <1>3, ReadingRow DEF AddDisposal, Sales
  <2>3. /\ DisposalEntry.acquired = log.acquired /\ DisposalEntry.transferred = log.transferred
        /\ DisposalEntry.disposed = log.disposed + units
    BY <1>2 DEF DisposalEntry, Log
  <2> QED
    BY <1>1, <1>2, <2>1, <2>2, <2>3, DecreaseMoves
<1>4. CASE AddTransferToSpouse
  <2>1. \/ \E reason : Refuse(reason)
        \/ /\ ~(AvailableUnits < units) /\ GiveUp /\ Record(TransferEntry) /\ Handled
    BY <1>4 DEF AddTransferToSpouse, TransferEntry
  <2>2. rows[next].action = "TRANSFER_TO_SPOUSE"
    BY <1>4, ReadingRow DEF AddTransferToSpouse
  <2>3. /\ TransferEntry.acquired = log.acquired /\ TransferEntry.disposed = log.disposed
        /\ TransferEntry.transferred = log.transferred + units
    BY <1>2 DEF TransferEntry, Log
  <2> QED
    BY <1>1, <1>2, <2>1, <2>2, <2>3, DecreaseMoves
<1>5. CASE AddGift
  <2>1. \/ \E reason : Refuse(reason)
        \/ /\ ~(AvailableUnits < units) /\ GiveUp /\ Record(GiftEntry) /\ Handled
    BY <1>5 DEF AddGift, GiftEntry, GiftKind
  <2>2. rows[next].action # "TRANSFER_TO_SPOUSE"
    BY <1>5, ReadingRow DEF AddGift
  <2>3. /\ GiftEntry.acquired = log.acquired /\ GiftEntry.transferred = log.transferred
        /\ GiftEntry.disposed = log.disposed + units
    BY <1>2 DEF GiftEntry, Log
  <2> QED
    BY <1>1, <1>2, <2>1, <2>2, <2>3, DecreaseMoves
<1> QED
  BY <1>3, <1>4, <1>5

LEMMA OthersMoveNothing ==
  ASSUME Typed, AddManagementFee \/ PassOver
  PROVE  (\E reason : Refuse(reason)) \/ MovesUnits
<1>1. phase = "row" /\ phase \in Opened /\ rows[next].action \in {"FEE", "CASH", "STOCK_SPLIT"}
  BY ReadingRow DEF AddManagementFee, PassOver
<1>2. Sign(next) = 0 /\ rows[next].action \notin {"EXCESS_REPORTED_INCOME", "RENAME"}
  BY <1>1, SignOf DEF Increasing, Decreasing, Sales
<1>3. log \in Log
  BY <1>1, RowRead
<1>4. CASE AddManagementFee
  <2> DEFINE entry == [log EXCEPT !.fee_day = TRUE]
  <2>1. \/ Refuse("row")
        \/ Record(entry) /\ Handled /\ UNCHANGED portfolio
    BY <1>4 DEF AddManagementFee
  <2>2. /\ entry \in Log /\ entry.acquired = log.acquired /\ entry.disposed = log.disposed
        /\ entry.transferred = log.transferred
    BY <1>3 DEF Log
  <2> HIDE DEF entry
  <2> QED
    BY <1>1, <1>2, <2>1, <2>2, UnmovedLog
<1>5. CASE PassOver
  <2>1. Handled /\ UNCHANGED <<portfolio, logs>>
    BY <1>5 DEF PassOver
  <2>2. row.date \in Day /\ row.symbol \in Symbol
    BY <1>1, RowRead
  <2>3. Record(log)
    BY <2>1, <2>2 DEF Record, log, Typed, RecordsTyped
  <2> QED
    BY <1>1, <1>2, <1>3, <2>1, <2>3, UnmovedLog
<1> QED
  BY <1>4, <1>5

LEMMA HandlersMove ==
  ASSUME Typed,
         AddAcquisition \/ AddDisposal \/ AddTransferToSpouse \/ AddGift
         \/ AddManagementFee \/ PassOver
  PROVE  (\E reason : Refuse(reason)) \/ MovesUnits
  BY AddAcquisitionMoves, DecreasesMove, OthersMoveNothing

RenamesUnits ==
  /\ phase = "row" /\ Handled /\ UNCHANGED logs
  /\ rows[next].action = "RENAME"
  /\ \A n \in Symbol : Held(n)' =
       IF n = row.symbol THEN Held(n) + Held(row.renamed)
       ELSE IF n = row.renamed THEN 0 ELSE Held(n)

LEMMA AddRenameMoves ==
  ASSUME Typed, AddRename
  PROVE  RenamesUnits
<1>1. phase = "row" /\ Handled /\ UNCHANGED logs /\ rows[next].action = "RENAME"
  BY ReadingRow DEF AddRename
<1> DEFINE total == Held(row.symbol) + Held(row.renamed)
           names == (DOMAIN portfolio \ {row.renamed}) \cup {row.symbol}
<1>2. portfolio' = [n \in names |-> IF n = row.symbol THEN total ELSE portfolio[n]]
  BY DEF AddRename
<1> HIDE DEF total
<1>3. \A n \in Symbol : Held(n)' =
        IF n = row.symbol THEN total ELSE IF n = row.renamed THEN 0 ELSE Held(n)
  BY <1>2 DEF Held
<1> QED
  BY <1>1, <1>3 DEF RenamesUnits, total

----------------------------------------------------------------------------
(***************************************************************************)
(* Where the pass stands: the days planned are those of the rows read, a   *)
(* day not planned has nothing recorded of it, and what a day's planning   *)
(* left says which names are one holding.                                  *)
(***************************************************************************)
Report == "EXCESS_REPORTED_INCOME"

Calendar ==
  /\ phase = "ingested" => next > Len(rows)
  /\ phase \in Opened => row.date \in planned
  /\ \A d \in planned, i \in DOMAIN rows : i >= next => d <= rows[i].date
  /\ \A i \in DOMAIN rows : i < next => rows[i].date \in planned
  /\ phase = "post" => row.action # Report
  /\ phase = "plan" => \A i \in RowsOn(row.date) : i >= next

Blank(d, s) ==
  /\ Quiet(logs[d][s])
  /\ ~splits[d][s].planned
  /\ renames[d][s] = s
  /\ components[d][s].capacity = 0
  /\ capacities[d][s] = NoCapacity
DaysBlank == \A d \in Day \ planned, s \in Symbol : Blank(d, s)
NothingRead == phase = "plan" => \A s \in Symbol : Quiet(logs[row.date][s])
DaysAheadBlank == DaysBlank /\ NothingRead

RenamesRead ==
  \A i \in DOMAIN rows : rows[i].action = "RENAME" /\ rows[i].date \in planned =>
    renames[rows[i].date][rows[i].renamed] = rows[i].symbol /\ rows[i].renamed # rows[i].symbol

Supported(d, s) ==
  \A i \in RowsOn(d) :
    rows[i].symbol \in Class(d, s) => rows[i].action \notin RENAME_DAY_UNSUPPORTED_ACTIONS
PlansFit ==
  \A d \in Day, s \in Symbol :
    /\ \A n \in Class(d, s) : components[d][n].capacity = components[d][s].capacity
    /\ components[d][s].capacity # 0 => components[d][s].names = Class(d, s) /\ Supported(d, s)
    /\ (\A n \in Class(d, s) : ~splits[d][n].planned) => capacities[d][s] = NoCapacity
    /\ splits[d][s].planned =>
         \E i \in RowsOn(d) : rows[i].action = "STOCK_SPLIT" /\ rows[i].symbol = s

Structure ==
  /\ Typed
  /\ Calendar
  /\ DaysAheadBlank
  /\ EndsMerged
  /\ RenamesRead
  /\ PlansFit

LEMMA InitStructure == Init => Structure
<1> SUFFICES ASSUME Init
             PROVE  Structure
  OBVIOUS
<1>1. Typed
  BY InitTyped
<1>2. Calendar
  BY RowType DEF Init, Calendar, Opened
<1>3. \A d \in Day, s \in Symbol : Blank(d, s)
  BY DEF Init, Blank, NoLog, NoSplit, Quiet
<1>4. DaysAheadBlank /\ EndsMerged /\ RenamesRead
  BY <1>3 DEF Init, DaysAheadBlank, DaysBlank, NothingRead, EndsMerged, RenamesRead
<1>5. PlansFit
  BY <1>3 DEF PlansFit, Blank, Class
<1> QED
  BY <1>1, <1>2, <1>4, <1>5 DEF Structure

\* A step that plans nothing leaves what was planned as it fits.
LEMMA PlansUntouched ==
  ASSUME Structure, UNCHANGED <<rows, planned, renames, components, capacities, splits>>
  PROVE  EndsMerged' /\ RenamesRead' /\ PlansFit'
  BY DEF Structure, EndsMerged, RenamesRead, PlansFit, Class, EndName, Supported, RowsOn

LEMMA BlankUntouched ==
  ASSUME Structure, UNCHANGED <<rows, planned, renames, components, capacities, splits>>,
         \A d \in Day \ planned, s \in Symbol : logs'[d][s] = logs[d][s],
         phase' = "plan" => phase = "plan" /\ UNCHANGED <<next, logs>>
  PROVE  DaysAheadBlank'
<1>1. \A d \in Day \ planned, s \in Symbol : Blank(d, s)'
  BY DEF Structure, DaysAheadBlank, DaysBlank, NothingRead, Blank
<1>2. phase' = "plan" => (\A s \in Symbol : Quiet(logs[row.date][s]))'
  BY DEF Structure, DaysAheadBlank, DaysBlank, NothingRead, row
<1> QED
  BY <1>1, <1>2 DEF DaysAheadBlank, DaysBlank, NothingRead

LEMMA StructureStays ==
  ASSUME Structure, Typed', UNCHANGED <<rows, next, planned, renames, components, capacities, splits>>,
         \A d \in Day, s \in Symbol : d # row.date => logs'[d][s] = logs[d][s],
         phase \in Opened \/ (\A d \in Day, s \in Symbol : logs'[d][s] = logs[d][s]),
         phase' = "ingested" => next > Len(rows),
         phase' \in Opened => row.date \in planned,
         phase' = "post" => row.action # Report,
         phase' # "plan"
  PROVE  Structure'
<1>1. Calendar'
  BY DEF Structure, Calendar, row, RowsOn
<1>2. \A d \in Day \ planned, s \in Symbol : logs'[d][s] = logs[d][s]
  BY DEF Structure, Calendar
<1>3. DaysAheadBlank'
  BY <1>2, BlankUntouched
<1> QED
  BY <1>1, <1>3, PlansUntouched DEF Structure

LEMMA StructurePassed ==
  ASSUME Structure, Typed', UNCHANGED <<rows, planned, renames, components, capacities, splits>>,
         \A d \in Day, s \in Symbol : d # row.date => logs'[d][s] = logs[d][s],
         phase \in Opened, next' = next + 1, phase' = "open"
  PROVE  Structure'
<1>1. /\ next \in DOMAIN rows /\ next \in Int /\ row.date \in planned /\ row = rows[next]
      /\ \A i \in DOMAIN rows : i \in Int
  BY RowRead, RowType DEF Structure, Calendar, Typed, PlaceTyped
<1>2. Calendar'
  BY <1>1 DEF Structure, Calendar, Opened
<1>3. \A d \in Day \ planned, s \in Symbol : logs'[d][s] = logs[d][s]
  BY <1>1
<1>4. DaysAheadBlank'
  BY <1>3, BlankUntouched
<1> QED
  BY <1>2, <1>4, PlansUntouched DEF Structure

LEMMA StructureRefused == ASSUME Structure, NEW reason, Refuse(reason) PROVE Structure'
<1>1. Typed'
  BY RefusedTyped DEF Structure
<1>2. /\ UNCHANGED <<rows, next, planned, logs, renames, components, capacities, splits>>
      /\ phase' = "refused"
  BY DEF Refuse
<1> QED
  BY <1>1, <1>2, StructureStays DEF Opened

LEMMA HandlersStructure ==
  ASSUME Structure, Typed', MovesUnits \/ RenamesUnits
  PROVE  Structure'
<1>1. /\ phase = "row" /\ phase' = "post" /\ rows[next].action # Report
      /\ UNCHANGED <<rows, next, planned, renames, components, capacities, splits>>
      /\ \A d \in Day, s \in Symbol : d # row.date => logs'[d][s] = logs[d][s]
  BY DEF MovesUnits, RenamesUnits, Handled, Report
<1>2. phase \in Opened /\ row.date \in planned /\ row.action # Report
  BY <1>1 DEF Structure, Calendar, Opened, row
<1> QED
  BY <1>1, <1>2, StructureStays

\* A row that is done with: the next is read, or the history is refused.
PassesRow ==
  /\ phase \in Opened
  /\ next' = next + 1 /\ phase' = "open"
  /\ UNCHANGED <<rows, planned, pool_quantity, renames, components, capacities, splits>>
  /\ \A d \in Day, s \in Symbol :
       /\ logs'[d][s].acquired = logs[d][s].acquired
       /\ logs'[d][s].disposed = logs[d][s].disposed
       /\ logs'[d][s].transferred = logs[d][s].transferred
       /\ d # row.date => logs'[d][s] = logs[d][s]

LEMMA EriKeepsDays ==
  ASSUME Typed, AddEri, EriRecorded
  PROVE  \A d \in Day, s \in Symbol : d # row.date => logs'[d][s] = logs[d][s]
<1>1. phase \in Opened
  BY ReadingRow DEF AddEri
<1>2. row.date \in Day
  BY <1>1, RowRead
<1>3. phase' # "refused"
  BY DEF EriRecorded
<1> DEFINE fresh == {s \in EriNames(row.symbol) :
                       \A t \in {u \in EriNames(row.symbol) : logs[row.date][u].eri > 0} : s < t}
           after == [s \in Symbol |-> IF s \in fresh
                       THEN [logs[row.date][s] EXCEPT !.eri = row.price]
                       ELSE logs[row.date][s]]
<1>4. Refuse("row") \/ logs' = [logs EXCEPT ![row.date] = after]
  BY DEF AddEri
<1>5. ~Refuse("row")
  BY <1>3 DEF Refuse
<1> HIDE DEF after
<1> QED
  BY <1>2, <1>4, <1>5 DEF Typed, RecordsTyped

LEMMA RowPassed ==
  ASSUME Typed, AddEri \/ PostRow
  PROVE  (\E reason : Refuse(reason)) \/ PassesRow
<1>1. phase \in Opened
  BY ReadingRow DEF AddEri, PostRow, Opened
<1>2. CASE AddEri
  <2>1. Refuse("row") \/ EriRecorded
    BY <1>2, AddEriRecords
  <2>2. ASSUME EriRecorded PROVE PassesRow
    BY <1>1, <1>2, <2>2, EriKeepsDays DEF EriRecorded, SameButForEri, PassesRow
  <2> QED
    BY <2>1, <2>2
<1>3. CASE PostRow
  <2>1. \/ Refuse("balance")
        \/ /\ next' = next + 1 /\ phase' = "open"
           /\ UNCHANGED <<rows, planned, pool_quantity, logs, renames, components,
                          capacities, splits>>
    BY <1>3 DEF PostRow
  <2> QED
    BY <1>1, <2>1 DEF PassesRow
<1> QED
  BY <1>2, <1>3

LEMMA PassingStructure ==
  ASSUME Structure, Typed', PassesRow
  PROVE  Structure'
  BY StructurePassed DEF PassesRow

LEMMA EndsStructure ==
  ASSUME Structure, NoteSource \/ Finish
  PROVE  Structure'
<1>1. Typed' /\ Typed
  BY NoteSourceTyped, PassOverTyped DEF Structure
<1>2. CASE NoteSource
  <2>1. /\ phase \in Opened \/ row.date \in planned
        /\ phase' = "row"
        /\ UNCHANGED <<rows, next, planned, logs, renames, components, capacities, splits>>
    BY <1>2 DEF NoteSource, Opened
  <2>2. row.date \in planned
    BY <2>1 DEF Structure, Calendar
  <2> QED
    BY <1>1, <2>1, <2>2, StructureStays
<1>3. CASE Finish
  <2>1. /\ phase' = "ingested" /\ next > Len(rows)
        /\ UNCHANGED <<rows, next, planned, logs, renames, components, capacities, splits>>
    BY <1>3 DEF Finish
  <2> QED
    BY <1>1, <2>1, StructureStays DEF Opened
<1> QED
  BY <1>2, <1>3

LEMMA PlanningStructure ==
  ASSUME Structure, PlanStockSplit
  PROVE  Structure'
<1>1. Typed' /\ Typed
  BY PlanStockSplitTyped DEF Structure
<1>2. CASE phase' = "refused"
  BY <1>2, StructureRefused DEF PlanStockSplit, Refuse
<1>3. CASE phase' # "refused"
  <2> DEFINE i == PlannedRow
             s == PlannedSymbol
             d == row.date
             names == NamesOn(d, s)
             capacity == [n \in Symbol |-> IF n \in names THEN DayCapacity(i)
                                           ELSE capacities[d][n]]
  <2>1. /\ s \in Symbol /\ i \in DOMAIN rows /\ rows[i].date = d
        /\ rows[i].symbol = s /\ rows[i].action = "STOCK_SPLIT"
    BY <1>1, <1>3, PlannedRowIs
  <2>2. phase = "plan" /\ d \in planned /\ d \in Day
    BY <1>1, RowRead DEF Structure, Calendar, PlanStockSplit, Opened
  <2>3. /\ splits' = [splits EXCEPT ![d][s] = Transformation(i)]
        /\ capacities' = [capacities EXCEPT ![d] = capacity]
        /\ UNCHANGED <<rows, next, phase, planned, logs, renames, components>>
    BY <1>3 DEF PlanStockSplit, Refuse, PlannedSymbol, PlannedRow
  <2>4. names = Class(d, s)
    BY <1>1, <2>1, <2>2, NamesAreClass DEF Structure
  <2> HIDE DEF capacity, names
  <2>5. \A e \in Day, n \in Symbol : splits'[e][n] =
          IF e = d /\ n = s THEN Transformation(i) ELSE splits[e][n]
    BY <2>1, <2>2, <2>3 DEF Structure, Typed, PlansTyped
  <2>6. \A e \in Day, n \in Symbol : capacities'[e][n] =
          IF e = d /\ n \in names THEN DayCapacity(i) ELSE capacities[e][n]
    BY <2>2, <2>3 DEF Structure, Typed, PlansTyped, capacity
  <2>7. Transformation(i).planned
    BY DEF Transformation
  <2>8. \A e \in Day \ planned, n \in Symbol : splits'[e][n] = splits[e][n] /\ capacities'[e][n] = capacities[e][n]
    BY <2>2, <2>5, <2>6
  <2>9. Calendar' /\ EndsMerged' /\ RenamesRead'
    BY <2>3 DEF Structure, Calendar, EndsMerged, RenamesRead, row, RowsOn
  <2>10. DaysAheadBlank'
    <3>1. \A e \in Day \ planned, n \in Symbol : Blank(e, n)'
      BY <2>3, <2>8 DEF Structure, DaysAheadBlank, DaysBlank, NothingRead, Blank
    <3> QED
      BY <2>3, <3>1 DEF Structure, DaysAheadBlank, DaysBlank, NothingRead, row
  <2>11. ASSUME NEW e \in Day, NEW n \in Symbol
         PROVE  /\ Class(e, n)' = Class(e, n) /\ Supported(e, n)' = Supported(e, n)
                /\ (\A m \in Class(e, n) : ~splits'[e][m].planned) => capacities'[e][n] = NoCapacity
                /\ splits'[e][n].planned =>
                     \E j \in RowsOn(e) : rows[j].action = "STOCK_SPLIT" /\ rows[j].symbol = n
    <3>1. Class(e, n)' = Class(e, n) /\ Supported(e, n)' = Supported(e, n)
      BY <2>3 DEF Class, Supported, EndName, RowsOn
    <3>2. ASSUME \A m \in Class(e, n) : ~splits'[e][m].planned
          PROVE  capacities'[e][n] = NoCapacity
      <4>1. ~(e = d /\ n \in names)
        <5> SUFFICES ASSUME e = d, n \in Class(d, s)
                     PROVE  FALSE
          BY <2>4
        <5>1. s \in Class(e, n)
          BY <2>1 DEF Class
        <5> QED
          BY <2>1, <2>2, <2>5, <2>7, <3>2, <5>1
      <4>2. \A m \in Class(e, n) : ~splits[e][m].planned
        <5>1. \A m \in Class(e, n) : ~(e = d /\ m = s)
          BY <2>2, <2>5, <2>7, <3>2 DEF Class
        <5> QED
          BY <2>5, <3>2, <5>1 DEF Class
      <4> QED
        BY <2>6, <4>1, <4>2 DEF Structure, PlansFit
    <3>3. ASSUME splits'[e][n].planned
          PROVE  \E j \in RowsOn(e) : rows[j].action = "STOCK_SPLIT" /\ rows[j].symbol = n
      <4>1. CASE e = d /\ n = s
        BY <2>1, <4>1 DEF RowsOn
      <4>2. CASE ~(e = d /\ n = s)
        BY <2>5, <3>3, <4>2 DEF Structure, PlansFit
      <4> QED
        BY <4>1, <4>2
    <3> QED
      BY <3>1, <3>2, <3>3
  <2>12. PlansFit'
    <3>1. \A e : RowsOn(e)' = RowsOn(e)
      BY <2>3 DEF RowsOn
    <3> QED
      BY <2>3, <2>11, <3>1 DEF Structure, PlansFit
  <2> QED
    BY <1>1, <2>9, <2>10, <2>12 DEF Structure
<1> QED
  BY <1>2, <1>3

\* What the opening of a day leaves: the names its renames give, and what
\* the names they connect can give up together.
DayNames == EndsBy(RenamePairs(RowsOn(row.date)))
DayClass(s) == {n \in Symbol : DayNames[n] = DayNames[s]}
DayRows(s) == {i \in RowsOn(row.date) : rows[i].symbol \in DayClass(s)}

DayPlans(s) ==
  /\ \A n \in DayClass(s) :
       components'[row.date][n].capacity = components'[row.date][s].capacity
  /\ components'[row.date][s].capacity # 0 =>
       /\ components'[row.date][s].names = DayClass(s)
       /\ components'[row.date][s].capacity =
            MapThenSumSet(LAMBDA n : Held(n), DayClass(s))
            + SignedQuantity(Increases(DayRows(s)), pool_quantity)
       /\ \A i \in DayRows(s) : rows[i].action \notin RENAME_DAY_UNSUPPORTED_ACTIONS

DayOpens ==
  /\ phase = "open" /\ next <= Len(rows) /\ row.date \in Day \ planned
  /\ planned' = planned \cup {row.date}
  /\ phase' = "plan"
  /\ UNCHANGED <<rows, next, portfolio, pool_quantity, logs, capacities, splits>>
  /\ renames' = [renames EXCEPT ![row.date] = DayNames]
  /\ DayNames \in [Symbol -> Symbol]
  /\ \A s \in Symbol : DayNames[DayNames[s]] = DayNames[s]
  /\ \A i \in RowsOn(row.date) : rows[i].action = "RENAME" =>
       DayNames[rows[i].renamed] = rows[i].symbol /\ rows[i].renamed # rows[i].symbol
  /\ (\A i \in RowsOn(row.date) : rows[i].action # "RENAME") =>
       \A s \in Symbol : DayNames[s] = s
  /\ \A d \in Day, s \in Symbol : d # row.date => components'[d][s] = components[d][s]
  /\ \A s \in Symbol : DayPlans(s)

LEMMA OpeningDay ==
  ASSUME Structure, OpenTransactionDay
  PROVE  Refuse("rename") \/ DayOpens
<1> DEFINE d == row.date
           pairs == RenamePairs(RowsOn(d))
           renamed == UNION {{p[1], p[2]} : p \in pairs}
           Part(s) == Component(d, ConnectedNames(pairs, s), s)
           fresh == [s \in Symbol |-> IF s \in renamed THEN Part(s) ELSE components[d][s]]
<1>1. CASE RenamesConflict(pairs)
  BY <1>1 DEF OpenTransactionDay
<1>2. CASE ~RenamesConflict(pairs)
  <2>1. /\ phase = "open" /\ next <= Len(rows) /\ d \notin planned
        /\ planned' = planned \cup {d} /\ phase' = "plan"
        /\ UNCHANGED <<rows, next, portfolio, pool_quantity, logs, capacities, splits>>
        /\ renames' = [renames EXCEPT ![d] = EndsBy(pairs)]
        /\ components' = [components EXCEPT ![d] = fresh]
    BY <1>2 DEF OpenTransactionDay, EndsBy
  <2>2. next \in DOMAIN rows /\ d \in Day
    BY <2>1, RowType, RowPlace DEF Structure, Typed, PlaceTyped, row
  <2>3. \A p \in pairs : p[1] \in Symbol /\ p[2] \in Symbol /\ p = <<p[1], p[2]>>
    BY RowType DEF RenamePairs, RowsOn, Structure, Typed, PlaceTyped, Row
  <2>4. \A i \in RowsOn(d) : rows[i].action = "RENAME" =>
          <<rows[i].renamed, rows[i].symbol>> \in pairs
    BY DEF RenamePairs
  <2>5. (\A i \in RowsOn(d) : rows[i].action # "RENAME") => pairs = {}
    BY DEF RenamePairs
  <2> HIDE DEF pairs, fresh
  <2>6. /\ EndsBy(pairs) \in [Symbol -> Symbol]
        /\ \A p \in pairs : EndsBy(pairs)[p[1]] = p[2]
        /\ \A s \in Symbol : EndsBy(pairs)[EndsBy(pairs)[s]] = EndsBy(pairs)[s]
        /\ \A s \in Symbol : EndsBy(pairs)[s] # s =>
              \E p \in pairs : p[1] = s /\ p[2] = EndsBy(pairs)[s]
        /\ \A s \in Symbol : ConnectedNames(pairs, s) =
              {n \in Symbol : EndsBy(pairs)[n] = EndsBy(pairs)[s]}
    BY <1>2, <2>3, EndsByRenames
  <2>7. DayNames = EndsBy(pairs)
    BY DEF DayNames, pairs
  <2>8. \A i \in RowsOn(d) : rows[i].action = "RENAME" =>
          DayNames[rows[i].renamed] = rows[i].symbol /\ rows[i].renamed # rows[i].symbol
    <3>1. \A p \in pairs : p[2] # p[1]
      BY <1>2 DEF RenamesConflict, pairs
    <3> QED
      BY <2>4, <2>6, <2>7, <3>1
  <2>9. (\A i \in RowsOn(d) : rows[i].action # "RENAME") => \A s \in Symbol : DayNames[s] = s
    BY <2>5, <2>7 DEF EndsBy
  <2>10. \A e \in Day, s \in Symbol :
           components'[e][s] = IF e = d THEN fresh[s] ELSE components[e][s]
    BY <2>1, <2>2 DEF Structure, Typed, PlansTyped, fresh
  <2>11. \A s \in Symbol : ConnectedNames(pairs, s) = DayClass(s)
    BY <2>6, <2>7 DEF DayClass
  <2>12. ASSUME NEW s \in Symbol, NEW n \in DayClass(s)
         PROVE  fresh[n].capacity = fresh[s].capacity
    <3>1. n \in Symbol /\ DayNames[n] = DayNames[s]
      BY DEF DayClass
    <3>2. DayClass(n) = DayClass(s)
      BY <3>1 DEF DayClass
    <3>3. CASE n = s
      BY <3>3
    <3>4. CASE n # s
      <4>1. \A m \in Symbol : m \notin renamed => \A p \in pairs : p[1] # m /\ p[2] # m
        BY DEF renamed
      <4>2. \A m \in Symbol : m \notin renamed => DayNames[m] = m
        BY <2>6, <2>7, <4>1
      <4>3. n \in renamed /\ s \in renamed
        BY <2>6, <2>7, <3>1, <3>4, <4>1, <4>2
      <4>4. fresh[n] = Part(n) /\ fresh[s] = Part(s)
        BY <3>1, <4>3 DEF fresh
      <4>5. Component(d, DayClass(s), n) = Component(d, DayClass(s), s)
        BY DEF Component
      <4> QED
        BY <2>11, <3>1, <3>2, <4>4, <4>5
    <3> QED
      BY <3>3, <3>4
  <2>13. ASSUME NEW s \in Symbol, fresh[s].capacity # 0
         PROVE  /\ fresh[s].names = DayClass(s)
                /\ fresh[s].capacity =
                     MapThenSumSet(LAMBDA n : Held(n), DayClass(s))
                     + SignedQuantity(Increases(DayRows(s)), pool_quantity)
                /\ \A i \in DayRows(s) : rows[i].action \notin RENAME_DAY_UNSUPPORTED_ACTIONS
    <3>1. components[d][s].capacity = 0
      BY <2>1, <2>2 DEF Structure, DaysAheadBlank, DaysBlank, NothingRead, Blank
    <3>2. s \in renamed
      BY <2>13, <3>1 DEF fresh
    <3>3. fresh[s] = Component(d, DayClass(s), s)
      BY <2>11, <3>2 DEF fresh
    <3> DEFINE names == DayClass(s)
               mine == {i \in RowsOn(d) : rows[i].symbol \in names}
               capacity == MapThenSumSet(LAMBDA n : Held(n), names)
                           + SignedQuantity(Increases(mine), pool_quantity)
               Never == \/ \E i \in RowsOn(d) : rows[i].action = "EXCESS_REPORTED_INCOME"
                        \/ \E i \in mine : rows[i].action \in RENAME_DAY_UNSUPPORTED_ACTIONS
    <3>4. Component(d, names, s) = IF Never THEN [names |-> {}, capacity |-> 0]
                                   ELSE [names |-> names, capacity |-> capacity]
      BY Zenon DEF Component
    <3>5. mine = DayRows(s)
      BY DEF DayRows
    <3> HIDE DEF names, mine, capacity
    <3>6. ~Never
      BY <2>13, <3>3, <3>4 DEF names
    <3>7. fresh[s].names = names /\ fresh[s].capacity = capacity
      BY <3>3, <3>4, <3>6 DEF names
    <3> QED
      BY <3>5, <3>6, <3>7 DEF names, capacity
  <2>14. ASSUME NEW s \in Symbol
         PROVE  DayPlans(s)
    <3>1. \A n \in Symbol : components'[d][n] = fresh[n]
      BY <2>2, <2>10
    <3>2. \A n \in DayClass(s) : n \in Symbol
      BY DEF DayClass
    <3> QED
      BY <2>12, <2>13, <3>1, <3>2 DEF DayPlans
  <2> QED
    BY <2>1, <2>2, <2>6, <2>7, <2>8, <2>9, <2>10, <2>14 DEF DayOpens
<1> QED
  BY <1>1, <1>2

LEMMA DayOpensPlaces ==
  ASSUME Structure, DayOpens
  PROVE  /\ next \in DOMAIN rows /\ row = rows[next]
         /\ \A d \in Day, s \in Symbol :
              renames'[d][s] = IF d = row.date THEN DayNames[s] ELSE renames[d][s]
         /\ \A d \in Day, s \in Symbol :
              Class(d, s)' = IF d = row.date THEN DayClass(s) ELSE Class(d, s)
         /\ \A i \in DOMAIN rows : i < next <=> rows[i].date < row.date
         /\ \A d \in planned : d < row.date
<1>1. next \in DOMAIN rows /\ row = rows[next]
  BY RowType DEF DayOpens, Structure, Typed, PlaceTyped, row
<1>2. \A d \in Day, s \in Symbol :
        renames'[d][s] = IF d = row.date THEN DayNames[s] ELSE renames[d][s]
  BY DEF DayOpens, Structure, Typed, PlansTyped
<1>3. \A d \in Day, s \in Symbol :
        Class(d, s)' = IF d = row.date THEN DayClass(s) ELSE Class(d, s)
  BY <1>2 DEF Class, EndName, DayClass
<1>4. \A i \in DOMAIN rows : i \in Int /\ rows[i].date \in Day
  BY RowType, RowPlace DEF Structure, Typed, PlaceTyped
<1>5. row.date \notin planned /\ row.date \in Day /\ planned \subseteq Day
  BY DEF DayOpens, Structure, Typed, PlaceTyped
<1>6. \A d \in planned : d < row.date
  BY <1>1, <1>5 DEF Structure, Calendar, Day
<1>7. \A i \in DOMAIN rows : i < next <=> rows[i].date < row.date
  <2> SUFFICES ASSUME NEW i \in DOMAIN rows
               PROVE  i < next <=> rows[i].date < row.date
    OBVIOUS
  <2>1. CASE i < next
    BY <1>6, <2>1 DEF Structure, Calendar
  <2>2. CASE ~(i < next)
    <3>1. row.date <= rows[i].date
      BY <1>1, <1>4, <2>2, RowsInOrder DEF Structure
    <3> QED
      BY <1>4, <1>5, <2>2, <3>1 DEF Day
  <2> QED
    BY <2>1, <2>2
<1> QED
  BY <1>1, <1>2, <1>3, <1>6, <1>7

LEMMA OpeningStructure ==
  ASSUME Structure, OpenTransactionDay
  PROVE  Structure'
<1>1. Typed' /\ Typed
  BY OpenTransactionDayTyped DEF Structure
<1>2. CASE Refuse("rename")
  BY <1>2, StructureRefused
<1>3. CASE DayOpens
  <2> DEFINE d == row.date
  <2>1. /\ next \in DOMAIN rows /\ row = rows[next]
        /\ \A e \in Day, s \in Symbol :
             renames'[e][s] = IF e = d THEN DayNames[s] ELSE renames[e][s]
        /\ \A e \in Day, s \in Symbol :
             Class(e, s)' = IF e = d THEN DayClass(s) ELSE Class(e, s)
        /\ \A i \in DOMAIN rows : i < next <=> rows[i].date < d
    BY <1>3, DayOpensPlaces
  <2>2. /\ d \in Day \ planned /\ planned' = planned \cup {d} /\ phase' = "plan"
        /\ UNCHANGED <<rows, next, logs, capacities, splits>>
        /\ DayNames \in [Symbol -> Symbol]
        /\ \A s \in Symbol : DayNames[DayNames[s]] = DayNames[s]
        /\ \A e \in Day, s \in Symbol : e # d => components'[e][s] = components[e][s]
    BY <1>3 DEF DayOpens
  <2>3. \A i \in DOMAIN rows : rows[i].date \in Day /\ i \in Int /\ rows[i].renamed \in Symbol
    BY <1>1, RowType, RowPlace DEF Typed, PlaceTyped, Row
  <2>4. Calendar'
    <3>1. \A e \in planned', i \in DOMAIN rows : i >= next => e <= rows[i].date
      BY <2>1, <2>2, <2>3 DEF Structure, Calendar, Day
    <3>2. \A i \in DOMAIN rows : i < next => rows[i].date \in planned'
      BY <2>2 DEF Structure, Calendar
    <3>3. \A i \in RowsOn(d) : i >= next
      BY <2>1, <2>2, <2>3 DEF RowsOn, Day
    <3> QED
      BY <2>1, <2>2, <3>1, <3>2, <3>3 DEF Calendar, row, RowsOn, Opened
  <2>5. DaysAheadBlank'
    <3>1. (\A e \in Day \ planned, s \in Symbol : Blank(e, s))'
      BY <2>1, <2>2 DEF Structure, DaysAheadBlank, DaysBlank, NothingRead, Blank
    <3>2. \A s \in Symbol : Quiet(logs[d][s])
      BY <2>2 DEF Structure, DaysAheadBlank, DaysBlank, NothingRead, Blank
    <3>3. (\A s \in Symbol : Quiet(logs[row.date][s]))'
      BY <2>2, <3>2 DEF row
    <3>4. DaysBlank' /\ NothingRead'
      BY <3>1, <3>3 DEF DaysBlank, NothingRead
    <3> QED
      BY <3>4 DEF DaysAheadBlank
  <2>6. EndsMerged'
    <3>1. ASSUME NEW e \in Day, NEW s \in Symbol
          PROVE  renames'[e][renames'[e][s]] = renames'[e][s]
      <4>1. renames[e][s] \in Symbol /\ DayNames[s] \in Symbol
        BY <1>1, <2>2 DEF Typed, PlansTyped
      <4>2. renames[e][renames[e][s]] = renames[e][s]
        BY DEF Structure, EndsMerged
      <4> QED
        BY <2>1, <2>2, <4>1, <4>2
    <3> QED
      BY <3>1 DEF EndsMerged
  <2>7. RenamesRead'
    <3> SUFFICES ASSUME NEW i \in DOMAIN rows, rows[i].action = "RENAME",
                        rows[i].date \in planned'
                 PROVE  /\ renames'[rows[i].date][rows[i].renamed] = rows[i].symbol
                        /\ rows[i].renamed # rows[i].symbol
      BY <2>2 DEF RenamesRead
    <3>1. CASE rows[i].date = d
      BY <1>3, <2>1, <2>3, <3>1 DEF DayOpens, RowsOn
    <3>2. CASE rows[i].date # d
      BY <2>1, <2>2, <2>3, <3>2 DEF Structure, RenamesRead
    <3> QED
      BY <3>1, <3>2
  <2>8. PlansFit'
    <3>1. \A e : RowsOn(e)' = RowsOn(e)
      BY <2>2 DEF RowsOn
    <3>2. ASSUME NEW e \in Day, NEW s \in Symbol, e = d
          PROVE  /\ \A n \in Class(e, s)' : components'[e][n].capacity = components'[e][s].capacity
                 /\ components'[e][s].capacity # 0 =>
                      components'[e][s].names = Class(e, s)' /\ Supported(e, s)'
                 /\ ~splits'[e][s].planned /\ capacities'[e][s] = NoCapacity
      <4>1. Class(e, s)' = DayClass(s)
        BY <2>1, <3>2
      <4>2. DayPlans(s)
        BY <1>3 DEF DayOpens
      <4>3. Supported(e, s)' <=> \A i \in DayRows(s) : rows[i].action \notin RENAME_DAY_UNSUPPORTED_ACTIONS
        BY <2>2, <3>1, <3>2, <4>1 DEF Supported, DayRows
      <4>4. ~splits'[e][s].planned /\ capacities'[e][s] = NoCapacity
        BY <2>2, <3>2 DEF Structure, DaysAheadBlank, DaysBlank, NothingRead, Blank
      <4> QED
        BY <3>2, <4>1, <4>2, <4>3, <4>4 DEF DayPlans
    <3>3. ASSUME NEW e \in Day, NEW s \in Symbol, e # d
          PROVE  /\ Class(e, s)' = Class(e, s) /\ Supported(e, s)' = Supported(e, s)
                 /\ \A n \in Symbol : components'[e][n] = components[e][n]
      BY <2>1, <2>2, <3>1, <3>3 DEF Supported
    <3>4. ASSUME NEW e \in Day, NEW s \in Symbol
          PROVE  /\ \A n \in Class(e, s)' : components'[e][n].capacity = components'[e][s].capacity
                 /\ components'[e][s].capacity # 0 =>
                      components'[e][s].names = Class(e, s)' /\ Supported(e, s)'
                 /\ (\A n \in Class(e, s)' : ~splits'[e][n].planned) => capacities'[e][s] = NoCapacity
                 /\ splits'[e][s].planned =>
                      \E i \in RowsOn(e)' : rows'[i].action = "STOCK_SPLIT" /\ rows'[i].symbol = s
      <4>1. CASE e = d
        BY <3>2, <4>1
      <4>2. CASE e # d
        <5>1. \A n \in Class(e, s) : n \in Symbol
          BY DEF Class
        <5> QED
          BY <2>2, <3>1, <3>3, <4>2, <5>1 DEF Structure, PlansFit
      <4> QED
        BY <4>1, <4>2
    <3> QED
      BY <3>4 DEF PlansFit
  <2> QED
    BY <1>1, <2>4, <2>5, <2>6, <2>7, <2>8 DEF Structure
<1> QED
  BY <1>2, <1>3, OpeningDay

LEMMA StepStructure == Structure /\ [Next]_vars => Structure'
<1> SUFFICES ASSUME Structure, [Next]_vars
             PROVE  Structure'
  OBVIOUS
<1>1. Typed /\ Typed'
  BY StepTyped DEF Structure
<1>2. CASE UNCHANGED vars
  <2>1. DaysAheadBlank' /\ Calendar'
    BY <1>2 DEF vars, Structure, DaysAheadBlank, DaysBlank, NothingRead, Blank, Calendar, row, RowsOn
  <2> QED
    BY <1>1, <1>2, <2>1, PlansUntouched DEF vars, Structure
<1>3. CASE AddAcquisition \/ AddDisposal \/ AddTransferToSpouse \/ AddGift
           \/ AddManagementFee \/ PassOver
  BY <1>1, <1>3, HandlersMove, HandlersStructure, StructureRefused
<1>4. CASE AddRename
  BY <1>1, <1>4, AddRenameMoves, HandlersStructure
<1>5. CASE AddEri \/ PostRow
  BY <1>1, <1>5, RowPassed, PassingStructure, StructureRefused
<1>6. CASE RefuseOther
  BY <1>6, StructureRefused DEF RefuseOther
<1> QED
  BY <1>2, <1>3, <1>4, <1>5, <1>6, OpeningStructure, PlanningStructure, EndsStructure DEF Next

----------------------------------------------------------------------------
(***************************************************************************)
(* Both passes' counts.  While the rows of a day are read, what its names  *)
(* hold together is what the walk rebuilds of the day so far; once they    *)
(* are all read, every name holds what the walk rebuilds under it.         *)
(***************************************************************************)
HeldAll == [n \in Symbol |-> Held(n)]
EndsAt(d, s) == {n \in Symbol : EndName(d, n) = s}
Counted(d) == [n \in Symbol |-> Carried(splits[d][n], logs[d][n], Replay[d - 1][n])]

\* The rows of planned days that have units yet to move or names to gather.
Pending == {i \in DOMAIN rows :
              i >= next /\ rows[i].date \in planned /\ rows[i].action # Report}

Settled ==
  Pending = {} =>
    \A d \in 0 .. LastDay : (\A p \in planned : p <= d) =>
      \A s \in Symbol : Held(s) = Replay[d][s]
AtOpening ==
  Pending # {} /\ phase = "plan" => \A n \in Symbol : Held(n) = Counted(row.date)[n]
InDay ==
  Pending # {} /\ phase # "plan" =>
    \A s \in Symbol : SumFunctionOnSet(HeldAll, EndsAt(row.date, s)) = Replay[row.date][s]

Agreement ==
  /\ Structure
  /\ phase # "refused" => Settled /\ AtOpening /\ InDay

LEMMA PendingToday ==
  ASSUME Structure, Pending # {}
  PROVE  /\ next \in DOMAIN rows /\ next <= Len(rows) /\ row = rows[next]
         /\ row.date \in planned /\ row.date \in Day
         /\ \A i \in Pending : rows[i].date = row.date
         /\ \A p \in planned : p <= row.date
<1>1. PICK i \in Pending : TRUE
  OBVIOUS
<1>2. /\ rows \in Ledgers /\ DOMAIN rows = 1 .. Len(rows) /\ Len(rows) \in Nat
      /\ next \in 1 .. Len(rows) + 1 /\ planned \subseteq Day
      /\ \A j \in DOMAIN rows : rows[j].date \in Day
  BY RowType, RowPlace DEF Structure, Typed, PlaceTyped
<1>3. i \in DOMAIN rows /\ i >= next
  BY DEF Pending
<1>4. next \in DOMAIN rows /\ next <= Len(rows)
  BY <1>2, <1>3
<1>5. row = rows[next]
  BY DEF row
<1>6. \A j \in Pending : rows[j].date = row.date
  <2> SUFFICES ASSUME NEW j \in Pending
               PROVE  rows[j].date = row.date
    OBVIOUS
  <2>1. j \in DOMAIN rows /\ j >= next /\ rows[j].date \in planned
    BY DEF Pending
  <2>2. rows[j].date <= row.date
    BY <1>2, <1>4, <1>5, <2>1 DEF Structure, Calendar
  <2>3. row.date <= rows[j].date
    BY <1>2, <1>4, <1>5, <2>1, RowsInOrder DEF Structure
  <2> QED
    BY <1>2, <1>4, <1>5, <2>1, <2>2, <2>3 DEF Day
<1>7. row.date \in planned
  BY <1>1, <1>6 DEF Pending
<1>8. \A p \in planned : p <= row.date
  BY <1>2, <1>4, <1>5 DEF Structure, Calendar
<1> QED
  BY <1>2, <1>4, <1>5, <1>6, <1>7, <1>8

LEMMA ReplayType ==
  ASSUME Typed
  PROVE  \A d \in 0 .. LastDay, s \in Symbol : Replay[d][s] \in Int
  BY RebuiltType DEF Replay, Typed, RecordsTyped, PlansTyped, Reorganised, Logged

LEMMA ReplayByDay ==
  /\ \A s \in Symbol : Replay[0][s] = 0
  /\ \A d \in Day, s \in Symbol : Replay[d][s] = SumFunctionOnSet(Counted(d), EndsAt(d, s))
  BY RebuiltByDay DEF Replay, Counted, EndsAt, EndName

LEMMA ReplayByDayNext ==
  \A d \in Day, s \in Symbol : Replay'[d][s] = SumFunctionOnSet(Counted(d)', EndsAt(d, s)')
  BY RebuiltByDay DEF Replay, Counted, EndsAt, EndName

LEMMA ReplaySame ==
  ASSUME NEW last \in 0 .. LastDay,
         \A d \in 1 .. last, n \in Symbol :
           /\ renames'[d][n] = renames[d][n]
           /\ splits'[d][n] = splits[d][n]
           /\ logs'[d][n].acquired = logs[d][n].acquired
           /\ logs'[d][n].disposed = logs[d][n].disposed
           /\ logs'[d][n].transferred = logs[d][n].transferred
  PROVE  \A d \in 0 .. last, s \in Symbol : Replay'[d][s] = Replay[d][s]
<1>1. \A d \in 1 .. last, n \in Symbol :
        Alike(splits', logs', renames', splits, logs, renames, d, n)
  BY DEF Alike, Carried
<1>3. \A d \in 0 .. last, s \in Symbol :
        Rebuilt(splits', logs', renames')[d][s] = Rebuilt(splits, logs, renames)[d][s]
  BY <1>1, RebuiltSame
<1> QED
  BY <1>3 DEF Replay

\* From a day on which nothing later is planned the count stays.
LEMMA ReplayQuiet ==
  ASSUME Structure, NEW from \in 0 .. LastDay, \A p \in planned : p <= from
  PROVE  \A d \in from .. LastDay, s \in Symbol : Replay[d][s] = Replay[from][s]
<1>1. \A d \in Day, s \in Symbol : d > from => Blank(d, s)
  <2> SUFFICES ASSUME NEW d \in Day, NEW s \in Symbol, d > from
               PROVE  Blank(d, s)
    OBVIOUS
  <2>1. d \notin planned
    BY HistoryAssumption DEF Day
  <2> QED
    BY <2>1 DEF Structure, DaysAheadBlank, DaysBlank
<1>2. splits \in Reorganised /\ logs \in Logged
  BY DEF Structure, Typed, RecordsTyped, PlansTyped, Reorganised, Logged
<1>3. \A d \in Day, s \in Symbol : d > from =>
        ~splits[d][s].planned /\ Quiet(logs[d][s]) /\ renames[d][s] = s
  BY <1>1 DEF Blank
<1> QED
  BY <1>2, <1>3, RebuiltQuiet DEF Replay

LEMMA CountedType ==
  ASSUME Typed, NEW d \in Day
  PROVE  \A n \in Symbol : Counted(d)[n] \in Int
<1>1. d - 1 \in 0 .. LastDay
  BY HistoryAssumption DEF Day
<1>2. \A n \in Symbol :
        splits[d][n] \in Planned /\ logs[d][n] \in Log /\ Replay[d - 1][n] \in Int
  BY <1>1, ReplayType DEF Typed, RecordsTyped, PlansTyped
<1> QED
  BY <1>2, CarriedType DEF Counted

LEMMA SumShift ==
  ASSUME NEW S, IsFiniteSet(S), NEW f, NEW g, NEW x, NEW k \in Int,
         \A y \in S : f[y] \in Int /\ g[y] = f[y] + (IF y = x THEN k ELSE 0)
  PROVE  SumFunctionOnSet(g, S) = SumFunctionOnSet(f, S) + (IF x \in S THEN k ELSE 0)
<1>1. CASE x \in S
  <2>1. \A y \in S \ {x} : g[y] = f[y]
    OBVIOUS
  <2>2. g[x] \in Int /\ g[x] - f[x] = k
    BY <1>1
  <2>3. SumFunctionOnSet(g, S) = SumFunctionOnSet(f, S) + (g[x] - f[x])
    BY <1>1, <2>1, <2>2, SumChange
  <2> QED
    BY <1>1, <2>2, <2>3
<1>2. CASE x \notin S
  <2>1. \A y \in S : g[y] = f[y]
    BY <1>2
  <2>2. SumFunctionOnSet(g, S) = SumFunctionOnSet(f, S) /\ SumFunctionOnSet(f, S) \in Int
    BY <2>1, SumSame, SumType
  <2> QED
    BY <1>2, <2>2
<1> QED
  BY <1>1, <1>2


LEMMA HeldAllIs == \A n \in Symbol : HeldAll[n] = Held(n)
  BY DEF HeldAll

LEMMA EndsFinite == \A d, s : IsFiniteSet(EndsAt(d, s)) /\ EndsAt(d, s) \subseteq Symbol
  BY SymbolsFinite DEF EndsAt

LEMMA InitAgrees == Init => Agreement
<1> SUFFICES ASSUME Init
             PROVE  Agreement
  OBVIOUS
<1>1. Structure
  BY InitStructure
<1>2. Pending = {} /\ planned = {}
  BY DEF Init, Pending
<1>3. 0 \in 0 .. LastDay
  BY HistoryAssumption
<1>4. \A d \in 0 .. LastDay, s \in Symbol : Replay[d][s] = Replay[0][s]
  BY <1>1, <1>2, <1>3, ReplayQuiet
<1>5. \A s \in Symbol : Held(s) = 0
  BY DEF Init, Held
<1>6. Settled
  BY <1>4, <1>5, ReplayByDay DEF Settled
<1> QED
  BY <1>1, <1>2, <1>6 DEF Agreement, AtOpening, InDay

LEMMA AgreementRefused == ASSUME Agreement, NEW reason, Refuse(reason) PROVE Agreement'
  BY StructureRefused DEF Agreement, Refuse

\* A step that moves no units, whatever else it does.
LEMMA HeldStays ==
  ASSUME Agreement, Structure', UNCHANGED <<rows, planned, splits, renames>>,
         phase # "refused",
         \A n \in Symbol : Held(n)' = Held(n),
         \A d \in Day, n \in Symbol :
           /\ logs'[d][n].acquired = logs[d][n].acquired
           /\ logs'[d][n].disposed = logs[d][n].disposed
           /\ logs'[d][n].transferred = logs[d][n].transferred,
         Pending' \subseteq Pending, Pending' = {} => Pending = {},
         Pending' # {} => row'.date = row.date,
         phase' = "plan" => phase = "plan"
  PROVE  Agreement'
<1>1. \A d \in 0 .. LastDay, s \in Symbol : Replay'[d][s] = Replay[d][s]
  <2>1. LastDay \in 0 .. LastDay /\ Day = 1 .. LastDay
    BY HistoryAssumption DEF Day
  <2> QED
    BY <2>1, ReplaySame
<1>2. Settled'
  BY <1>1 DEF Agreement, Settled
<1>3. ASSUME Pending' # {}
      PROVE  /\ row.date \in Day /\ row'.date = row.date /\ Pending # {}
             /\ Typed
             /\ \A n \in Symbol : Counted(row.date)'[n] = Counted(row.date)[n]
             /\ \A s : EndsAt(row.date, s)' = EndsAt(row.date, s)
  <2>1. row.date \in Day /\ row'.date = row.date /\ Pending # {} /\ Typed
    BY <1>3, PendingToday DEF Agreement, Structure
  <2>2. row.date - 1 \in 0 .. LastDay
    BY <2>1, HistoryAssumption DEF Day
  <2>3. \A n \in Symbol : Counted(row.date)'[n] = Counted(row.date)[n]
    BY <1>1, <2>1, <2>2 DEF Counted, Carried
  <2>4. \A s : EndsAt(row.date, s)' = EndsAt(row.date, s)
    BY <2>1 DEF EndsAt, EndName
  <2> QED
    BY <2>1, <2>3, <2>4
<1>4. AtOpening'
  <2> SUFFICES ASSUME Pending' # {}, phase' = "plan"
               PROVE  \A n \in Symbol : Held(n)' = Counted(row.date)'[n]
    BY <1>3 DEF AtOpening
  <2> QED
    BY <1>3 DEF Agreement, AtOpening
<1>5. InDay'
  <2> SUFFICES ASSUME Pending' # {}, NEW s \in Symbol
               PROVE  SumFunctionOnSet(HeldAll', EndsAt(row.date, s)) = Replay'[row.date][s]
    BY <1>3 DEF InDay
  <2>1. SumFunctionOnSet(HeldAll', EndsAt(row.date, s))
          = SumFunctionOnSet(HeldAll, EndsAt(row.date, s))
    <3>1. \A n \in EndsAt(row.date, s) : HeldAll'[n] = HeldAll[n]
      BY DEF HeldAll, EndsAt
    <3> QED
      BY <3>1, EndsFinite, SumSame
  <2>2. SumFunctionOnSet(HeldAll, EndsAt(row.date, s)) = Replay[row.date][s]
    <3>1. CASE phase = "plan"
      <4>1. \A n \in EndsAt(row.date, s) : HeldAll[n] = Counted(row.date)[n]
        BY <1>3, <3>1 DEF Agreement, AtOpening, HeldAll, EndsAt
      <4>2. SumFunctionOnSet(HeldAll, EndsAt(row.date, s))
              = SumFunctionOnSet(Counted(row.date), EndsAt(row.date, s))
        BY <4>1, EndsFinite, SumSame
      <4> QED
        BY <1>3, <4>2, ReplayByDay
    <3>2. CASE phase # "plan"
      BY <1>3, <3>2 DEF Agreement, InDay
    <3> QED
      BY <3>1, <3>2
  <2>3. row.date \in 0 .. LastDay
    BY <1>3, HistoryAssumption DEF Day
  <2> QED
    BY <1>1, <2>1, <2>2, <2>3
<1> QED
  BY <1>2, <1>4, <1>5 DEF Agreement


LEMMA EndsAgree ==
  ASSUME Agreement, Structure', NoteSource \/ Finish
  PROVE  Agreement'
<1>1. /\ UNCHANGED <<rows, next, planned, portfolio, logs, splits, renames>>
      /\ phase \in {"open", "plan"} /\ phase' \in {"row", "ingested"}
  BY DEF NoteSource, Finish
<1>2. Pending' = Pending /\ row' = row /\ \A n \in Symbol : Held(n)' = Held(n)
  BY <1>1 DEF Pending, row, Held
<1> QED
  BY <1>1, <1>2, HeldStays

\* Passing a row leaves the rows of its day after it.
LEMMA PendingPassed ==
  ASSUME Structure, Structure', PassesRow
  PROVE  /\ Pending' = Pending \ {next}
         /\ Pending' # {} => row'.date = row.date
<1>1. /\ next \in DOMAIN rows /\ next \in Int /\ row = rows[next] /\ row.date \in planned
      /\ \A i \in DOMAIN rows : i \in Int /\ rows[i].date \in Day
      /\ rows \in Ledgers /\ DOMAIN rows = 1 .. Len(rows) /\ Len(rows) \in Nat
  BY RowRead, RowType, RowPlace DEF Structure, Calendar, Typed, PlaceTyped, PassesRow
<1>2. Pending' = Pending \ {next}
  BY <1>1 DEF Pending, PassesRow
<1>3. ASSUME NEW i \in Pending'
      PROVE  row'.date = row.date
  <2>1. i \in Pending /\ i \in DOMAIN rows /\ i >= next + 1
    <3>1. rows' = rows /\ next' = next + 1
      BY DEF PassesRow
    <3>2. i \in DOMAIN rows /\ i >= next + 1
      BY <1>3, <3>1 DEF Pending
    <3> QED
      BY <1>2, <1>3, <3>2
  <2>2. rows[i].date = row.date
    BY <2>1, PendingToday
  <2>3. next + 1 \in DOMAIN rows
    BY <1>1, <2>1
  <2>4. row' = rows[next + 1]
    BY DEF row, PassesRow
  <2>5. row.date <= rows[next + 1].date /\ rows[next + 1].date <= rows[i].date
    BY <1>1, <2>1, <2>3, RowsInOrder DEF Structure
  <2> QED
    BY <1>1, <2>1, <2>2, <2>3, <2>4, <2>5 DEF Day
<1> QED
  BY <1>2, <1>3

LEMMA EriAgrees ==
  ASSUME Agreement, Structure', AddEri
  PROVE  Agreement'
<1>1. Structure /\ phase = "row" /\ row.action = Report
  BY DEF Agreement, AddEri, Reading, Report
<1>2. CASE Refuse("row")
  BY <1>2, AgreementRefused
<1>3. CASE ~Refuse("row")
  <2>1. EriRecorded
    BY <1>1, <1>3, AddEriRecords DEF Structure
  <2>2. UNCHANGED portfolio
    BY <1>3 DEF AddEri
  <2>3. PassesRow
    BY <1>1, <2>1, EriKeepsDays DEF Structure, EriRecorded, SameButForEri, PassesRow, Opened
  <2>4. next \notin Pending
    BY <1>1 DEF Pending, row
  <2>5. Pending' = Pending
    BY <1>1, <2>3, <2>4, PendingPassed
  <2>6. Pending' # {} => row'.date = row.date
    BY <1>1, <2>3, PendingPassed
  <2>7. \A n \in Symbol : Held(n)' = Held(n)
    BY <2>2 DEF Held
  <2>8. phase' = "open" /\ UNCHANGED <<rows, planned, splits, renames>>
    BY <2>3 DEF PassesRow
  <2> QED
    BY <1>1, <2>3, <2>5, <2>6, <2>7, <2>8, HeldStays DEF PassesRow
<1> QED
  BY <1>2, <1>3

\* The day's last row gathers what is left under retired names.
LEMMA GatheredHolds ==
  ASSUME Typed, NEW d \in Day, row.date = d, portfolio' = Gathered
  PROVE  \A s \in Symbol : Held(s)' = SumFunctionOnSet(HeldAll, EndsAt(d, s))
<1> SUFFICES ASSUME NEW s \in Symbol
             PROVE  Held(s)' = SumFunctionOnSet(HeldAll, EndsAt(d, s))
  OBVIOUS
<1> DEFINE here == {m \in DOMAIN portfolio : EndName(d, m) = s}
           total == SumFunctionOnSet(HeldAll, EndsAt(d, s))
           names == {EndName(d, m) : m \in DOMAIN portfolio}
           Kept(n) == MapThenSumSet(LAMBDA m : Held(m), {m \in DOMAIN portfolio : EndName(d, m) = n})
<1>1. DOMAIN portfolio \subseteq Symbol
  BY DEF Typed, HoldingsTyped
<1>2. here \subseteq EndsAt(d, s) /\ IsFiniteSet(here)
  BY <1>1, SymbolsFinite DEF EndsAt
<1>3. \A m \in EndsAt(d, s) : HeldAll[m] \in Int
  BY HeldType DEF HeldAll, EndsAt
<1>4. \A m \in EndsAt(d, s) \ here : HeldAll[m] = 0
  BY DEF HeldAll, EndsAt, Held
<1>5. total = SumFunctionOnSet(HeldAll, here)
  BY <1>2, <1>3, <1>4, EndsFinite, SumOfSupport
<1>6. portfolio' = [n \in names |-> Kept(n)]
  BY DEF Gathered
<1>7. CASE s \in names
  <2>1. Held(s)' = Kept(s)
    BY <1>6, <1>7 DEF Held
  <2>2. Kept(s) = SumFunctionOnSet(HeldBy(here), here)
    BY <1>2, HeldSum
  <2>3. \A m \in here : HeldBy(here)[m] = HeldAll[m]
    BY <1>1 DEF HeldBy, HeldAll
  <2>4. SumFunctionOnSet(HeldBy(here), here) = SumFunctionOnSet(HeldAll, here)
    BY <1>2, <2>3, SumSame
  <2> QED
    BY <1>5, <2>1, <2>2, <2>4
<1>8. CASE s \notin names
  <2>1. here = {}
    BY <1>8
  <2>2. Held(s)' = 0
    BY <1>6, <1>8 DEF Held
  <2>3. SumFunctionOnSet(HeldAll, here) = 0
    BY <2>1, SumOfNone
  <2> QED
    BY <1>5, <2>2, <2>3
<1> QED
  BY <1>7, <1>8

LEMMA PostAgrees ==
  ASSUME Agreement, Structure', PostRow
  PROVE  Agreement'
<1>1. /\ Structure /\ phase = "post" /\ Typed /\ phase \in Opened
      /\ row.action # Report /\ row.date \in planned
  BY DEF Agreement, PostRow, Structure, Calendar, Opened
<1>2. CASE \E reason : Refuse(reason)
  BY <1>2, AgreementRefused
<1>3. CASE ~\E reason : Refuse(reason)
  <2>1. PassesRow
    BY <1>1, <1>3, RowPassed
  <2>2. /\ portfolio' = IF LaterToday = {} THEN Gathered ELSE portfolio
        /\ UNCHANGED <<rows, planned, logs, splits, renames>> /\ phase' = "open"
    BY <1>3 DEF PostRow
  <2>3. next \in DOMAIN rows /\ row = rows[next] /\ next \in Int
        /\ \A i \in DOMAIN rows : i \in Int /\ rows[i].date \in Day
    BY <1>1, RowRead, RowType, RowPlace DEF Typed, PlaceTyped
  <2>4. next \in Pending
    BY <1>1, <2>3 DEF Pending
  <2>5. row.date \in Day /\ \A p \in planned : p <= row.date
    BY <1>1, <2>4, PendingToday
  <2>6. \A i \in Pending : rows[i].date = row.date
    BY <1>1, <2>4, PendingToday
  <2>7. Pending \ {next} = LaterToday
    <3>1. ASSUME NEW i \in Pending, i # next
          PROVE  i \in LaterToday
      BY <2>3, <2>6, <3>1 DEF Pending, LaterToday, RowsOn, Report
    <3>2. ASSUME NEW i \in LaterToday
          PROVE  i \in Pending /\ i # next
      BY <1>1, <2>3 DEF Pending, LaterToday, RowsOn, Report
    <3> QED
      BY <3>1, <3>2
  <2>8. Pending' = LaterToday /\ (Pending' # {} => row'.date = row.date)
    BY <1>1, <2>1, <2>7, PendingPassed
  <2>9. CASE LaterToday # {}
    <3>1. \A n \in Symbol : Held(n)' = Held(n)
      BY <2>2, <2>9 DEF Held
    <3> QED
      BY <1>1, <2>1, <2>2, <2>7, <2>8, <2>9, <3>1, HeldStays
  <2>10. CASE LaterToday = {}
    <3>1. \A s \in Symbol : Held(s)' = SumFunctionOnSet(HeldAll, EndsAt(row.date, s))
      BY <1>1, <2>2, <2>5, <2>10, GatheredHolds
    <3>2. \A s \in Symbol : Held(s)' = Replay[row.date][s]
      BY <1>1, <2>4, <3>1 DEF Agreement, InDay
    <3>3. row.date \in 0 .. LastDay /\ LastDay \in 0 .. LastDay /\ Day = 1 .. LastDay
      BY <2>5, HistoryAssumption DEF Day
    <3>4. \A d \in row.date .. LastDay, s \in Symbol : Replay[d][s] = Replay[row.date][s]
      BY <1>1, <2>5, <3>3, ReplayQuiet
    <3>5. \A d \in 0 .. LastDay, s \in Symbol : Replay'[d][s] = Replay[d][s]
      BY <2>2, <3>3, ReplaySame
    <3>6. Settled'
      <4> SUFFICES ASSUME NEW d \in 0 .. LastDay, \A p \in planned : p <= d, NEW s \in Symbol
                   PROVE  Held(s)' = Replay'[d][s]
        BY <2>2 DEF Settled
      <4>1. d \in row.date .. LastDay
        BY <1>1, <3>3
      <4> QED
        BY <3>2, <3>4, <3>5, <4>1
    <3>7. AtOpening' /\ InDay'
      BY <2>8, <2>10 DEF AtOpening, InDay
    <3> QED
      BY <3>6, <3>7 DEF Agreement
  <2> QED
    BY <2>9, <2>10
<1> QED
  BY <1>2, <1>3


\* A row that moves units is one of the pending, and leaves it so.
LEMMA PendingHandled ==
  ASSUME Structure, phase = "row", Handled, row.action # Report
  PROVE  /\ next \in Pending /\ Pending' = Pending /\ row' = row
         /\ row.date \in Day /\ row.symbol \in Symbol /\ row.renamed \in Symbol
         /\ next \in DOMAIN rows
<1>1. phase \in Opened /\ row.date \in planned /\ Typed
  BY DEF Structure, Calendar, Opened
<1>2. /\ next \in DOMAIN rows /\ next \in Int /\ row = rows[next] /\ row.date \in Day
      /\ row.symbol \in Symbol /\ row.renamed \in Symbol
  BY <1>1, RowRead, RowPlace DEF Typed, PlaceTyped
<1>3. next \in Pending
  BY <1>1, <1>2 DEF Pending
<1>4. Pending' = Pending /\ row' = row
  BY DEF Handled, Pending, row
<1> QED
  BY <1>2, <1>3, <1>4

LEMMA MovingAgrees ==
  ASSUME Agreement, Structure', MovesUnits
  PROVE  Agreement'
<1> DEFINE d == row.date
           k == Moving
<1>1. /\ Structure /\ Typed /\ phase = "row" /\ Handled /\ row.action # Report
      /\ phase' = "post" /\ phase \in Opened
  BY DEF Agreement, MovesUnits, Structure, Handled, row, Report, Opened
<1>2. /\ next \in Pending /\ Pending' = Pending /\ row' = row
      /\ d \in Day /\ row.symbol \in Symbol
  BY <1>1, PendingHandled
<1>3. k \in Int
  BY <1>1, RowRead, SignType DEF Moving
<1>4. /\ UNCHANGED <<renames, splits>>
      /\ \A n \in Symbol : Held(n)' = Held(n) + (IF n = row.symbol THEN k ELSE 0)
      /\ \A e \in Day, n \in Symbol :
           /\ Net(logs'[e][n]) = Net(logs[e][n]) + (IF e = d /\ n = row.symbol THEN k ELSE 0)
           /\ e # d => logs'[e][n] = logs[e][n]
  BY DEF MovesUnits, Handled
<1> HIDE DEF k, d
<1>5. d \in 1 .. LastDay /\ d - 1 \in 0 .. LastDay /\ Day = 1 .. LastDay /\ LastDay \in Nat
  BY <1>2, HistoryAssumption DEF Day
<1>6. \A e \in 0 .. d - 1, n \in Symbol : Replay'[e][n] = Replay[e][n]
  <2>1. \A e \in 1 .. d - 1 : e \in Day /\ e # d
    BY <1>5
  <2> QED
    BY <1>4, <1>5, <2>1, ReplaySame
<1>7. \A n \in Symbol : Replay'[d - 1][n] = Replay[d - 1][n] /\ Replay[d - 1][n] \in Int
  BY <1>1, <1>5, <1>6, ReplayType
<1>8. ASSUME NEW n \in Symbol
      PROVE  Counted(d)'[n] = Counted(d)[n] + (IF n = row.symbol THEN k ELSE 0)
  <2>1. Counted(d)'[n] = Carried(splits'[d][n], logs'[d][n], Replay'[d - 1][n])
    BY <1>1, <1>2 DEF Counted, d
  <2>2. Counted(d)[n] = Carried(splits[d][n], logs[d][n], Replay[d - 1][n])
    BY DEF Counted
  <2>3. /\ splits[d][n] \in Planned /\ logs[d][n] \in Log /\ logs'[d][n] \in Log
        /\ splits'[d][n] = splits[d][n]
    BY <1>1, <1>2, <1>4 DEF Structure, Typed, RecordsTyped, PlansTyped, d
  <2>4. Net(logs'[d][n]) = Net(logs[d][n]) + (IF n = row.symbol THEN k ELSE 0)
    BY <1>2, <1>4 DEF d
  <2> QED
    BY <1>3, <1>7, <2>1, <2>2, <2>3, <2>4 DEF Carried, Net, Log, Planned
<1>9. ASSUME NEW s \in Symbol
      PROVE  SumFunctionOnSet(HeldAll', EndsAt(d, s)) = Replay'[d][s]
  <2> DEFINE S == EndsAt(d, s)
  <2>1. IsFiniteSet(S) /\ \A n \in S : n \in Symbol
    BY EndsFinite
  <2>2. \A n \in S : HeldAll[n] \in Int
                     /\ HeldAll'[n] = HeldAll[n] + (IF n = row.symbol THEN k ELSE 0)
    BY <1>1, <1>4, <2>1, HeldType DEF HeldAll
  <2>3. \A n \in S : Counted(d)[n] \in Int
                     /\ Counted(d)'[n] = Counted(d)[n] + (IF n = row.symbol THEN k ELSE 0)
    BY <1>1, <1>2, <1>8, <2>1, CountedType DEF d
  <2> DEFINE held == HeldAll
             held2 == HeldAll'
             counts == Counted(d)
             counts2 == Counted(d)'
             moving == row.symbol
  <2> HIDE DEF S, held, held2, counts, counts2, moving
  <2>4. SumFunctionOnSet(held2, S) = SumFunctionOnSet(held, S) + (IF moving \in S THEN k ELSE 0)
    <3>1. \A n \in S : held[n] \in Int /\ held2[n] = held[n] + (IF n = moving THEN k ELSE 0)
      BY <2>2 DEF held, held2, moving
    <3>2. IsFiniteSet(S) /\ k \in Int
      BY <1>3, <2>1
    <3> QED
      BY <3>1, <3>2, SumShift
  <2>5. SumFunctionOnSet(counts2, S) = SumFunctionOnSet(counts, S) + (IF moving \in S THEN k ELSE 0)
    <3>1. \A n \in S : counts[n] \in Int /\ counts2[n] = counts[n] + (IF n = moving THEN k ELSE 0)
      BY <2>3 DEF counts, counts2, moving
    <3>2. IsFiniteSet(S) /\ k \in Int
      BY <1>3, <2>1
    <3> QED
      BY <3>1, <3>2, SumShift
  <2>6. Replay[d][s] = SumFunctionOnSet(Counted(d), S)
    BY <1>2, ReplayByDay DEF S, d
  <2>7. Replay'[d][s] = SumFunctionOnSet(Counted(d)', S)
    <3>2. d \in Day /\ row' = row
      BY <1>2 DEF d
    <3>3. EndsAt(d, s)' = S
      BY <1>4, <3>2 DEF S, EndsAt, EndName, d
    <3> QED
      BY <3>2, <3>3, ReplayByDayNext DEF d
  <2>8. SumFunctionOnSet(HeldAll, S) = Replay[d][s]
    BY <1>1, <1>2 DEF Agreement, InDay, S, d
  <2> QED
    BY <2>4, <2>5, <2>6, <2>7, <2>8 DEF S, held, held2, counts, counts2
<1>10. Settled' /\ AtOpening'
  BY <1>1, <1>2 DEF Settled, AtOpening
<1>11. InDay'
  <2>1. \A s : EndsAt(d, s)' = EndsAt(d, s)
    BY <1>2, <1>4 DEF EndsAt, EndName, d
  <2> QED
    BY <1>2, <1>9, <2>1 DEF InDay, d
<1> QED
  BY <1>10, <1>11 DEF Agreement


LEMMA RenamingKeepsSums ==
  ASSUME Structure, RenamesUnits, NEW d \in Day, d = row.date
  PROVE  /\ renames[d][row.renamed] = row.symbol /\ renames[d][row.symbol] = row.symbol
         /\ \A s \in Symbol :
              SumFunctionOnSet(HeldAll', EndsAt(d, s)) = SumFunctionOnSet(HeldAll, EndsAt(d, s))
<1> DEFINE from == row.renamed
           to == row.symbol
           k == Held(from)
<1>1. /\ Structure /\ Typed /\ phase = "row" /\ Handled /\ row.action # Report
      /\ row.action = "RENAME" /\ phase' = "post" /\ UNCHANGED <<logs, splits, renames>>
  BY DEF RenamesUnits, Structure, Handled, row, Report
<1>2. /\ next \in Pending /\ Pending' = Pending /\ row' = row
      /\ d \in Day /\ to \in Symbol /\ from \in Symbol /\ next \in DOMAIN rows
  BY <1>1, PendingHandled
<1>3. d \in planned
  BY <1>1, <1>2, PendingToday
<1>4. renames[d][from] = to /\ from # to /\ renames[d][to] = to
  <2>1. renames[d][from] = to /\ from # to
    BY <1>1, <1>2, <1>3 DEF Structure, RenamesRead, row
  <2> QED
    BY <1>1, <1>2, <2>1 DEF Structure, EndsMerged
<1>5. \A n \in Symbol : HeldAll[n] \in Int /\ k \in Int
  BY <1>1, HeldType DEF HeldAll
<1>6. \A n \in Symbol : HeldAll'[n] =
        IF n = to THEN HeldAll[n] + k ELSE IF n = from THEN 0 ELSE HeldAll[n]
  BY DEF HeldAll, RenamesUnits
<1>7. k = HeldAll[from]
  BY <1>2 DEF HeldAll
<1> HIDE DEF from, to, k
<1>8. ASSUME NEW s \in Symbol
      PROVE  SumFunctionOnSet(HeldAll', EndsAt(d, s)) = SumFunctionOnSet(HeldAll, EndsAt(d, s))
  <2> DEFINE S == EndsAt(d, s)
             one == HeldAll
             two == [n \in Symbol |-> HeldAll[n] + (IF n = to THEN k ELSE 0)]
             three == HeldAll'
             less == -k
  <2>1. IsFiniteSet(S) /\ (\A n \in S : n \in Symbol) /\ (from \in S <=> to \in S)
    BY <1>2, <1>4, EndsFinite DEF EndsAt, EndName
  <2>2. \A n \in S : one[n] \in Int /\ two[n] = one[n] + (IF n = to THEN k ELSE 0)
    BY <1>5, <2>1
  <2>3. \A n \in S : two[n] \in Int /\ three[n] = two[n] + (IF n = from THEN less ELSE 0)
    BY <1>4, <1>5, <1>6, <1>7, <2>1
  <2>4. k \in Int /\ less \in Int
    BY <1>2, <1>5
  <2> HIDE DEF S, one, two, three, less
  <2>5. SumFunctionOnSet(two, S) = SumFunctionOnSet(one, S) + (IF to \in S THEN k ELSE 0)
    <3>1. IsFiniteSet(S) /\ k \in Int
      BY <2>1, <2>4
    <3> QED
      BY <2>2, <3>1, SumShift
  <2>6. SumFunctionOnSet(three, S) = SumFunctionOnSet(two, S) + (IF from \in S THEN less ELSE 0)
    <3>1. IsFiniteSet(S) /\ less \in Int
      BY <2>1, <2>4
    <3> QED
      BY <2>3, <3>1, SumShift
  <2>7. SumFunctionOnSet(one, S) \in Int
    BY <2>1, <2>2, SumType
  <2>8. SumFunctionOnSet(three, S) = SumFunctionOnSet(one, S)
    BY <2>1, <2>4, <2>5, <2>6, <2>7 DEF less
  <2> QED
    BY <2>8 DEF S, one, three
<1> QED
  BY <1>4, <1>8 DEF from, to

LEMMA RenamingAgrees ==
  ASSUME Agreement, Structure', RenamesUnits
  PROVE  Agreement'
<1> DEFINE d == row.date
<1>1. /\ Structure /\ phase = "row" /\ Handled /\ row.action # Report
      /\ phase' = "post" /\ UNCHANGED <<logs, splits, renames>>
  BY DEF Agreement, RenamesUnits, Handled, row, Report
<1>2. next \in Pending /\ Pending' = Pending /\ row' = row /\ d \in Day
  BY <1>1, PendingHandled
<1>8. \A s \in Symbol :
        SumFunctionOnSet(HeldAll', EndsAt(d, s)) = SumFunctionOnSet(HeldAll, EndsAt(d, s))
  BY <1>1, <1>2, RenamingKeepsSums
<1> HIDE DEF d
<1>9. \A e \in 0 .. LastDay, s \in Symbol : Replay'[e][s] = Replay[e][s]
  <2>1. LastDay \in 0 .. LastDay /\ Day = 1 .. LastDay
    BY HistoryAssumption DEF Day
  <2> QED
    BY <1>1, <2>1, ReplaySame
<1>10. Settled' /\ AtOpening'
  BY <1>1, <1>2 DEF Settled, AtOpening
<1>11. InDay'
  <2>1. \A s : EndsAt(d, s)' = EndsAt(d, s)
    BY <1>1, <1>2 DEF EndsAt, EndName, d
  <2>2. \A s \in Symbol : SumFunctionOnSet(HeldAll, EndsAt(d, s)) = Replay[d][s]
    BY <1>1, <1>2 DEF Agreement, InDay, d
  <2>3. d \in 0 .. LastDay
    BY <1>2, HistoryAssumption DEF Day
  <2>4. ASSUME NEW s \in Symbol
        PROVE  SumFunctionOnSet(HeldAll', EndsAt(d, s)') = Replay'[d][s]
    BY <1>8, <1>9, <2>1, <2>2, <2>3
  <2> QED
    BY <1>2, <2>4 DEF InDay, d
<1> QED
  BY <1>10, <1>11 DEF Agreement

\* A reorganisation opens the holding with what the walk will open it with.
LEMMA PlanningAgrees ==
  ASSUME Agreement, Structure', PlanStockSplit
  PROVE  Agreement'
<1>1. Structure /\ Typed /\ phase = "plan"
  BY DEF Agreement, Structure, PlanStockSplit
<1>2. CASE phase' = "refused"
  BY <1>1, <1>2, AgreementRefused DEF PlanStockSplit, Refuse
<1>3. CASE phase' # "refused"
  <2> DEFINE i == PlannedRow
             s == PlannedSymbol
             d == row.date
  <2>1. /\ s \in Symbol /\ i \in DOMAIN rows /\ rows[i].date = d
        /\ rows[i].symbol = s /\ rows[i].action = "STOCK_SPLIT"
    BY <1>1, <1>3, PlannedRowIs
  <2>2. d \in planned /\ d \in Day
    BY <1>1, RowRead DEF Structure, Calendar, Opened
  <2>3. /\ splits' = [splits EXCEPT ![d][s] = Transformation(i)]
        /\ portfolio' = WithHolding(s, OpensAt(i))
        /\ UNCHANGED <<rows, next, phase, planned, logs, renames>>
    BY <1>3 DEF PlanStockSplit, Refuse, PlannedSymbol, PlannedRow
  <2>4. i \in Pending
    BY <1>1, <2>1, <2>2 DEF Pending, Structure, Calendar, RowsOn, Report
  <2>5. Pending' = Pending /\ row' = row
    BY <2>3 DEF Pending, row
  <2>6. \A e \in Day, n \in Symbol : splits'[e][n] =
          IF e = d /\ n = s THEN Transformation(i) ELSE splits[e][n]
    BY <2>1, <2>2, <2>3 DEF Structure, Typed, PlansTyped
  <2>7. \A n \in Symbol : Held(n)' = IF n = s THEN OpensAt(i) ELSE Held(n)
    BY <2>3, HeldWith
  <2>8. d \in 1 .. LastDay /\ d - 1 \in 0 .. LastDay /\ Day = 1 .. LastDay /\ LastDay \in Nat
    BY <2>2, HistoryAssumption DEF Day
  <2>9. \A n \in Symbol : Replay'[d - 1][n] = Replay[d - 1][n]
    <3>1. \A e \in 1 .. d - 1 : e \in Day /\ e # d
      BY <2>8
    <3>2. d - 1 \in 0 .. d - 1
      BY <2>8
    <3> QED
      BY <2>3, <2>6, <2>8, <3>1, <3>2, ReplaySame
  <2>10. ASSUME NEW n \in Symbol
         PROVE  Held(n)' = Counted(d)'[n]
    <3>1. Counted(d)'[n] = Carried(splits'[d][n], logs[d][n], Replay[d - 1][n])
      BY <2>3, <2>5, <2>9 DEF Counted
    <3>2. Quiet(logs[d][n])
      BY <1>1 DEF Structure, DaysAheadBlank, NothingRead
    <3>3. CASE n = s
      <4>1. Transformation(i) \in Planned
        <5>1. splits'[d][s] = Transformation(i)
          BY <2>1, <2>2, <2>6
        <5> QED
          BY <2>1, <2>2, <5>1 DEF Structure, Typed, PlansTyped
      <4>2. splits'[d][n] = Transformation(i) /\ Transformation(i).planned
        BY <2>1, <2>2, <2>6, <3>3 DEF Transformation
      <4>3. OpensAt(i) = Transformation(i).scaled_open + Transformation(i).delta
        BY DEF OpensAt
      <4>4. Counted(d)'[n] = Transformation(i).scaled_open + Transformation(i).delta
        <5>1. Transformation(i).scaled_open \in Int /\ Transformation(i).delta \in Int
          BY <4>1 DEF Planned
        <5> QED
          BY <3>1, <3>2, <4>2, <5>1 DEF Carried, Quiet
      <4> QED
        BY <2>7, <3>3, <4>3, <4>4
    <3>4. CASE n # s
      <4>1. splits'[d][n] = splits[d][n]
        BY <2>2, <2>6, <3>4
      <4>2. Held(n) = Counted(d)[n]
        BY <1>1, <2>4 DEF Agreement, AtOpening
      <4> QED
        BY <2>7, <3>1, <3>4, <4>1, <4>2 DEF Counted
    <3> QED
      BY <3>3, <3>4
  <2>11. Settled' /\ InDay'
    BY <1>1, <2>3, <2>4, <2>5 DEF Settled, InDay
  <2>12. AtOpening'
    BY <2>5, <2>10 DEF AtOpening
  <2> QED
    BY <2>11, <2>12 DEF Agreement
<1> QED
  BY <1>2, <1>3

LEMMA OpeningAgrees ==
  ASSUME Agreement, Structure', OpenTransactionDay
  PROVE  Agreement'
<1>1. Structure /\ Typed
  BY DEF Agreement, Structure
<1>2. CASE Refuse("rename")
  BY <1>2, AgreementRefused
<1>3. CASE DayOpens
  <2> DEFINE d == row.date
  <2>1. /\ phase = "open" /\ phase' = "plan" /\ d \in Day /\ d \notin planned
        /\ planned' = planned \cup {d}
        /\ UNCHANGED <<rows, next, portfolio, logs, splits>> /\ row' = row
    BY <1>3 DEF DayOpens, row
  <2>2. /\ next \in DOMAIN rows /\ row = rows[next]
        /\ \A e \in Day, s \in Symbol :
             renames'[e][s] = IF e = d THEN DayNames[s] ELSE renames[e][s]
        /\ \A i \in DOMAIN rows : i < next <=> rows[i].date < d
        /\ \A e \in planned : e < d
    BY <1>1, <1>3, DayOpensPlaces
  <2>3. d \in 1 .. LastDay /\ d - 1 \in 0 .. LastDay /\ Day = 1 .. LastDay /\ LastDay \in Nat
    BY <2>1, HistoryAssumption DEF Day
  <2>4. /\ planned \subseteq Day /\ next \in Int
        /\ \A i \in DOMAIN rows : rows[i].date \in Day /\ i \in Int
    BY <1>1, RowType, RowPlace DEF Typed, PlaceTyped
  <2>5. Pending = {}
    BY <2>2, <2>3, <2>4 DEF Pending
  <2>6. \A e \in planned : e <= d - 1
    BY <2>2, <2>3, <2>4
  <2>7. \A e \in 0 .. LastDay : (\A p \in planned : p <= e) =>
          \A s \in Symbol : Held(s) = Replay[e][s]
    BY <2>1, <2>5 DEF Agreement, Settled
  <2>8. \A s \in Symbol : Held(s)' = Held(s)
    BY <2>1 DEF Held
  <2>9. ASSUME Pending' = {}
        PROVE  Settled'
    <3>1. \A i \in RowsOn(d) : i >= next /\ i \in DOMAIN rows /\ rows[i].date = d
      BY <2>2, <2>3, <2>4 DEF RowsOn
    <3>2. \A i \in RowsOn(d) : rows[i].action = Report
      BY <2>1, <2>9, <3>1 DEF Pending
    <3>3. \A s \in Symbol : DayNames[s] = s
      BY <1>3, <3>2 DEF DayOpens, Report
    <3>4. \A e \in Day, s \in Symbol : renames'[e][s] = renames[e][s]
      BY <1>1, <2>1, <2>2, <3>3 DEF Structure, DaysAheadBlank, DaysBlank, Blank
    <3>5. LastDay \in 0 .. LastDay
      BY <2>3
    <3>6. \A e \in 0 .. LastDay, s \in Symbol : Replay'[e][s] = Replay[e][s]
      BY <2>1, <2>3, <3>4, <3>5, ReplaySame
    <3> QED
      BY <2>1, <2>7, <2>8, <3>6 DEF Settled
  <2>10. AtOpening'
    <3>1. \A n \in Symbol : Replay'[d - 1][n] = Replay[d - 1][n]
      <4>1. \A e \in 1 .. d - 1 : e \in Day /\ e # d
        BY <2>3
      <4>2. d - 1 \in 0 .. d - 1
        BY <2>3
      <4> QED
        BY <2>1, <2>2, <2>3, <4>1, <4>2, ReplaySame
    <3>2. ASSUME NEW n \in Symbol
          PROVE  Held(n)' = Counted(d)'[n]
      <4>1. Counted(d)'[n] = Carried(splits[d][n], logs[d][n], Replay[d - 1][n])
        BY <2>1, <3>1 DEF Counted
      <4>2. ~splits[d][n].planned /\ Quiet(logs[d][n])
        BY <1>1, <2>1 DEF Structure, DaysAheadBlank, DaysBlank, Blank
      <4>3. Held(n) = Replay[d - 1][n] /\ Held(n) \in Int
        BY <1>1, <2>3, <2>6, <2>7, HeldType
      <4> QED
        BY <2>8, <4>1, <4>2, <4>3 DEF Carried, Quiet
    <3> QED
      BY <2>1, <3>2 DEF AtOpening
  <2>11. InDay'
    BY <2>1 DEF InDay
  <2>12. Settled'
    BY <2>9 DEF Settled
  <2> QED
    BY <2>10, <2>11, <2>12 DEF Agreement
<1> QED
  BY <1>1, <1>2, <1>3, OpeningDay

LEMMA StepAgrees == Agreement /\ [Next]_vars => Agreement'
<1> SUFFICES ASSUME Agreement, [Next]_vars
             PROVE  Agreement'
  OBVIOUS
<1>1. Structure /\ Structure' /\ Typed
  BY StepStructure DEF Agreement, Structure
<1>2. CASE UNCHANGED vars
  <2>1. CASE phase = "refused"
    BY <1>1, <1>2, <2>1 DEF vars, Agreement
  <2>2. CASE phase # "refused"
    <3>1. Pending' = Pending /\ row' = row /\ \A n \in Symbol : Held(n)' = Held(n)
      BY <1>2 DEF vars, Pending, row, Held
    <3>2. UNCHANGED <<rows, planned, splits, renames, logs, phase>>
      BY <1>2 DEF vars
    <3> QED
      BY <1>1, <2>2, <3>1, <3>2, HeldStays
  <2> QED
    BY <2>1, <2>2
<1>3. CASE AddAcquisition \/ AddDisposal \/ AddTransferToSpouse \/ AddGift
           \/ AddManagementFee \/ PassOver
  BY <1>1, <1>3, HandlersMove, MovingAgrees, AgreementRefused
<1>4. CASE AddRename
  BY <1>1, <1>4, AddRenameMoves, RenamingAgrees
<1>5. CASE RefuseOther
  BY <1>5, AgreementRefused DEF RefuseOther
<1> QED
  BY <1>1, <1>2, <1>3, <1>4, <1>5, OpeningAgrees, PlanningAgrees, EndsAgree, EriAgrees,
     PostAgrees DEF Next


----------------------------------------------------------------------------
(***************************************************************************)
(* No holding goes short.  Within a day a holding may be taken below zero  *)
(* for a while, by rows that come before those that put the units there.   *)
(* What the rows still to be read will leave of it may not be: a           *)
(* reorganised holding closes on the count its plan accepted, a renamed    *)
(* one keeps what its capacity still allows to be sold, and any other is   *)
(* never below zero.                                                       *)
(***************************************************************************)
Moves == [i \in DOMAIN rows |-> Sign(i) * pool_quantity[i]]
Adds == [i \in DOMAIN rows |-> IF Sign(i) > 0 THEN pool_quantity[i] ELSE 0]
DisposedOn(d) == [n \in Symbol |-> logs[d][n].disposed]

Unread == IF phase = "post" THEN Pending \ {next} ELSE Pending
Toward(d, s) == {i \in Unread : rows[i].symbol \in Class(d, s)}
HeldTogether(d, s) == SumFunctionOnSet(HeldAll, Class(d, s))
Left(d, s) == components[d][s].capacity - SumFunctionOnSet(DisposedOn(d), Class(d, s))

ReorganisedLeaves(d, s) ==
  splits[d][s].planned => HeldTogether(d, s) + SumFunctionOnSet(Moves, Toward(d, s)) >= 0
RenamedLeaves(d, s) ==
  components[d][s].capacity # 0 =>
    /\ Left(d, s) >= 0
    /\ HeldTogether(d, s) + SumFunctionOnSet(Adds, Toward(d, s)) = Left(d, s)
OtherLeaves(d, s) ==
  components[d][s].capacity = 0 /\ (\A n \in Class(d, s) : ~splits[d][n].planned) => Held(s) >= 0

Covered ==
  phase # "refused" /\ ReorganisedApart =>
    /\ Pending = {} => \A s \in Symbol : Held(s) >= 0
    /\ Pending # {} => \A d \in Day, s \in Symbol : d = row.date =>
         ReorganisedLeaves(d, s) /\ RenamedLeaves(d, s) /\ OtherLeaves(d, s)

LEMMA ApartBefore ==
  ASSUME ReorganisedApart', NEW last \in Day,
         \A d \in Day, s \in Symbol : splits[d][s].planned =>
           /\ d <= last /\ splits'[d][s].planned
           /\ \A n \in Symbol : renames'[d][n] = renames[d][n],
         \A d \in 1 .. last - 1, n \in Symbol :
           /\ renames'[d][n] = renames[d][n]
           /\ splits'[d][n] = splits[d][n]
           /\ logs'[d][n].acquired = logs[d][n].acquired
           /\ logs'[d][n].disposed = logs[d][n].disposed
           /\ logs'[d][n].transferred = logs[d][n].transferred
  PROVE  ReorganisedApart
<1>1. last \in 1 .. LastDay /\ last - 1 \in 0 .. LastDay /\ LastDay \in Nat /\ Day = 1 .. LastDay
  BY HistoryAssumption DEF Day
<1>2. \A d \in 0 .. last - 1, s \in Symbol : Replay'[d][s] = Replay[d][s]
  BY <1>1, ReplaySame
<1> SUFFICES ASSUME NEW d \in Day, NEW s \in Symbol, splits[d][s].planned,
                    NEW n \in NamesOn(d, s) \ {s}
             PROVE  Replay[d - 1][n] = 0 /\ ~splits[d][n].planned
  BY DEF ReorganisedApart
<1>3. NamesOn(d, s)' = NamesOn(d, s) /\ n \in Symbol
  <2>1. {<<m, EndName(d, m)>> : m \in Symbol}' = {<<m, EndName(d, m)>> : m \in Symbol}
    BY DEF EndName
  <2> QED
    BY <2>1 DEF NamesOn, ConnectedNames
<1>4. Replay'[d - 1][n] = 0 /\ ~splits'[d][n].planned
  BY <1>3 DEF ReorganisedApart
<1>5. d - 1 \in 0 .. last - 1
  BY <1>1
<1> QED
  BY <1>2, <1>3, <1>4, <1>5

LEMMA ApartStays ==
  ASSUME ReorganisedApart', UNCHANGED <<splits, renames>>,
         \A d \in Day, n \in Symbol :
           /\ logs'[d][n].acquired = logs[d][n].acquired
           /\ logs'[d][n].disposed = logs[d][n].disposed
           /\ logs'[d][n].transferred = logs[d][n].transferred
  PROVE  ReorganisedApart
<1>1. LastDay \in Day /\ Day = 1 .. LastDay /\ LastDay \in Nat
  BY HistoryAssumption DEF Day
<1>2. \A d \in 1 .. LastDay - 1 : d \in Day
  BY <1>1
<1> QED
  BY <1>1, <1>2, ApartBefore

LEMMA InitCovered == Init => Covered
<1> SUFFICES ASSUME Init
             PROVE  Covered
  OBVIOUS
<1>1. Pending = {} /\ \A s : Held(s) = 0
  BY DEF Init, Pending, Held
<1> QED
  BY <1>1 DEF Covered

\* What a holding is counted by, and how it is counted.
LEMMA FundsType ==
  ASSUME Typed, NEW d \in Day, NEW s \in Symbol
  PROVE  /\ IsFiniteSet(Class(d, s)) /\ Class(d, s) \subseteq Symbol /\ s \in Class(d, s)
         /\ IsFiniteSet(Toward(d, s)) /\ Toward(d, s) \subseteq DOMAIN rows
         /\ \A n \in Symbol : HeldAll[n] = Held(n) /\ HeldAll[n] \in Int
         /\ \A n \in Symbol : DisposedOn(d)[n] = logs[d][n].disposed /\ DisposedOn(d)[n] \in Int
         /\ \A i \in DOMAIN rows : Moves[i] \in Int /\ Adds[i] \in Int /\ Adds[i] >= 0
         /\ HeldTogether(d, s) \in Int /\ Left(d, s) \in Int
         /\ components[d][s].capacity \in Int
         /\ SumFunctionOnSet(DisposedOn(d), Class(d, s)) \in Int
         /\ SumFunctionOnSet(Moves, Toward(d, s)) \in Int
         /\ SumFunctionOnSet(Adds, Toward(d, s)) \in Int
<1>1. IsFiniteSet(Class(d, s)) /\ Class(d, s) \subseteq Symbol /\ s \in Class(d, s)
  BY SymbolsFinite DEF Class
<1>2. IsFiniteSet(Toward(d, s)) /\ Toward(d, s) \subseteq DOMAIN rows
  <2>1. Toward(d, s) \subseteq DOMAIN rows
    BY DEF Toward, Unread, Pending
  <2> QED
    BY <2>1, RowsFinite DEF Typed, PlaceTyped
<1>3. \A n \in Symbol : HeldAll[n] = Held(n) /\ HeldAll[n] \in Int
  BY HeldType DEF HeldAll
<1>4. \A n \in Symbol : DisposedOn(d)[n] = logs[d][n].disposed /\ DisposedOn(d)[n] \in Int
  BY DEF DisposedOn, Typed, RecordsTyped, Log
<1>5. ASSUME NEW i \in DOMAIN rows
      PROVE  Moves[i] \in Int /\ Adds[i] \in Int /\ Adds[i] >= 0
  <2>1. pool_quantity[i] \in Int /\ Sign(i) \in Int /\ (Sign(i) # 0 => pool_quantity[i] >= 0)
    BY SignType DEF Typed, PoolTyped
  <2> QED
    BY <2>1 DEF Moves, Adds
<1>6. HeldTogether(d, s) \in Int
  BY <1>1, <1>3, SumType DEF HeldTogether
<1>7. SumFunctionOnSet(DisposedOn(d), Class(d, s)) \in Int
  BY <1>1, <1>4, SumType
<1>8. components[d][s].capacity \in Int
  BY DEF Typed, PlansTyped
<1>9. Left(d, s) \in Int
  BY <1>7, <1>8 DEF Left
<1>10. /\ SumFunctionOnSet(Moves, Toward(d, s)) \in Int
       /\ SumFunctionOnSet(Adds, Toward(d, s)) \in Int
  BY <1>2, <1>5, SumType
<1> QED
  BY <1>1, <1>2, <1>3, <1>4, <1>5, <1>6, <1>7, <1>8, <1>9, <1>10


\* A step that leaves a name's funds as they were.
LEMMA FundsStay ==
  ASSUME Typed, NEW d \in Day, NEW s \in Symbol,
         \A n \in Class(d, s) : Held(n)' = Held(n),
         \A n \in Class(d, s) : logs'[d][n].disposed = logs[d][n].disposed,
         \A n \in Symbol : renames'[d][n] = renames[d][n],
         \A n \in Class(d, s) : splits'[d][n].planned <=> splits[d][n].planned,
         components'[d][s] = components[d][s], rows' = rows,
         Toward(d, s)' = Toward(d, s),
         \A i \in Toward(d, s) : pool_quantity'[i] = pool_quantity[i]
  PROVE  /\ Class(d, s)' = Class(d, s)
         /\ ReorganisedLeaves(d, s) => ReorganisedLeaves(d, s)'
         /\ RenamedLeaves(d, s) => RenamedLeaves(d, s)'
         /\ OtherLeaves(d, s) => OtherLeaves(d, s)'
<1>1. /\ IsFiniteSet(Class(d, s)) /\ Class(d, s) \subseteq Symbol /\ s \in Class(d, s)
      /\ IsFiniteSet(Toward(d, s)) /\ Toward(d, s) \subseteq DOMAIN rows
  BY FundsType
<1>2. Class(d, s)' = Class(d, s)
  BY DEF Class, EndName
<1>3. HeldTogether(d, s)' = HeldTogether(d, s)
  <2>1. \A n \in Class(d, s) : HeldAll'[n] = HeldAll[n]
    BY <1>1 DEF HeldAll
  <2> QED
    BY <1>1, <1>2, <2>1, SumSame DEF HeldTogether
<1>4. Left(d, s)' = Left(d, s)
  <2>1. \A n \in Class(d, s) : DisposedOn(d)'[n] = DisposedOn(d)[n]
    BY <1>1 DEF DisposedOn
  <2>2. SumFunctionOnSet(DisposedOn(d)', Class(d, s)) = SumFunctionOnSet(DisposedOn(d), Class(d, s))
    BY <1>1, <2>1, SumSame
  <2> QED
    BY <1>2, <2>2 DEF Left
<1>5. SumFunctionOnSet(Moves', Toward(d, s)) = SumFunctionOnSet(Moves, Toward(d, s))
  <2>1. \A i \in Toward(d, s) : Moves'[i] = Moves[i]
    BY <1>1 DEF Moves, Sign
  <2> QED
    BY <1>1, <2>1, SumSame
<1>6. SumFunctionOnSet(Adds', Toward(d, s)) = SumFunctionOnSet(Adds, Toward(d, s))
  <2>1. \A i \in Toward(d, s) : Adds'[i] = Adds[i]
    BY <1>1 DEF Adds, Sign
  <2> QED
    BY <1>1, <2>1, SumSame
<1>7. ReorganisedLeaves(d, s) => ReorganisedLeaves(d, s)'
  BY <1>1, <1>3, <1>5 DEF ReorganisedLeaves
<1>8. RenamedLeaves(d, s) => RenamedLeaves(d, s)'
  BY <1>3, <1>4, <1>6 DEF RenamedLeaves
<1>9. OtherLeaves(d, s) => OtherLeaves(d, s)'
  BY <1>1, <1>2 DEF OtherLeaves
<1> QED
  BY <1>2, <1>7, <1>8, <1>9

LEMMA CoverStays ==
  ASSUME Structure, Covered, phase # "refused",
         UNCHANGED <<rows, splits, renames, components, pool_quantity>>,
         \A n \in Symbol : Held(n)' = Held(n),
         \A d \in Day, n \in Symbol :
           /\ logs'[d][n].acquired = logs[d][n].acquired
           /\ logs'[d][n].disposed = logs[d][n].disposed
           /\ logs'[d][n].transferred = logs[d][n].transferred,
         Unread' = Unread, Pending' \subseteq Pending, Pending' = {} => Pending = {},
         Pending' # {} => row'.date = row.date
  PROVE  Covered'
<1> SUFFICES ASSUME ReorganisedApart'
             PROVE  /\ Pending' = {} => \A s \in Symbol : Held(s)' >= 0
                    /\ Pending' # {} => \A d \in Day, s \in Symbol : d = row'.date =>
                         ReorganisedLeaves(d, s)' /\ RenamedLeaves(d, s)' /\ OtherLeaves(d, s)'
  BY DEF Covered
<1>1. ReorganisedApart
  BY ApartStays
<1>2. Pending = {} => \A s \in Symbol : Held(s) >= 0
  BY <1>1 DEF Covered
<1>3. ASSUME Pending' # {}, NEW d \in Day, NEW s \in Symbol, d = row'.date
      PROVE  ReorganisedLeaves(d, s)' /\ RenamedLeaves(d, s)' /\ OtherLeaves(d, s)'
  <2>1. Pending # {} /\ d = row.date /\ Typed
    BY <1>3 DEF Structure
  <2>2. ReorganisedLeaves(d, s) /\ RenamedLeaves(d, s) /\ OtherLeaves(d, s)
    BY <1>1, <2>1 DEF Covered
  <2>3. Class(d, s) \subseteq Symbol /\ Toward(d, s) \subseteq DOMAIN rows
    BY <2>1, FundsType
  <2>4. Toward(d, s)' = Toward(d, s)
    BY DEF Toward, Class, EndName
  <2> QED
    BY <2>1, <2>2, <2>3, <2>4, FundsStay
<1> QED
  BY <1>2, <1>3

LEMMA CoverRefused == ASSUME Covered, NEW reason, Refuse(reason) PROVE Covered'
  BY DEF Covered, Refuse

LEMMA EndsCover ==
  ASSUME Structure, Covered, NoteSource \/ Finish
  PROVE  Covered'
<1>1. /\ UNCHANGED <<rows, next, planned, portfolio, logs, splits, renames, components, pool_quantity>>
      /\ phase \in {"open", "plan"} /\ phase' \in {"row", "ingested"}
  BY DEF NoteSource, Finish
<1>2. Pending' = Pending /\ row' = row /\ \A n \in Symbol : Held(n)' = Held(n)
  BY <1>1 DEF Pending, row, Held
<1>3. Unread' = Unread
  BY <1>1, <1>2 DEF Unread
<1>4. phase # "refused"
  BY <1>1
<1>5. UNCHANGED <<rows, splits, renames, components, pool_quantity, logs>>
  BY <1>1
<1> QED
  BY <1>2, <1>3, <1>4, <1>5, CoverStays

LEMMA StutterCover ==
  ASSUME Structure, Covered, UNCHANGED vars
  PROVE  Covered'
<1>1. CASE phase = "refused"
  BY <1>1 DEF vars, Covered
<1>2. CASE phase # "refused"
  <2>1. /\ UNCHANGED <<rows, splits, renames, components, pool_quantity, logs>>
        /\ Pending' = Pending /\ row' = row /\ \A n \in Symbol : Held(n)' = Held(n)
    BY DEF vars, Pending, row, Held
  <2>2. Unread' = Unread
    BY <2>1 DEF vars, Unread
  <2> QED
    BY <1>2, <2>1, <2>2, CoverStays
<1> QED
  BY <1>1, <1>2

LEMMA EriCover ==
  ASSUME Structure, Structure', Covered, AddEri
  PROVE  Covered'
<1>1. phase = "row" /\ row.action = Report
  BY DEF AddEri, Reading, Report
<1>2. CASE Refuse("row")
  BY <1>2, CoverRefused
<1>3. CASE ~Refuse("row")
  <2>1. EriRecorded
    BY <1>1, <1>3, AddEriRecords DEF Structure
  <2>2. UNCHANGED portfolio
    BY <1>3 DEF AddEri
  <2>3. PassesRow
    BY <1>1, <2>1, EriKeepsDays DEF Structure, EriRecorded, SameButForEri, PassesRow, Opened
  <2>4. next \notin Pending
    BY <1>1 DEF Pending, row
  <2>5. Pending' = Pending /\ (Pending' # {} => row'.date = row.date)
    BY <2>3, <2>4, PendingPassed
  <2>6. \A n \in Symbol : Held(n)' = Held(n)
    BY <2>2 DEF Held
  <2>7. phase' = "open" /\ UNCHANGED <<rows, splits, renames, components, pool_quantity>>
    BY <2>3 DEF PassesRow
  <2>8. Unread' = Unread
    BY <1>1, <2>5, <2>7 DEF Unread
  <2>9. \A d \in Day, n \in Symbol :
           /\ logs'[d][n].acquired = logs[d][n].acquired
           /\ logs'[d][n].disposed = logs[d][n].disposed
           /\ logs'[d][n].transferred = logs[d][n].transferred
    BY <2>3 DEF PassesRow
  <2>10. phase # "refused"
    BY <1>1
  <2> QED
    BY <2>5, <2>6, <2>7, <2>8, <2>9, <2>10, CoverStays
<1> QED
  BY <1>2, <1>3

\* What a holding is left with when its day has no more rows to read.
LEMMA LeftAtClose ==
  ASSUME Typed, NEW d \in Day, NEW s \in Symbol, Toward(d, s) = {},
         \A n \in Class(d, s) :
           ReorganisedLeaves(d, n) /\ RenamedLeaves(d, n) /\ OtherLeaves(d, n),
         PlansFit
  PROVE  HeldTogether(d, s) >= 0
<1>1. /\ IsFiniteSet(Class(d, s)) /\ Class(d, s) \subseteq Symbol /\ s \in Class(d, s)
      /\ \A n \in Symbol : HeldAll[n] = Held(n) /\ HeldAll[n] \in Int
      /\ HeldTogether(d, s) \in Int
  BY FundsType
<1>2. \A n \in Class(d, s) : Class(d, n) = Class(d, s)
  BY DEF Class
<1>3. CASE \E n \in Class(d, s) : splits[d][n].planned
  <2>1. PICK n \in Class(d, s) : splits[d][n].planned
    BY <1>3
  <2>2. HeldTogether(d, n) = HeldTogether(d, s) /\ Toward(d, n) = Toward(d, s)
    BY <1>2, <2>1 DEF HeldTogether, Toward
  <2>3. SumFunctionOnSet(Moves, {}) = 0
    BY SumOfNone
  <2>4. HeldTogether(d, s) + 0 >= 0
    BY <2>1, <2>2, <2>3 DEF ReorganisedLeaves
  <2> QED
    BY <1>1, <2>4
<1>4. CASE components[d][s].capacity # 0
  <2>1. Left(d, s) >= 0 /\ HeldTogether(d, s) + SumFunctionOnSet(Adds, {}) = Left(d, s)
    BY <1>1, <1>4 DEF RenamedLeaves
  <2>2. SumFunctionOnSet(Adds, {}) = 0
    BY SumOfNone
  <2> QED
    BY <1>1, <2>1, <2>2
<1>5. CASE components[d][s].capacity = 0 /\ \A n \in Class(d, s) : ~splits[d][n].planned
  <2>1. \A n \in Class(d, s) : components[d][n].capacity = 0
    BY <1>5 DEF PlansFit
  <2>2. \A n \in Class(d, s) : HeldAll[n] \in Int /\ HeldAll[n] >= 0
    BY <1>1, <1>2, <1>5, <2>1 DEF OtherLeaves
  <2> QED
    BY <1>1, <2>2, SumAtLeast DEF HeldTogether
<1> QED
  BY <1>3, <1>4, <1>5

LEMMA PostCover ==
  ASSUME Structure, Structure', Covered, PostRow
  PROVE  Covered'
<1>1. /\ phase = "post" /\ Typed /\ phase \in Opened /\ phase # "refused"
      /\ row.action # Report /\ row.date \in planned
  BY DEF PostRow, Structure, Calendar, Opened
<1>2. CASE \E reason : Refuse(reason)
  BY <1>2, CoverRefused
<1>3. CASE ~\E reason : Refuse(reason)
  <2>1. PassesRow
    BY <1>1, <1>3, RowPassed
  <2>2. /\ portfolio' = IF LaterToday = {} THEN Gathered ELSE portfolio
        /\ UNCHANGED <<rows, logs, splits, renames, components, pool_quantity>>
        /\ phase' = "open"
    BY <1>3 DEF PostRow
  <2>3. next \in DOMAIN rows /\ row = rows[next] /\ next \in Int
        /\ \A i \in DOMAIN rows : i \in Int
    BY <1>1, RowRead, RowType, RowPlace DEF Typed, PlaceTyped
  <2>4. next \in Pending
    BY <1>1, <2>3 DEF Pending
  <2>5. row.date \in Day /\ \A i \in Pending : rows[i].date = row.date
    BY <2>4, PendingToday
  <2>6. Pending' = Pending \ {next} /\ (Pending' # {} => row'.date = row.date)
    BY <2>1, PendingPassed
  <2>7. Unread' = Unread /\ Unread = Pending'
    BY <1>1, <2>2, <2>6 DEF Unread
  <2>8. LaterToday = {} <=> Pending' = {}
    <3>1. ASSUME NEW i \in Pending, i # next
          PROVE  i \in LaterToday
      BY <2>3, <2>5, <3>1 DEF Pending, LaterToday, RowsOn, Report
    <3>2. ASSUME NEW i \in LaterToday
          PROVE  i \in Pending /\ i # next
      BY <1>1, <2>3 DEF Pending, LaterToday, RowsOn, Report
    <3> QED
      BY <2>6, <3>1, <3>2
  <2>9. CASE LaterToday # {}
    <3>1. \A n \in Symbol : Held(n)' = Held(n)
      BY <2>2, <2>9 DEF Held
    <3>2. Pending' \subseteq Pending /\ Pending' # {}
      BY <2>6, <2>8, <2>9
    <3>3. UNCHANGED <<rows, splits, renames, components, pool_quantity>>
      BY <2>2
    <3> QED
      BY <1>1, <2>2, <2>6, <2>7, <3>1, <3>2, <3>3, CoverStays
  <2>10. CASE LaterToday = {}
    <3> DEFINE d == row.date
    <3> SUFFICES ASSUME ReorganisedApart', NEW s \in Symbol
                 PROVE  Held(s)' >= 0
      BY <2>8, <2>10 DEF Covered
    <3>1. ReorganisedApart
      BY <2>2, ApartStays
    <3>2. \A n \in Symbol : ReorganisedLeaves(d, n) /\ RenamedLeaves(d, n) /\ OtherLeaves(d, n)
      BY <1>1, <2>4, <2>5, <3>1 DEF Covered
    <3>3. Held(s)' = SumFunctionOnSet(HeldAll, EndsAt(d, s))
      BY <1>1, <2>2, <2>5, <2>10, GatheredHolds
    <3>4. CASE EndsAt(d, s) = {}
      BY <3>3, <3>4, SumOfNone
    <3>5. CASE EndsAt(d, s) # {}
      <4>1. PICK n \in EndsAt(d, s) : TRUE
        BY <3>5
      <4>2. n \in Symbol /\ EndsAt(d, s) = Class(d, n)
        BY <4>1 DEF EndsAt, Class
      <4>3. Toward(d, n) = {}
        BY <2>7, <2>8, <2>10 DEF Toward
      <4>4. HeldTogether(d, n) >= 0
        <5>1. \A m \in Class(d, n) : m \in Symbol
          BY DEF Class
        <5>2. PlansFit
          BY DEF Structure
        <5> QED
          BY <1>1, <2>5, <3>2, <4>2, <4>3, <5>1, <5>2, LeftAtClose
      <4> QED
        BY <3>3, <4>2, <4>4 DEF HeldTogether
    <3> QED
      BY <3>4, <3>5
  <2> QED
    BY <2>9, <2>10
<1> QED
  BY <1>2, <1>3


\* A holding whose renames gave it a capacity is not reorganised that day.
LEMMA SupportedUnplanned ==
  ASSUME Structure, NEW d \in Day, NEW s \in Symbol, components[d][s].capacity # 0
  PROVE  \A n \in Class(d, s) : ~splits[d][n].planned
<1> SUFFICES ASSUME NEW n \in Class(d, s), splits[d][n].planned
             PROVE  FALSE
  OBVIOUS
<1>1. n \in Symbol /\ Supported(d, s)
  BY DEF Structure, PlansFit, Class
<1>2. PICK i \in RowsOn(d) : rows[i].action = "STOCK_SPLIT" /\ rows[i].symbol = n
  BY <1>1 DEF Structure, PlansFit
<1> QED
  BY <1>1, <1>2 DEF Supported, RENAME_DAY_UNSUPPORTED_ACTIONS

LEMMA AvailableRenamed ==
  ASSUME Structure, NEW d \in Day, d = row.date, row.symbol \in Symbol,
         components[d][row.symbol].capacity # 0
  PROVE  AvailableUnits = Left(d, row.symbol)
<1> DEFINE s == row.symbol
           component == components[d][s]
           names == Class(d, s)
<1>1. capacities[d][s] = NoCapacity /\ component.names = names
  BY SupportedUnplanned DEF Structure, PlansFit
<1>2. AvailableUnits = component.capacity - Taken(component)
  BY <1>1 DEF AvailableUnits
<1>3. Taken(component)
        = MapThenSumSet(LAMBDA n : logs[row.date][n].disposed, component.names)
  BY Zenon DEF Taken
<1>4. names \subseteq Symbol /\ IsFiniteSet(names)
  BY SymbolsFinite DEF Class
<1>5. Taken(component) = SumFunctionOnSet(DisposedBy(d, names), names)
  <2>1. IsFiniteSet(component.names)
    BY <1>1, <1>4
  <2>2. Taken(component)
          = SumFunctionOnSet(DisposedBy(row.date, component.names), component.names)
    BY <1>3, <2>1, DisposedSum
  <2> QED
    BY <1>1, <2>2
<1>6. SumFunctionOnSet(DisposedBy(d, names), names) = SumFunctionOnSet(DisposedOn(d), names)
  <2>1. \A n \in names : DisposedBy(d, names)[n] = DisposedOn(d)[n]
    BY <1>4 DEF DisposedBy, DisposedOn
  <2> QED
    BY <1>4, <2>1, SumSame
<1>7. Taken(component) = SumFunctionOnSet(DisposedOn(d), names)
  BY <1>5, <1>6
<1> QED
  BY <1>2, <1>7 DEF Left

LEMMA AvailableOther ==
  ASSUME Structure, NEW d \in Day, d = row.date, row.symbol \in Symbol,
         components[d][row.symbol].capacity = 0,
         \A n \in Class(d, row.symbol) : ~splits[d][n].planned
  PROVE  AvailableUnits = Held(row.symbol)
<1>1. capacities[d][row.symbol] = NoCapacity
  BY DEF Structure, PlansFit
<1> QED
  BY <1>1 DEF AvailableUnits

\* Planned days are the day of the row being read and days before it.
LEMMA PlannedBefore ==
  ASSUME Structure, NEW last \in Day, \A p \in planned : p <= last
  PROVE  \A d \in Day, s \in Symbol : splits[d][s].planned => d <= last
  BY DEF Structure, DaysAheadBlank, DaysBlank, Blank

\* Taking a row out of those still to be read.
LEMMA RowTaken ==
  ASSUME NEW T, IsFiniteSet(T), NEW f, \A i \in T : f[i] \in Int, NEW x, NEW k \in Int,
         x \in T => f[x] = k
  PROVE  SumFunctionOnSet(f, T \ {x}) = SumFunctionOnSet(f, T) - (IF x \in T THEN k ELSE 0)
<1>1. SumFunctionOnSet(f, T) \in Int
  BY SumType
<1>2. CASE x \in T
  <2>1. SumFunctionOnSet(f, T) = f[x] + SumFunctionOnSet(f, T \ {x})
    BY <1>2, SumTake
  <2>2. SumFunctionOnSet(f, T \ {x}) \in Int
    <3>1. IsFiniteSet(T \ {x})
      BY FS_Subset
    <3>2. \A i \in T \ {x} : f[i] \in Int
      OBVIOUS
    <3> QED
      BY <3>1, <3>2, SumType
  <2> QED
    BY <1>1, <1>2, <2>1, <2>2
<1>3. CASE x \notin T
  <2>1. T \ {x} = T
    BY <1>3
  <2>2. SumFunctionOnSet(f, T \ {x}) = SumFunctionOnSet(f, T)
    BY <2>1
  <2> QED
    BY <1>1, <1>3, <2>2
<1> QED
  BY <1>2, <1>3

\* What a handler does to the sums of a holding.
LEMMA MovingSums ==
  ASSUME Structure, MovesUnits, NEW d \in Day, d = row.date, NEW s \in Symbol,
         NEW here, here = (row.symbol \in Class(d, s))
  PROVE  /\ Class(d, s)' = Class(d, s)
         /\ HeldTogether(d, s)' = HeldTogether(d, s) + (IF here THEN Moving ELSE 0)
         /\ Left(d, s)' = Left(d, s) - (IF here THEN Disposing ELSE 0)
         /\ SumFunctionOnSet(Moves, Toward(d, s))'
              = SumFunctionOnSet(Moves, Toward(d, s)) - (IF here THEN Moving ELSE 0)
         /\ SumFunctionOnSet(Adds, Toward(d, s))'
              = SumFunctionOnSet(Adds, Toward(d, s)) - (IF here /\ Sign(next) > 0 THEN units ELSE 0)
<1> DEFINE S == Class(d, s)
           T == Toward(d, s)
           k == Moving
           taken == Disposing
           add == IF Sign(next) > 0 THEN units ELSE 0
           x == row.symbol
<1>1. /\ Typed /\ phase = "row" /\ Handled /\ row.action # Report
      /\ phase' = "post" /\ phase \in Opened
  BY DEF MovesUnits, Structure, Handled, row, Report, Opened
<1>2. /\ next \in Pending /\ Pending' = Pending /\ row' = row
      /\ x \in Symbol /\ next \in DOMAIN rows /\ row = rows[next]
  BY <1>1, PendingHandled DEF row
<1>3. UNCHANGED <<rows, next, renames, components, pool_quantity>>
  BY <1>1 DEF Handled
<1>4. k \in Int /\ taken \in Int /\ add \in Int /\ units = pool_quantity[next]
  <2>1. units \in Int
    BY <1>1, RowRead
  <2> QED
    BY <2>1, SignType DEF Moving, Disposing, units
<1>5. /\ IsFiniteSet(S) /\ S \subseteq Symbol /\ IsFiniteSet(T) /\ T \subseteq DOMAIN rows
      /\ \A n \in Symbol : HeldAll[n] = Held(n) /\ HeldAll[n] \in Int
      /\ \A n \in Symbol : DisposedOn(d)[n] = logs[d][n].disposed /\ DisposedOn(d)[n] \in Int
      /\ \A i \in DOMAIN rows : Moves[i] \in Int /\ Adds[i] \in Int
      /\ SumFunctionOnSet(DisposedOn(d), S) \in Int
      /\ components[d][s].capacity \in Int
  BY <1>1, FundsType
<1>6. Class(d, s)' = S
  BY <1>3 DEF Class, EndName
<1>7. Toward(d, s)' = T \ {next} /\ (next \in T <=> x \in S)
  <2>1. Unread = Pending /\ Unread' = Pending \ {next}
    BY <1>1, <1>2, <1>3 DEF Unread
  <2> QED
    BY <1>2, <1>3, <1>6, <2>1 DEF Toward
<1>8. Moves' = Moves /\ Adds' = Adds
  BY <1>3 DEF Moves, Adds, Sign
<1>9. Moves[next] = k /\ Adds[next] = add
  <2>1. Moves[next] = Sign(next) * units /\ Adds[next] = add
    BY <1>2, <1>4 DEF Moves, Adds
  <2>2. units \in Int /\ Sign(next) \in {-1, 0, 1}
    BY <1>1, RowRead, SignType
  <2>3. Sign(next) * units = k
    BY <2>2 DEF Moving
  <2> QED
    BY <2>1, <2>3
<1>10. \A n \in Symbol : HeldAll'[n] = HeldAll[n] + (IF n = x THEN k ELSE 0)
  BY <1>5 DEF MovesUnits, HeldAll
<1>11. \A n \in Symbol : DisposedOn(d)'[n] = DisposedOn(d)[n] + (IF n = x THEN taken ELSE 0)
  <2>1. \A n \in Symbol : logs'[d][n].disposed
                            = logs[d][n].disposed + (IF n = x THEN taken ELSE 0)
    BY DEF MovesUnits
  <2> QED
    BY <2>1 DEF DisposedOn
<1> HIDE DEF S, T, k, taken, add, x
<1>12. HeldTogether(d, s)' = HeldTogether(d, s) + (IF here THEN k ELSE 0)
  <2> DEFINE f == HeldAll
             g == HeldAll'
  <2>1. \A n \in S : f[n] \in Int /\ g[n] = f[n] + (IF n = x THEN k ELSE 0)
    BY <1>5, <1>10
  <2> HIDE DEF f, g
  <2>2. IsFiniteSet(S) /\ k \in Int
    BY <1>4, <1>5
  <2>3. SumFunctionOnSet(g, S) = SumFunctionOnSet(f, S) + (IF x \in S THEN k ELSE 0)
    BY <2>1, <2>2, SumShift
  <2>4. HeldTogether(d, s)' = SumFunctionOnSet(g, S)
    BY <1>6 DEF HeldTogether, g
  <2> QED
    BY <2>3, <2>4 DEF HeldTogether, f, S, x
<1>13. Left(d, s)' = Left(d, s) - (IF here THEN taken ELSE 0)
  <2> DEFINE f == DisposedOn(d)
             g == DisposedOn(d)'
  <2>1. \A n \in S : f[n] \in Int /\ g[n] = f[n] + (IF n = x THEN taken ELSE 0)
    BY <1>5, <1>11
  <2> HIDE DEF f, g
  <2>2. IsFiniteSet(S) /\ taken \in Int
    BY <1>4, <1>5
  <2>3. SumFunctionOnSet(g, S) = SumFunctionOnSet(f, S) + (IF x \in S THEN taken ELSE 0)
    BY <2>1, <2>2, SumShift
  <2>4. Left(d, s)' = components[d][s].capacity - SumFunctionOnSet(g, S)
    BY <1>3, <1>6 DEF Left, g
  <2>5. Left(d, s) = components[d][s].capacity - SumFunctionOnSet(f, S)
    BY DEF Left, f, S
  <2>6. SumFunctionOnSet(f, S) \in Int
    BY <1>5 DEF f
  <2>7. here = (x \in S)
    BY DEF x, S
  <2> QED
    <3>1. taken \in Int /\ components[d][s].capacity \in Int
      BY <1>4, <1>5
    <3>2. CASE x \in S
      <4>1. SumFunctionOnSet(g, S) = SumFunctionOnSet(f, S) + taken
        BY <2>3, <3>2
      <4>2. Left(d, s)' = Left(d, s) - taken
        BY <2>4, <2>5, <2>6, <3>1, <4>1
      <4> QED
        BY <2>7, <3>2, <4>2
    <3>3. CASE x \notin S
      <4>1. SumFunctionOnSet(g, S) = SumFunctionOnSet(f, S)
        BY <2>3, <2>6, <3>3
      <4>2. Left(d, s)' = Left(d, s) - 0
        BY <2>4, <2>5, <2>6, <3>1, <4>1
      <4> QED
        BY <2>7, <3>3, <4>2
    <3> QED
      BY <3>2, <3>3
<1>14. SumFunctionOnSet(Moves, Toward(d, s))' = SumFunctionOnSet(Moves, T) - (IF here THEN k ELSE 0)
  <2> DEFINE f == Moves
  <2>1. \A i \in T : f[i] \in Int
    BY <1>5
  <2>2. IsFiniteSet(T) /\ k \in Int /\ f[next] = k
    BY <1>4, <1>5, <1>9
  <2> HIDE DEF f
  <2>3. SumFunctionOnSet(f, T \ {next}) = SumFunctionOnSet(f, T) - (IF next \in T THEN k ELSE 0)
    BY <2>1, <2>2, RowTaken
  <2> QED
    BY <1>7, <1>8, <2>3 DEF f, x, S
<1>15. SumFunctionOnSet(Adds, Toward(d, s))' = SumFunctionOnSet(Adds, T) - (IF here THEN add ELSE 0)
  <2> DEFINE f == Adds
  <2>1. \A i \in T : f[i] \in Int
    BY <1>5
  <2>2. IsFiniteSet(T) /\ add \in Int /\ f[next] = add
    BY <1>4, <1>5, <1>9
  <2> HIDE DEF f
  <2>3. SumFunctionOnSet(f, T \ {next}) = SumFunctionOnSet(f, T) - (IF next \in T THEN add ELSE 0)
    BY <2>1, <2>2, RowTaken
  <2> QED
    BY <1>7, <1>8, <2>3 DEF f, x, S
<1> QED
  BY <1>6, <1>12, <1>13, <1>14, <1>15 DEF S, T, k, taken, add


LEMMA MovingCover ==
  ASSUME Structure, Covered, MovesUnits
  PROVE  Covered'
<1> SUFFICES ASSUME ReorganisedApart'
             PROVE  /\ Pending' = {} => \A s \in Symbol : Held(s)' >= 0
                    /\ Pending' # {} => \A d \in Day, s \in Symbol : d = row'.date =>
                         ReorganisedLeaves(d, s)' /\ RenamedLeaves(d, s)' /\ OtherLeaves(d, s)'
  BY DEF Covered
<1>1. /\ Typed /\ phase = "row" /\ Handled /\ row.action # Report
      /\ phase \in Opened /\ phase # "refused"
  BY DEF MovesUnits, Structure, row, Report, Opened
<1>2. /\ next \in Pending /\ Pending' = Pending /\ row' = row
      /\ row.symbol \in Symbol /\ next \in DOMAIN rows /\ row = rows[next] /\ row.date \in Day
  BY <1>1, PendingHandled DEF row
<1>3. UNCHANGED <<rows, next, renames, components, splits>>
  BY <1>1 DEF Handled
<1>4. ReorganisedApart
  <2>1. \A p \in planned : p <= row.date
    BY <1>2, PendingToday
  <2>2. \A d \in Day, s \in Symbol : splits[d][s].planned => d <= row.date
    BY <1>2, <2>1, PlannedBefore
  <2>3. \A d \in 1 .. row.date - 1 : d \in Day /\ d # row.date
    BY <1>2, HistoryAssumption DEF Day
  <2>4. \A d \in 1 .. row.date - 1, n \in Symbol : logs'[d][n] = logs[d][n]
    BY <2>3 DEF MovesUnits
  <2> QED
    BY <1>2, <1>3, <2>2, <2>4, ApartBefore
<1>5. ASSUME NEW d \in Day, NEW s \in Symbol, d = row'.date
      PROVE  ReorganisedLeaves(d, s)' /\ RenamedLeaves(d, s)' /\ OtherLeaves(d, s)'
  <2>1. d = row.date
    BY <1>2, <1>5
  <2>2. ReorganisedLeaves(d, s) /\ RenamedLeaves(d, s) /\ OtherLeaves(d, s)
    BY <1>1, <1>2, <1>4, <2>1 DEF Covered
  <2> DEFINE here == row.symbol \in Class(d, s)
  <2>3. /\ Class(d, s)' = Class(d, s)
        /\ HeldTogether(d, s)' = HeldTogether(d, s) + (IF here THEN Moving ELSE 0)
        /\ Left(d, s)' = Left(d, s) - (IF here THEN Disposing ELSE 0)
        /\ SumFunctionOnSet(Moves, Toward(d, s))'
             = SumFunctionOnSet(Moves, Toward(d, s)) - (IF here THEN Moving ELSE 0)
        /\ SumFunctionOnSet(Adds, Toward(d, s))'
             = SumFunctionOnSet(Adds, Toward(d, s)) - (IF here /\ Sign(next) > 0 THEN units ELSE 0)
    BY <2>1, MovingSums
  <2>4. /\ HeldTogether(d, s) \in Int /\ Left(d, s) \in Int
        /\ SumFunctionOnSet(Moves, Toward(d, s)) \in Int
        /\ SumFunctionOnSet(Adds, Toward(d, s)) \in Int
        /\ Class(d, s) \subseteq Symbol /\ s \in Class(d, s)
    BY <1>1, FundsType
  <2>5. /\ units \in Int /\ (Sign(next) # 0 => units >= 0)
        /\ Sign(next) \in {-1, 0, 1} /\ Moving \in Int
        /\ Moving = IF Sign(next) = 0 THEN 0 ELSE IF Sign(next) > 0 THEN units ELSE -units
    <3>1. units \in Int /\ (Sign(next) # 0 => units >= 0) /\ Sign(next) \in {-1, 0, 1}
      BY <1>1, RowRead, SignType
    <3> QED
      BY <3>1 DEF Moving
  <2>6. Sign(next) < 0 => AvailableUnits >= units
    BY DEF MovesUnits
  <2>7. ReorganisedLeaves(d, s)'
    <3>1. HeldTogether(d, s)' + SumFunctionOnSet(Moves, Toward(d, s))'
            = HeldTogether(d, s) + SumFunctionOnSet(Moves, Toward(d, s))
      BY <2>3, <2>4, <2>5
    <3> QED
      BY <1>3, <2>2, <3>1 DEF ReorganisedLeaves
  <2>8. RenamedLeaves(d, s)'
    <3> SUFFICES ASSUME components[d][s].capacity # 0
                 PROVE  /\ Left(d, s)' >= 0
                        /\ HeldTogether(d, s)' + SumFunctionOnSet(Adds, Toward(d, s))' = Left(d, s)'
      BY <1>3 DEF RenamedLeaves
    <3>1. /\ Left(d, s) >= 0
          /\ HeldTogether(d, s) + SumFunctionOnSet(Adds, Toward(d, s)) = Left(d, s)
      BY <2>2 DEF RenamedLeaves
    <3>2. CASE ~here
      BY <2>3, <2>4, <3>1, <3>2
    <3>3. CASE here
      <4>1. rows[next].action \notin RENAME_DAY_UNSUPPORTED_ACTIONS
        <5>1. Supported(d, s)
          BY DEF Structure, PlansFit
        <5> QED
          BY <1>2, <2>1, <3>3, <5>1 DEF Supported, RowsOn
      <4>2. /\ Sign(next) < 0 => Disposing = units
            /\ ~(Sign(next) < 0) => Disposing = 0
        <5>1. Sign(next) < 0 => rows[next].action \in Decreasing \ {"TRANSFER_TO_SPOUSE"}
          BY <4>1 DEF Sign, RENAME_DAY_UNSUPPORTED_ACTIONS, Decreasing
        <5>2. rows[next].action \in Decreasing => Sign(next) = -1
          BY SignOf
        <5> QED
          BY <5>1, <5>2 DEF Disposing
      <4>3. Left(d, row.symbol) = Left(d, s) /\ components[d][row.symbol].capacity # 0
        <5>1. Class(d, row.symbol) = Class(d, s)
          BY <3>3 DEF Class
        <5>2. components[d][row.symbol].capacity = components[d][s].capacity
          BY <3>3 DEF Structure, PlansFit
        <5> QED
          BY <5>1, <5>2 DEF Left
      <4>4. AvailableUnits = Left(d, s)
        BY <1>2, <2>1, <4>3, AvailableRenamed
      <4>5. CASE Sign(next) < 0
        <5>1. Disposing = units /\ Moving = -units /\ Left(d, s) >= units
          BY <2>5, <2>6, <4>2, <4>4, <4>5
        <5>2. ~(Sign(next) > 0)
          BY <2>5, <4>5
        <5> QED
          BY <2>3, <2>4, <2>5, <3>1, <3>3, <5>1, <5>2
      <4>6. CASE Sign(next) = 0
        <5>1. Disposing = 0 /\ Moving = 0
          BY <2>5, <4>2, <4>6
        <5> QED
          BY <2>3, <2>4, <3>1, <3>3, <4>6, <5>1
      <4>7. CASE Sign(next) > 0
        <5>1. Disposing = 0 /\ Moving = units
          BY <2>5, <4>2, <4>7
        <5> QED
          BY <2>3, <2>4, <2>5, <3>1, <3>3, <4>7, <5>1
      <4> QED
        BY <2>5, <4>5, <4>6, <4>7
    <3> QED
      BY <3>2, <3>3
  <2>9. OtherLeaves(d, s)'
    <3> SUFFICES ASSUME components[d][s].capacity = 0,
                        \A n \in Class(d, s) : ~splits[d][n].planned
                 PROVE  Held(s)' >= 0
      BY <1>3, <2>3 DEF OtherLeaves
    <3>1. Held(s) >= 0 /\ Held(s) \in Int
      BY <1>1, <2>2, HeldType DEF OtherLeaves
    <3>2. Held(s)' = Held(s) + (IF s = row.symbol THEN Moving ELSE 0)
      BY DEF MovesUnits
    <3>3. CASE s = row.symbol /\ Sign(next) < 0
      <4>1. AvailableUnits = Held(s)
        BY <1>2, <2>1, <3>3, AvailableOther
      <4> QED
        BY <2>5, <2>6, <3>1, <3>2, <3>3, <4>1
    <3>4. CASE ~(s = row.symbol /\ Sign(next) < 0)
      BY <2>5, <3>1, <3>2, <3>4
    <3> QED
      BY <3>3, <3>4
  <2> QED
    BY <2>7, <2>8, <2>9
<1> QED
  BY <1>2, <1>5

LEMMA RenamingCover ==
  ASSUME Structure, Covered, RenamesUnits
  PROVE  Covered'
<1> SUFFICES ASSUME ReorganisedApart'
             PROVE  /\ Pending' = {} => \A s \in Symbol : Held(s)' >= 0
                    /\ Pending' # {} => \A d \in Day, s \in Symbol : d = row'.date =>
                         ReorganisedLeaves(d, s)' /\ RenamedLeaves(d, s)' /\ OtherLeaves(d, s)'
  BY DEF Covered
<1>1. /\ Typed /\ phase = "row" /\ phase' = "post" /\ Handled /\ row.action # Report
      /\ phase # "refused" /\ UNCHANGED logs /\ rows[next].action = "RENAME"
  BY DEF RenamesUnits, Structure, row, Report, Handled
<1>2. /\ next \in Pending /\ Pending' = Pending /\ row' = row
      /\ row.symbol \in Symbol /\ row.renamed \in Symbol
      /\ next \in DOMAIN rows /\ row = rows[next] /\ row.date \in Day
  BY <1>1, PendingHandled DEF row
<1>3. UNCHANGED <<rows, next, renames, components, splits, pool_quantity>>
  BY <1>1 DEF Handled
<1>4. ReorganisedApart
  BY <1>1, <1>3, ApartStays
<1>5. ASSUME NEW d \in Day, NEW s \in Symbol, d = row'.date
      PROVE  ReorganisedLeaves(d, s)' /\ RenamedLeaves(d, s)' /\ OtherLeaves(d, s)'
  <2>1. d = row.date
    BY <1>2, <1>5
  <2>2. \A n \in Symbol : ReorganisedLeaves(d, n) /\ RenamedLeaves(d, n) /\ OtherLeaves(d, n)
    BY <1>1, <1>2, <1>4, <2>1 DEF Covered
  <2>3. /\ Class(d, s) \subseteq Symbol /\ s \in Class(d, s)
        /\ IsFiniteSet(Toward(d, s)) /\ Toward(d, s) \subseteq DOMAIN rows
        /\ \A i \in DOMAIN rows : Moves[i] \in Int /\ Adds[i] \in Int
        /\ SumFunctionOnSet(Moves, Toward(d, s)) \in Int
        /\ SumFunctionOnSet(Adds, Toward(d, s)) \in Int
    BY <1>1, FundsType
  <2>4. Class(d, s)' = Class(d, s)
    BY <1>3 DEF Class, EndName
  <2>5. HeldTogether(d, s)' = HeldTogether(d, s)
    <3>1. EndName(d, s) \in Symbol /\ Class(d, s) = EndsAt(d, EndName(d, s))
      BY <1>1 DEF Typed, PlansTyped, EndName, Class, EndsAt
    <3>2. SumFunctionOnSet(HeldAll', Class(d, s)) = SumFunctionOnSet(HeldAll, Class(d, s))
      BY <2>1, <3>1, RenamingKeepsSums
    <3> QED
      BY <2>4, <3>2 DEF HeldTogether
  <2>6. Left(d, s)' = Left(d, s)
    BY <1>1, <1>3, <2>4 DEF Left, DisposedOn
  <2>7. Toward(d, s)' = Toward(d, s) \ {next} /\ Moves' = Moves /\ Adds' = Adds
    <3>1. Unread = Pending /\ Unread' = Pending \ {next}
      BY <1>1, <1>2, <1>3 DEF Unread
    <3> QED
      BY <1>3, <2>4, <3>1 DEF Toward, Moves, Adds, Sign
  <2>8. Moves[next] = 0 /\ Adds[next] = 0
    <3>1. Sign(next) = 0
      BY <1>1 DEF Sign, Increasing, Decreasing, Sales
    <3>2. pool_quantity[next] \in Int
      BY <1>1, <1>2 DEF Typed, PoolTyped
    <3> QED
      BY <1>2, <3>1, <3>2 DEF Moves, Adds
  <2>9. SumFunctionOnSet(Moves, Toward(d, s))' = SumFunctionOnSet(Moves, Toward(d, s))
    <3> DEFINE f == Moves
               T == Toward(d, s)
    <3>1. IsFiniteSet(T) /\ (\A i \in T : f[i] \in Int) /\ 0 \in Int /\ f[next] = 0
      BY <2>3, <2>8
    <3> HIDE DEF f, T
    <3>2. SumFunctionOnSet(f, T \ {next}) = SumFunctionOnSet(f, T) - (IF next \in T THEN 0 ELSE 0)
      BY <3>1, RowTaken
    <3>3. SumFunctionOnSet(f, T \ {next}) = SumFunctionOnSet(f, T)
      BY <2>3, <3>2 DEF f, T
    <3> QED
      BY <2>7, <3>3 DEF f, T
  <2>10. SumFunctionOnSet(Adds, Toward(d, s))' = SumFunctionOnSet(Adds, Toward(d, s))
    <3> DEFINE f == Adds
               T == Toward(d, s)
    <3>1. IsFiniteSet(T) /\ (\A i \in T : f[i] \in Int) /\ 0 \in Int /\ f[next] = 0
      BY <2>3, <2>8
    <3> HIDE DEF f, T
    <3>2. SumFunctionOnSet(f, T \ {next}) = SumFunctionOnSet(f, T) - (IF next \in T THEN 0 ELSE 0)
      BY <3>1, RowTaken
    <3>3. SumFunctionOnSet(f, T \ {next}) = SumFunctionOnSet(f, T)
      BY <2>3, <3>2 DEF f, T
    <3> QED
      BY <2>7, <3>3 DEF f, T
  <2>11. ReorganisedLeaves(d, s)' /\ RenamedLeaves(d, s)'
    BY <1>3, <2>2, <2>5, <2>6, <2>9, <2>10 DEF ReorganisedLeaves, RenamedLeaves
  <2>12. OtherLeaves(d, s)'
    <3> SUFFICES ASSUME components[d][s].capacity = 0,
                        \A n \in Class(d, s) : ~splits[d][n].planned
                 PROVE  Held(s)' >= 0
      BY <1>3, <2>4 DEF OtherLeaves
    <3>1. \A n \in Symbol : Held(n) \in Int
      BY <1>1, HeldType
    <3>2. Held(s) >= 0
      BY <2>2 DEF OtherLeaves
    <3>3. Held(s)' = IF s = row.symbol THEN Held(s) + Held(row.renamed)
                     ELSE IF s = row.renamed THEN 0 ELSE Held(s)
      BY DEF RenamesUnits
    <3>4. CASE s = row.symbol
      <4>1. row.renamed \in Class(d, s) /\ Class(d, row.renamed) = Class(d, s)
        BY <1>2, <2>1, <3>4, RenamingKeepsSums DEF Class, EndName
      <4>2. components[d][row.renamed].capacity = 0
        BY <4>1 DEF Structure, PlansFit
      <4>3. Held(row.renamed) >= 0
        BY <1>2, <2>2, <4>1, <4>2 DEF OtherLeaves
      <4> QED
        BY <1>2, <3>1, <3>2, <3>3, <3>4, <4>3
    <3>5. CASE s # row.symbol
      BY <3>2, <3>3, <3>5
    <3> QED
      BY <3>4, <3>5
  <2> QED
    BY <2>11, <2>12
<1> QED
  BY <1>2, <1>5


LEMMA PlanningCover ==
  ASSUME Agreement, Structure', Covered, PlanStockSplit
  PROVE  Covered'
<1>1. Structure /\ Typed /\ phase = "plan" /\ phase # "refused"
  BY DEF Agreement, Structure, PlanStockSplit
<1>2. CASE phase' = "refused"
  BY <1>2 DEF Covered
<1>3. CASE phase' # "refused"
  <2> SUFFICES ASSUME ReorganisedApart'
               PROVE  /\ Pending' = {} => \A s \in Symbol : Held(s)' >= 0
                      /\ Pending' # {} => \A d \in Day, s \in Symbol : d = row'.date =>
                           ReorganisedLeaves(d, s)' /\ RenamedLeaves(d, s)' /\ OtherLeaves(d, s)'
    BY DEF Covered
  <2>1. PICK i \in DOMAIN rows : i = PlannedRow
    BY <1>1, <1>3, PlannedRowIs
  <2>2. PICK s0 \in Symbol : s0 = PlannedSymbol
    BY <1>1, <1>3, PlannedRowIs
  <2>3. PICK d \in Day : d = row.date
    BY <1>1, RowRead DEF Opened
  <2>4. /\ rows[i].date = d /\ rows[i].symbol = s0 /\ rows[i].action = "STOCK_SPLIT"
        /\ ~SplitRefused(i) /\ ~splits[d][s0].planned
    BY <1>1, <1>3, <2>1, <2>2, <2>3, PlannedRowIs
  <2>5. d \in planned
    BY <1>1, <2>3 DEF Structure, Calendar, Opened
  <2>6. /\ splits' = [splits EXCEPT ![d][s0] = Transformation(i)]
        /\ portfolio' = WithHolding(s0, OpensAt(i))
        /\ pool_quantity' = Restated(i)
        /\ UNCHANGED <<rows, next, phase, planned, logs, renames, components>>
    BY <1>3, <2>1, <2>2, <2>3 DEF PlanStockSplit, Refuse, PlannedSymbol, PlannedRow
  <2>7. i \in Pending
    BY <1>1, <2>3, <2>4, <2>5 DEF Pending, Structure, Calendar, RowsOn, Report
  <2>8. Pending' = Pending /\ row' = row /\ Unread' = Unread /\ Unread = Pending
    BY <1>1, <2>6 DEF Pending, row, Unread
  <2>9. /\ \A e \in Day, n \in Symbol : splits'[e][n] =
             IF e = d /\ n = s0 THEN Transformation(i) ELSE splits[e][n]
        /\ Transformation(i).planned
    BY <1>1, <2>6 DEF Typed, PlansTyped, Transformation
  <2>10. \A n \in Symbol : Held(n)' = IF n = s0 THEN OpensAt(i) ELSE Held(n)
    BY <2>6, HeldWith
  <2>11. /\ d \in 1 .. LastDay /\ d - 1 \in 0 .. LastDay /\ Day = 1 .. LastDay /\ LastDay \in Nat
         /\ \A e \in 1 .. d - 1 : e \in Day /\ e # d
    BY HistoryAssumption DEF Day
  <2>12. \A n \in Symbol : Replay'[d - 1][n] = Replay[d - 1][n]
    <3>1. d - 1 \in 0 .. d - 1
      BY <2>11
    <3> QED
      BY <2>6, <2>9, <2>11, <3>1, ReplaySame
  <2>13. ReorganisedApart
    <3>1. \A p \in planned : p <= d
      BY <1>1, <2>3, <2>7, PendingToday
    <3>2. \A e \in Day, n \in Symbol : splits[e][n].planned => e <= d
      BY <1>1, <3>1, PlannedBefore
    <3>3. \A e \in Day, n \in Symbol : splits[e][n].planned => splits'[e][n].planned
      BY <2>9
    <3> QED
      BY <2>6, <2>9, <2>11, <3>2, <3>3, ApartBefore
  <2> DEFINE S == Class(d, s0)
  <2>14. NamesOn(d, s0) = S /\ NamesOn(d, s0)' = S /\ S \subseteq Symbol /\ s0 \in S
    <3>1. NamesOn(d, s0) = S
      BY <1>1, NamesAreClass DEF Structure
    <3>2. NamesOn(d, s0)' = NamesOn(d, s0)
      BY <2>6 DEF NamesOn, ConnectedNames, EndName
    <3> QED
      BY <3>1, <3>2 DEF Class
  <2>15. \A n \in S \ {s0} : Replay[d - 1][n] = 0 /\ ~splits'[d][n].planned
    BY <2>9, <2>12, <2>14 DEF ReorganisedApart
  <2>16. \A n \in S \ {s0} : Held(n)' = 0
    <3> SUFFICES ASSUME NEW n \in S \ {s0}
                 PROVE  Held(n)' = 0
      OBVIOUS
    <3>1. n \in Symbol /\ Replay[d - 1][n] = 0 /\ ~splits[d][n].planned
      BY <2>9, <2>14, <2>15
    <3>2. Held(n) = Carried(splits[d][n], logs[d][n], Replay[d - 1][n])
      BY <1>1, <2>3, <2>7, <3>1 DEF Agreement, AtOpening, Counted
    <3>3. Quiet(logs[d][n])
      BY <1>1, <2>3, <3>1 DEF Structure, DaysAheadBlank, NothingRead
    <3> QED
      BY <2>10, <3>1, <3>2, <3>3 DEF Carried, Quiet
  <2>17. \A n \in Symbol : Class(d, n)' = Class(d, n)
    BY <2>6 DEF Class, EndName
  <2>18. \A n \in Symbol : Toward(d, n)' = Toward(d, n)
    BY <2>6, <2>8, <2>17 DEF Toward
  <2>19. /\ OpensAt(i) \in Int /\ ScaledOpen(i) \in Int /\ UncorrectedClose(i) \in Int
         /\ ExpectedDayClose(i) \in Int /\ ExpectedDayClose(i) >= 0
         /\ RowsAround(i) \in SUBSET DOMAIN rows /\ IsFiniteSet(RowsAround(i))
         /\ Restated(i) \in [DOMAIN rows -> Int]
    <3>1. RowsAround(i) \in SUBSET DOMAIN rows
      BY AroundAreRows
    <3>2. IsFiniteSet(RowsAround(i))
      BY <1>1, <3>1, RowsFinite DEF Typed, PlaceTyped
    <3>3. ExpectedDayClose(i) \in Int /\ ExpectedDayClose(i) >= 0
      BY <1>1, <2>4, TransformationType DEF SplitRefused
    <3> QED
      BY <1>1, <2>4, <3>1, <3>2, <3>3, TransformationType, RestatedType
  <2>20. ReorganisedLeaves(d, s0)'
    <3> DEFINE T == Toward(d, s0)
               around == RowsAround(i)
               f == Moves'
               g == SignedBy(around, Restated(i))
    <3>1. SumFunctionOnSet(HeldAll', S) = OpensAt(i)
      <4> DEFINE held == HeldAll'
      <4>1. /\ \A n \in S : held[n] \in Int
            /\ \A n \in S \ {s0} : held[n] = 0
            /\ held[s0] = OpensAt(i)
        <5>1. \A n \in Symbol : held[n] = Held(n)'
          BY DEF HeldAll
        <5> QED
          BY <2>10, <2>14, <2>16, <2>19, <5>1
      <4>2. IsFiniteSet(S) /\ {s0} \in SUBSET S
        BY <2>14, SymbolsFinite
      <4> HIDE DEF held, S
      <4>3. SumFunctionOnSet(held, S) = SumFunctionOnSet(held, {s0})
        BY <4>1, <4>2, SumOfSupport
      <4>4. SumFunctionOnSet(held, {s0}) = held[s0]
        BY <2>19, <4>1, SumOfOne
      <4> QED
        BY <4>1, <4>3, <4>4 DEF held
    <3>2. T \subseteq DOMAIN rows /\ IsFiniteSet(T)
      BY <1>1, FundsType
    <3>3. around \subseteq T
      <4> SUFFICES ASSUME NEW j \in around
                   PROVE  j \in T
        OBVIOUS
      <4>1. j \in RowsOn(d) /\ rows[j].symbol \in S /\ Sign(j) # 0 /\ rows[j].date = d
        BY <2>4, <2>14 DEF RowsAround, RowsOn
      <4>2. rows[j].action # Report
        BY <4>1 DEF Sign, Report, Increasing, Decreasing, Sales
      <4>3. j \in DOMAIN rows /\ j >= next
        BY <1>1, <2>3, <4>1 DEF Structure, Calendar, RowsOn
      <4> QED
        BY <2>5, <2>8, <4>1, <4>2, <4>3 DEF Toward, Pending
    <3>4. \A j \in T \ around : Sign(j) = 0
      <4> SUFFICES ASSUME NEW j \in T \ around, Sign(j) # 0
                   PROVE  FALSE
        OBVIOUS
      <4>1. j \in Pending /\ rows[j].symbol \in S /\ j \in DOMAIN rows
        BY <2>8 DEF Toward, Pending
      <4>2. rows[j].date = d
        BY <1>1, <2>3, <4>1, PendingToday
      <4>3. j # i
        BY <2>4 DEF Sign, Increasing, Decreasing, Sales
      <4> QED
        BY <2>4, <2>14, <4>1, <4>2, <4>3 DEF RowsAround, RowsOn
    <3>5. \A j \in DOMAIN rows : f[j] = Sign(j) * Restated(i)[j] /\ f[j] \in Int
      <4>1. \A j \in DOMAIN rows : f[j] = Sign(j) * Restated(i)[j]
        BY <2>6 DEF Moves, Sign
      <4> QED
        BY <2>19, <4>1, SignType
    <3>6. \A j \in T \ around : f[j] = 0
      <4>1. \A j \in T \ around : f[j] = 0 * Restated(i)[j] /\ Restated(i)[j] \in Int
        BY <2>19, <3>2, <3>4, <3>5
      <4> QED
        BY <4>1
    <3>7. \A j \in around : f[j] = g[j]
      BY <2>19, <3>5 DEF SignedBy
    <3>8. SignedQuantity(around, Restated(i)) = SumFunctionOnSet(g, around)
      BY <2>19, SignedSum
    <3>9. /\ OpensAt(i) + SignedQuantity(around, Restated(i)) = ExpectedDayClose(i)
      <4>1. SignedQuantity(around, Restated(i)) \in Int
        BY <1>1, <2>19, SignedType DEF Typed, PlaceTyped
      <4>2. UncorrectedClose(i) = ScaledOpen(i) + SignedQuantity(around, Restated(i))
        BY DEF UncorrectedClose
      <4>3. OpensAt(i) = ScaledOpen(i) + (ExpectedDayClose(i) - UncorrectedClose(i))
        BY DEF OpensAt, Transformation
      <4> QED
        BY <2>19, <4>1, <4>2, <4>3
    <3>10. HeldTogether(d, s0)' = OpensAt(i)
      BY <2>14, <2>17, <3>1 DEF HeldTogether
    <3>11. SumFunctionOnSet(Moves, Toward(d, s0))' = SumFunctionOnSet(f, T)
      BY <2>18
    <3> HIDE DEF T, around, f, g
    <3>12. SumFunctionOnSet(f, T) = SumFunctionOnSet(f, around)
      BY <3>2, <3>3, <3>5, <3>6, SumOfSupport
    <3>13. SumFunctionOnSet(f, around) = SumFunctionOnSet(g, around)
      <4>1. IsFiniteSet(around)
        BY <2>19 DEF around
      <4> QED
        BY <3>7, <4>1, SumSame
    <3>14. HeldTogether(d, s0)' + SumFunctionOnSet(Moves, Toward(d, s0))' >= 0
      BY <2>19, <3>8, <3>9, <3>10, <3>11, <3>12, <3>13
    <3> QED
      BY <3>14 DEF ReorganisedLeaves
  <2>21. ASSUME NEW s \in S
         PROVE  ReorganisedLeaves(d, s)' /\ RenamedLeaves(d, s)' /\ OtherLeaves(d, s)'
    <3>1. s0 \in Class(d, s) /\ s \in Symbol
      BY <2>14 DEF Class
    <3>2. ReorganisedLeaves(d, s)'
      BY <2>15, <2>20 DEF ReorganisedLeaves
    <3>3. components[d][s].capacity = 0
      <4> SUFFICES ASSUME components[d][s].capacity # 0
                   PROVE  FALSE
        OBVIOUS
      <4>1. Supported(d, s)
        BY <1>1, <3>1 DEF Structure, PlansFit
      <4> QED
        BY <2>4, <3>1, <4>1 DEF Supported, RowsOn, RENAME_DAY_UNSUPPORTED_ACTIONS
    <3>4. RenamedLeaves(d, s)'
      BY <2>6, <3>3 DEF RenamedLeaves
    <3>5. OtherLeaves(d, s)'
      BY <2>9, <2>17, <3>1 DEF OtherLeaves
    <3> QED
      BY <3>2, <3>4, <3>5
  <2>22. ASSUME NEW s \in Symbol, s \notin S
         PROVE  ReorganisedLeaves(d, s)' /\ RenamedLeaves(d, s)' /\ OtherLeaves(d, s)'
    <3>1. \A n \in Class(d, s) : n \in Symbol /\ n \notin S /\ n # s0
      BY <2>14, <2>22 DEF Class
    <3>2. ReorganisedLeaves(d, s) /\ RenamedLeaves(d, s) /\ OtherLeaves(d, s)
      BY <1>1, <2>3, <2>7, <2>13 DEF Covered
    <3>3. \A n \in Class(d, s) : Held(n)' = Held(n)
      BY <2>10, <3>1
    <3>4. \A n \in Class(d, s) : splits'[d][n].planned <=> splits[d][n].planned
      BY <2>9, <3>1
    <3>5. \A j \in Toward(d, s) : pool_quantity'[j] = pool_quantity[j]
      <4> SUFFICES ASSUME NEW j \in Toward(d, s)
                   PROVE  pool_quantity'[j] = pool_quantity[j]
        OBVIOUS
      <4>1. rows[j].symbol \notin S /\ j \in DOMAIN rows
        BY <2>8, <3>1 DEF Toward, Pending
      <4>2. j \notin RowsBefore(i)
        BY <2>4, <2>14, <4>1 DEF RowsBefore, RowsAround
      <4> QED
        BY <2>6, <4>1, <4>2 DEF Restated
    <3> QED
      BY <1>1, <2>6, <2>18, <3>2, <3>3, <3>4, <3>5, FundsStay
  <2>23. \A s \in Symbol : ReorganisedLeaves(d, s)' /\ RenamedLeaves(d, s)' /\ OtherLeaves(d, s)'
    BY <2>21, <2>22
  <2> QED
    BY <2>3, <2>7, <2>8, <2>23
<1> QED
  BY <1>2, <1>3


LEMMA NothingPending ==
  ASSUME Structure, DayOpens
  PROVE  /\ Pending = {}
         /\ Pending' = {i \in RowsOn(row.date) : rows[i].action # Report}
<1> DEFINE d == row.date
<1>1. /\ d \in Day /\ d \notin planned /\ planned' = planned \cup {d} /\ UNCHANGED <<rows, next>>
      /\ next <= Len(rows)
  BY DEF DayOpens
<1>2. /\ next \in DOMAIN rows /\ row = rows[next]
      /\ \A i \in DOMAIN rows : i < next <=> rows[i].date < d
      /\ \A e \in planned : e < d
  BY DayOpensPlaces
<1>3. /\ planned \subseteq Day /\ next \in Int
      /\ \A i \in DOMAIN rows : rows[i].date \in Day /\ i \in Int
  BY RowType, RowPlace DEF Structure, Typed, PlaceTyped
<1>4. Day \subseteq Int
  BY DEF Day
<1> HIDE DEF d
<1>5. \A i \in DOMAIN rows : i >= next => rows[i].date \notin planned
  BY <1>1, <1>2, <1>3, <1>4
<1>6. \A i \in DOMAIN rows : rows[i].date = d => i >= next
  BY <1>1, <1>2, <1>3, <1>4
<1>7. Pending = {}
  BY <1>5 DEF Pending
<1>8. Pending' = {i \in RowsOn(d) : rows[i].action # Report}
  BY <1>1, <1>5, <1>6 DEF Pending, RowsOn
<1> QED
  BY <1>7, <1>8 DEF d

\* Rows that add, summed by what they pool.
LEMMA AddsSum ==
  ASSUME Typed, NEW T \in SUBSET DOMAIN rows
  PROVE  /\ SignedQuantity(Increases(T), pool_quantity) = SumFunctionOnSet(Adds, T)
         /\ SumFunctionOnSet(Adds, T) \in Int /\ SumFunctionOnSet(Adds, T) >= 0
<1> DEFINE more == Increases(T)
           f == Adds
           g == SignedBy(more, pool_quantity)
<1>1. more \in SUBSET T /\ IsFiniteSet(T) /\ IsFiniteSet(more)
  BY RowsFinite DEF Increases, Typed, PlaceTyped
<1>2. \A i \in T : f[i] \in Int /\ f[i] >= 0 /\ (i \in T \ more => f[i] = 0)
                   /\ (i \in more => f[i] = g[i])
  <2> SUFFICES ASSUME NEW i \in T
               PROVE  /\ f[i] \in Int /\ f[i] >= 0 /\ (i \in T \ more => f[i] = 0)
                      /\ (i \in more => f[i] = g[i])
    OBVIOUS
  <2>1. /\ pool_quantity[i] \in Int /\ Sign(i) \in -1 .. 1
        /\ (Sign(i) # 0 => pool_quantity[i] >= 0)
    BY SignType DEF Typed, PoolTyped
  <2>2. f[i] = IF Sign(i) > 0 THEN pool_quantity[i] ELSE 0
    BY DEF Adds
  <2>3. CASE Sign(i) > 0
    <3>1. i \in more /\ Sign(i) = 1
      BY <2>1, <2>3 DEF Increases
    <3>2. g[i] = 1 * pool_quantity[i]
      BY <3>1 DEF SignedBy
    <3> QED
      BY <2>1, <2>2, <2>3, <3>1, <3>2
  <2>4. CASE ~(Sign(i) > 0)
    <3>1. i \notin more
      BY <2>4 DEF Increases
    <3> QED
      BY <2>2, <2>4, <3>1
  <2> QED
    BY <2>3, <2>4
<1>3. SignedQuantity(more, pool_quantity) = SumFunctionOnSet(g, more)
  BY <1>1, SignedSum
<1> HIDE DEF more, f, g
<1>4. SumFunctionOnSet(f, more) = SumFunctionOnSet(g, more)
  BY <1>1, <1>2, SumSame
<1>5. SumFunctionOnSet(f, T) = SumFunctionOnSet(f, more)
  BY <1>1, <1>2, SumOfSupport
<1>6. SumFunctionOnSet(f, T) \in Int /\ SumFunctionOnSet(f, T) >= 0
  BY <1>1, <1>2, SumAtLeast
<1> QED
  BY <1>3, <1>4, <1>5, <1>6 DEF more, f

LEMMA OpeningCover ==
  ASSUME Structure, Covered, OpenTransactionDay
  PROVE  Covered'
<1>1. CASE Refuse("rename")
  BY <1>1, CoverRefused
<1>2. CASE DayOpens
  <2> SUFFICES ASSUME ReorganisedApart'
               PROVE  /\ Pending' = {} => \A s \in Symbol : Held(s)' >= 0
                      /\ Pending' # {} => \A d \in Day, s \in Symbol : d = row'.date =>
                           ReorganisedLeaves(d, s)' /\ RenamedLeaves(d, s)' /\ OtherLeaves(d, s)'
    BY DEF Covered
  <2>1. /\ Typed /\ phase = "open" /\ phase' = "plan" /\ row.date \in Day \ planned
        /\ UNCHANGED <<rows, next, portfolio, pool_quantity, logs, splits>> /\ row' = row
    BY <1>2 DEF DayOpens, row, Structure
  <2>2. /\ \A e \in Day, s \in Symbol :
             renames'[e][s] = IF e = row.date THEN DayNames[s] ELSE renames[e][s]
        /\ \A e \in Day, s \in Symbol : Class(e, s)' = IF e = row.date THEN DayClass(s) ELSE Class(e, s)
        /\ \A p \in planned : p < row.date
    BY <1>2, DayOpensPlaces
  <2>3. Pending = {} /\ Pending' = {i \in RowsOn(row.date) : rows[i].action # Report}
    BY <1>2, NothingPending
  <2>4. ReorganisedApart
    <3>1. \A e \in Day, s \in Symbol : splits[e][s].planned => e \in planned
      BY DEF Structure, DaysAheadBlank, DaysBlank, Blank
    <3>2. \A e \in Day, s \in Symbol : splits[e][s].planned => e < row.date
      BY <2>2, <3>1
    <3>3. \A e \in 1 .. row.date - 1 : e \in Day /\ e # row.date
      BY <2>1, HistoryAssumption DEF Day
    <3>4. \A e \in Day : e < row.date => e <= row.date /\ e # row.date
      BY <2>1 DEF Day
    <3> QED
      BY <2>1, <2>2, <3>2, <3>3, <3>4, ApartBefore
  <2>5. \A s \in Symbol : Held(s) >= 0 /\ Held(s) \in Int /\ Held(s)' = Held(s)
    <3>1. phase # "refused"
      BY <2>1
    <3> QED
      BY <2>1, <2>3, <2>4, <3>1, HeldType DEF Covered, Held
  <2>6. ASSUME NEW d \in Day, NEW s \in Symbol, d = row'.date
        PROVE  ReorganisedLeaves(d, s)' /\ RenamedLeaves(d, s)' /\ OtherLeaves(d, s)'
    <3>1. d = row.date
      BY <2>1, <2>6
    <3>2. Quiet(logs[d][s]) /\ ~splits[d][s].planned
      BY <2>1, <3>1 DEF Structure, DaysAheadBlank, DaysBlank, Blank
    <3>3. ReorganisedLeaves(d, s)' /\ OtherLeaves(d, s)'
      BY <2>1, <2>5, <3>2 DEF ReorganisedLeaves, OtherLeaves
    <3>4. RenamedLeaves(d, s)'
      <4> DEFINE S == DayClass(s)
                 T == DayRows(s)
      <4> SUFFICES ASSUME components'[d][s].capacity # 0
                   PROVE  /\ Left(d, s)' >= 0
                          /\ HeldTogether(d, s)' + SumFunctionOnSet(Adds, Toward(d, s))'
                               = Left(d, s)'
        BY DEF RenamedLeaves
      <4>1. /\ components'[d][s].capacity =
                 MapThenSumSet(LAMBDA n : Held(n), S)
                 + SignedQuantity(Increases(T), pool_quantity)
            /\ \A i \in T : rows[i].action \notin RENAME_DAY_UNSUPPORTED_ACTIONS
        <5>1. DayPlans(s)
          BY <1>2 DEF DayOpens
        <5> QED
          BY <3>1, <5>1 DEF DayPlans
      <4>2. Class(d, s)' = S /\ S \subseteq Symbol /\ IsFiniteSet(S)
        BY <2>2, <3>1, SymbolsFinite DEF DayClass
      <4>3. Toward(d, s)' = T
        <5>1. Unread' = Pending'
          BY <2>1 DEF Unread
        <5>2. \A i \in T : rows[i].action # Report
          BY <4>1 DEF RENAME_DAY_UNSUPPORTED_ACTIONS, Report
        <5> QED
          BY <2>1, <2>3, <4>2, <5>1, <5>2 DEF Toward, DayRows
      <4>4. T \in SUBSET DOMAIN rows /\ Adds' = Adds
        BY <2>1 DEF DayRows, RowsOn, Adds, Sign
      <4>5. /\ SignedQuantity(Increases(T), pool_quantity) = SumFunctionOnSet(Adds, T)
            /\ SumFunctionOnSet(Adds, T) \in Int /\ SumFunctionOnSet(Adds, T) >= 0
        BY <2>1, <4>4, AddsSum
      <4>6. MapThenSumSet(LAMBDA n : Held(n), S) = SumFunctionOnSet(HeldBy(S), S)
        BY <4>2, HeldSum
      <4>7. /\ SumFunctionOnSet(HeldAll', S) = SumFunctionOnSet(HeldBy(S), S)
            /\ SumFunctionOnSet(HeldBy(S), S) \in Int
            /\ SumFunctionOnSet(HeldBy(S), S) >= 0
        <5>1. \A n \in S : HeldAll'[n] = HeldBy(S)[n] /\ HeldBy(S)[n] \in Int /\ HeldBy(S)[n] >= 0
          BY <2>5, <4>2 DEF HeldAll, HeldBy
        <5> QED
          BY <4>2, <5>1, SumSame, SumAtLeast
      <4>8. SumFunctionOnSet(DisposedOn(d)', S) = 0
        <5>1. \A n \in S : DisposedOn(d)'[n] = 0
          BY <2>1, <3>1, <4>2 DEF DisposedOn, Structure, DaysAheadBlank, DaysBlank, Blank, Quiet
        <5> QED
          BY <4>2, <5>1, SumOfZeros
      <4>9. HeldTogether(d, s)' = SumFunctionOnSet(HeldBy(S), S)
        BY <4>2, <4>7 DEF HeldTogether
      <4>10. Left(d, s)' = components'[d][s].capacity - 0
        BY <4>2, <4>8 DEF Left
      <4>11. SumFunctionOnSet(Adds, Toward(d, s))' = SumFunctionOnSet(Adds, T)
        BY <4>3, <4>4
      <4> HIDE DEF S, T
      <4>12. components'[d][s].capacity
               = SumFunctionOnSet(HeldBy(S), S) + SumFunctionOnSet(Adds, T)
        BY <4>1, <4>5, <4>6
      <4> QED
        BY <4>5, <4>7, <4>9, <4>10, <4>11, <4>12
    <3> QED
      BY <3>3, <3>4
  <2> QED
    BY <2>5, <2>6
<1> QED
  BY <1>1, <1>2, OpeningDay

LEMMA StepCovers == Agreement /\ Covered /\ [Next]_vars => Covered'
<1> SUFFICES ASSUME Agreement, Covered, [Next]_vars
             PROVE  Covered'
  OBVIOUS
<1>1. Structure /\ Structure' /\ Typed
  BY StepStructure DEF Agreement, Structure
<1>2. CASE AddAcquisition \/ AddDisposal \/ AddTransferToSpouse \/ AddGift
           \/ AddManagementFee \/ PassOver
  BY <1>1, <1>2, HandlersMove, MovingCover, CoverRefused
<1>3. CASE AddRename
  BY <1>1, <1>3, AddRenameMoves, RenamingCover
<1>4. CASE RefuseOther
  BY <1>4, CoverRefused DEF RefuseOther
<1> QED
  BY <1>1, <1>2, <1>3, <1>4, OpeningCover, PlanningCover, EndsCover, EriCover, PostCover,
     StutterCover DEF Next

\* Between days both halves say what the two passes' agreement does.
LEMMA BothAgree == Agreement /\ Covered => PassesAgreeAtEachClose
<1> SUFFICES ASSUME Agreement, Covered, BetweenDays, NEW s \in Symbol
             PROVE  Held(s) = Replay[LastClosed][s] /\ (ReorganisedApart => Held(s) >= 0)
  BY DEF PassesAgreeAtEachClose
<1>1. Structure /\ Typed /\ phase # "refused"
  BY DEF Agreement, Structure, BetweenDays
<1>2. /\ rows \in Ledgers /\ DOMAIN rows = 1 .. Len(rows) /\ Len(rows) \in Nat
      /\ next \in Int /\ planned \subseteq Day /\ Day = 1 .. LastDay /\ LastDay \in Nat
      /\ \A i \in DOMAIN rows : i \in Int /\ rows[i].date \in Day
  BY <1>1, RowType, RowPlace, HistoryAssumption DEF Typed, PlaceTyped, Day
<1>3. Pending = {}
  <2> SUFFICES ASSUME Pending # {}
               PROVE  FALSE
    OBVIOUS
  <2>1. next <= Len(rows) /\ row.date \in planned
    BY <1>1, PendingToday
  <2> QED
    BY <1>1, <1>2, <2>1 DEF BetweenDays, Structure, Calendar
<1>4. LastClosed \in 0 .. LastDay /\ \A p \in planned : p <= LastClosed
  <2>1. CASE phase = "ingested"
    BY <1>2, <2>1 DEF LastClosed
  <2>2. CASE phase # "ingested"
    <3>1. next <= Len(rows) /\ row.date \notin planned /\ next >= 1
      BY <1>1, <2>2 DEF BetweenDays, Typed, PlaceTyped
    <3>2. next \in DOMAIN rows /\ row = rows[next]
      BY <1>2, <3>1 DEF row
    <3>3. row.date \in Day /\ \A p \in planned : p <= row.date /\ p # row.date
      BY <1>1, <1>2, <3>1, <3>2 DEF Structure, Calendar
    <3> QED
      BY <1>2, <2>2, <3>3 DEF LastClosed
  <2> QED
    BY <2>1, <2>2
<1> QED
  BY <1>1, <1>3, <1>4 DEF Agreement, Settled, Covered

(***************************************************************************)
(* The two passes agree at every day's close, whatever order the rows of a *)
(* day are read in, and no holding is short there: what prepare_history    *)
(* counts provisionally is what the walk rebuilds from its records.        *)
(***************************************************************************)
THEOREM ClosesAlwaysAgree == Spec => []PassesAgreeAtEachClose
<1>1. Init => Agreement /\ Covered
  BY InitAgrees, InitCovered
<1>2. Agreement /\ Covered /\ [Next]_vars => (Agreement /\ Covered)'
  BY StepAgrees, StepCovers
<1>3. Agreement /\ Covered => PassesAgreeAtEachClose
  BY BothAgree
<1> QED
  BY <1>1, <1>2, <1>3, PTL DEF Spec

----------------------------------------------------------------------------
(***************************************************************************)
(* What the walk is given.  A holding that is never renamed is its own     *)
(* count all through: each day carries what the day before closed with,    *)
(* and a reorganisation planned on it opens with that and closes, once the *)
(* rows still ahead are read, on the count its plan accepted.              *)
(***************************************************************************)
Alone(s) == \A d \in Day : Class(d, s) = {s}

\* The units the rows of a day still ahead will move under one name.
Ahead(d, s) == {i \in Unread : rows[i].date = d /\ rows[i].symbol = s}
ToMove(d, s) == SumFunctionOnSet(Moves, Ahead(d, s))

\* A day its planned reorganisation describes, whatever its holding was before
\* or is renamed to later; and a day the walk may be given.
PlanMet(d, s) ==
  splits[d][s].planned => Replay[d][s] + ToMove(d, s) = splits[d][s].day_close
DayAccepted(d, s) ==
  IF splits[d][s].planned
    THEN /\ splits[d][s] \in SplitTransformation
         /\ splits[d][s].day_open = Replay[d - 1][s]
    ELSE Replay[d][s] >= 0

NothingElse == \A d \in Day, s \in Symbol : ~splits[d][s].planned => splits[d][s] = NoSplit
UnrenamedPlans ==
  \A d \in Day, s \in Symbol : Class(d, s) = {s} => components[d][s].capacity = 0
DaysAccepted ==
  phase # "refused" =>
    \A s \in Symbol : Alone(s) => \A d \in planned : DayAccepted(d, s)
PlansMet ==
  phase # "refused" =>
    \A d \in planned, s \in Symbol : Class(d, s) = {s} => PlanMet(d, s)

HandOver == NothingElse /\ UnrenamedPlans /\ DaysAccepted /\ PlansMet

\* A holding that a day does not rename is carried over it by itself.
AloneReckons ==
  \A d \in Day, s \in Symbol : Class(d, s) = {s} =>
    /\ EndsAt(d, s) = {s}
    /\ Replay[d][s] = Carried(splits[d][s], logs[d][s], Replay[d - 1][s])

LEMMA AloneByDay == Structure => AloneReckons
<1> SUFFICES ASSUME Structure, NEW d \in Day, NEW s \in Symbol, Class(d, s) = {s}
             PROVE  /\ EndsAt(d, s) = {s}
                    /\ Replay[d][s] = Carried(splits[d][s], logs[d][s], Replay[d - 1][s])
  BY DEF AloneReckons
<1>1. Class(d, s) = {s} /\ Typed
  BY DEF Structure
<1>2. renames[d][s] \in Symbol /\ renames[d][renames[d][s]] = renames[d][s]
  BY <1>1 DEF Typed, PlansTyped, Structure, EndsMerged
<1>3. renames[d][s] = s
  BY <1>1, <1>2 DEF Class, EndName
<1>4. EndsAt(d, s) = {s}
  BY <1>1, <1>3 DEF EndsAt, Class, EndName
<1>5. Replay[d][s] = SumFunctionOnSet(Counted(d), {s})
  BY <1>4, ReplayByDay
<1>6. Counted(d)[s] \in Int
  BY <1>1, CountedType
<1>7. Replay[d][s] = Counted(d)[s]
  BY <1>5, <1>6, SumOfOne
<1> QED
  BY <1>4, <1>7 DEF Counted

LEMMA AloneByDayNext == Structure' => AloneReckons'
  BY AloneByDay, PTL

\* Once nothing is ahead of it, a day that has been accepted closes whole.
LEMMA AcceptedCloses ==
  ASSUME Typed, NEW d \in Day, NEW s \in Symbol, DayAccepted(d, s), PlanMet(d, s),
         Ahead(d, s) = {}
  PROVE  Replay[d][s] >= 0 /\ (splits[d][s].planned => splits[d][s].day_close = Replay[d][s])
<1>1. Replay[d][s] \in Int
  BY ReplayType, HistoryAssumption DEF Day
<1>2. ToMove(d, s) = 0
  BY SumOfNone DEF ToMove
<1>3. CASE splits[d][s].planned
  <2>1. /\ splits[d][s] \in SplitTransformation
        /\ Replay[d][s] + 0 = splits[d][s].day_close
    BY <1>2, <1>3 DEF DayAccepted, PlanMet
  <2>2. splits[d][s].day_close \in Nat
    BY <2>1 DEF SplitTransformation
  <2> QED
    BY <1>1, <2>1, <2>2
<1>4. CASE ~splits[d][s].planned
  BY <1>4 DEF DayAccepted
<1> QED
  BY <1>3, <1>4

\* A day nothing is planned on closes as it opened.
LEMMA BlankCarries ==
  ASSUME Structure, NEW d \in Day \ planned, NEW s \in Symbol, Alone(s)
  PROVE  Replay[d][s] = Replay[d - 1][s]
<1>1. Quiet(logs[d][s]) /\ ~splits[d][s].planned
  BY DEF Structure, DaysAheadBlank, DaysBlank, Blank
<1>2. Replay[d - 1][s] \in Int
  BY ReplayType, HistoryAssumption DEF Day, Structure
<1>3. Replay[d][s] = Carried(splits[d][s], logs[d][s], Replay[d - 1][s])
  BY AloneByDay DEF AloneReckons, Alone
<1> QED
  BY <1>1, <1>2, <1>3 DEF Carried, Quiet

LEMMA NeverShort ==
  ASSUME Structure, NEW s \in Symbol, Alone(s), NEW last \in 0 .. LastDay,
         \A d \in planned : d <= last => Replay[d][s] >= 0
  PROVE  \A d \in 0 .. last : Replay[d][s] >= 0
<1>1. LastDay \in Nat /\ Day = 1 .. LastDay
  BY HistoryAssumption DEF Day
<1> DEFINE T == {n \in Nat : n <= last => Replay[n][s] >= 0}
<1>2. 0 \in T
  BY ReplayByDay
<1>3. ASSUME NEW n \in Nat, n \in T
      PROVE  n + 1 \in T
  <2> SUFFICES ASSUME n + 1 <= last
               PROVE  Replay[n + 1][s] >= 0
    OBVIOUS
  <2>1. Replay[n][s] >= 0 /\ n + 1 \in Day /\ (n + 1) - 1 = n
    BY <1>1, <1>3
  <2>2. CASE n + 1 \in planned
    BY <2>2
  <2>3. CASE n + 1 \notin planned
    BY <2>1, <2>3, BlankCarries
  <2> QED
    BY <2>2, <2>3
<1> HIDE DEF T
<1>4. \A n \in Nat : n \in T
  BY <1>2, <1>3, NaturalsBySteps
<1> QED
  BY <1>1, <1>4 DEF T

\* Rows still ahead are of the day being read.
LEMMA AheadElsewhere ==
  ASSUME Structure
  PROVE  /\ \A d \in Day, s \in Symbol :
              /\ IsFiniteSet(Ahead(d, s)) /\ Ahead(d, s) \subseteq Unread
              /\ Ahead(d, s) \subseteq DOMAIN rows
              /\ ToMove(d, s) \in Int
              /\ Pending = {} \/ d # row.date => Ahead(d, s) = {}
              /\ d = row.date /\ Class(d, s) = {s} => Ahead(d, s) = Toward(d, s)
         /\ Unread \subseteq Pending
<1>1. Unread \subseteq Pending
  BY DEF Unread
<1> SUFFICES ASSUME NEW d \in Day, NEW s \in Symbol
             PROVE  /\ IsFiniteSet(Ahead(d, s)) /\ Ahead(d, s) \subseteq Unread
                    /\ Ahead(d, s) \subseteq DOMAIN rows
                    /\ ToMove(d, s) \in Int
                    /\ Pending = {} \/ d # row.date => Ahead(d, s) = {}
                    /\ d = row.date /\ Class(d, s) = {s} => Ahead(d, s) = Toward(d, s)
  BY <1>1
<1>2. Ahead(d, s) \subseteq Unread /\ Ahead(d, s) \subseteq DOMAIN rows
  BY <1>1 DEF Ahead, Pending
<1>3. Typed /\ IsFiniteSet(Ahead(d, s))
  BY <1>2, RowsFinite DEF Structure, Typed, PlaceTyped
<1>4. ToMove(d, s) \in Int
  <2>1. \A i \in Ahead(d, s) : Moves[i] \in Int
    BY <1>2, <1>3, FundsType
  <2> QED
    BY <1>3, <2>1, SumType DEF ToMove
<1>5. Pending # {} => \A i \in Unread : rows[i].date = row.date
  BY <1>1, PendingToday
<1>6. Pending = {} \/ d # row.date => Ahead(d, s) = {}
  BY <1>1, <1>5 DEF Ahead
<1>7. d = row.date /\ Class(d, s) = {s} => Ahead(d, s) = Toward(d, s)
  BY <1>1, <1>5 DEF Ahead, Toward
<1> QED
  BY <1>2, <1>3, <1>4, <1>6, <1>7

\* A day the step leaves alone stays accepted.
LEMMA AcceptedStays ==
  ASSUME NEW d \in Day, NEW s \in Symbol, DayAccepted(d, s),
         splits'[d][s] = splits[d][s], Replay'[d][s] = Replay[d][s],
         Replay'[d - 1][s] = Replay[d - 1][s]
  PROVE  DayAccepted(d, s)'
  BY DEF DayAccepted

LEMMA PlanMetStays ==
  ASSUME NEW d \in Day, NEW s \in Symbol, PlanMet(d, s), splits'[d][s] = splits[d][s],
         Replay'[d][s] = Replay[d][s], ToMove(d, s)' = ToMove(d, s)
  PROVE  PlanMet(d, s)'
  BY DEF PlanMet

LEMMA HandOverRefused == ASSUME HandOver, NEW reason, Refuse(reason) PROVE HandOver'
  BY DEF HandOver, Refuse, NothingElse, UnrenamedPlans, DaysAccepted, PlansMet, Class, EndName

LEMMA InitHandOver == Init => HandOver
  BY DEF Init, HandOver, NothingElse, UnrenamedPlans, DaysAccepted, PlansMet

\* A step that moves no units and plans nothing.
LEMMA HandsStay ==
  ASSUME Structure, HandOver, UNCHANGED <<rows, planned, splits, renames, components>>,
         phase # "refused",
         \A d \in Day, n \in Symbol :
           /\ logs'[d][n].acquired = logs[d][n].acquired
           /\ logs'[d][n].disposed = logs[d][n].disposed
           /\ logs'[d][n].transferred = logs[d][n].transferred,
         \A d \in Day, n \in Symbol : ToMove(d, n)' = ToMove(d, n)
  PROVE  HandOver'
<1>1. NothingElse' /\ UnrenamedPlans'
  BY DEF HandOver, NothingElse, UnrenamedPlans, Class, EndName
<1>2. /\ LastDay \in Nat /\ Day = 1 .. LastDay /\ LastDay \in 0 .. LastDay
      /\ planned \subseteq Day
  BY HistoryAssumption DEF Day, Structure, Typed, PlaceTyped
<1>3. \A d \in 0 .. LastDay, n \in Symbol : Replay'[d][n] = Replay[d][n]
  BY <1>2, ReplaySame
<1>4. ASSUME NEW s \in Symbol, Alone(s)', NEW d \in planned
      PROVE  DayAccepted(d, s)'
  <2>1. Alone(s)
    BY <1>4 DEF Alone, Class, EndName
  <2>2. DayAccepted(d, s)
    BY <2>1 DEF HandOver, DaysAccepted
  <2>3. d \in Day /\ d \in 0 .. LastDay /\ d - 1 \in 0 .. LastDay
    BY <1>2
  <2>4. Replay'[d][s] = Replay[d][s] /\ Replay'[d - 1][s] = Replay[d - 1][s]
    BY <1>3, <2>3
  <2> QED
    BY <2>2, <2>3, <2>4, AcceptedStays
<1>5. ASSUME NEW s \in Symbol, NEW d \in planned, Class(d, s)' = {s}
      PROVE  PlanMet(d, s)'
  <2>1. Class(d, s) = {s}
    BY <1>5 DEF Class, EndName
  <2>2. PlanMet(d, s) /\ d \in Day /\ d \in 0 .. LastDay
    BY <1>2, <2>1 DEF HandOver, PlansMet
  <2>3. Replay'[d][s] = Replay[d][s]
    BY <1>3, <2>2
  <2> QED
    BY <2>2, <2>3, PlanMetStays
<1>6. DaysAccepted' /\ PlansMet'
  BY <1>4, <1>5 DEF DaysAccepted, PlansMet
<1> QED
  BY <1>1, <1>6 DEF HandOver

\* Nothing moved from what is ahead.
LEMMA AheadStays ==
  ASSUME UNCHANGED <<rows, pool_quantity>>, Unread' = Unread
  PROVE  \A d \in Day, n \in Symbol : ToMove(d, n)' = ToMove(d, n)
  BY DEF ToMove, Ahead, Moves, Sign

LEMMA EndsHand ==
  ASSUME Structure, HandOver, NoteSource \/ Finish
  PROVE  HandOver'
<1>1. /\ UNCHANGED <<rows, next, planned, logs, splits, renames, components, pool_quantity>>
      /\ phase \in {"open", "plan"} /\ phase' \in {"row", "ingested"}
  BY DEF NoteSource, Finish
<1>2. Unread' = Unread
  BY <1>1 DEF Unread, Pending
<1>3. phase # "refused"
  BY <1>1
<1> QED
  BY <1>1, <1>2, <1>3, AheadStays, HandsStay

LEMMA StutterHand ==
  ASSUME Structure, HandOver, UNCHANGED vars
  PROVE  HandOver'
<1>1. CASE phase = "refused"
  BY <1>1 DEF vars, HandOver, NothingElse, UnrenamedPlans, DaysAccepted, PlansMet, Class, EndName
<1>2. CASE phase # "refused"
  <2>1. UNCHANGED <<rows, next, phase, planned, logs, splits, renames, components, pool_quantity>>
    BY DEF vars
  <2>2. Unread' = Unread
    BY <2>1 DEF Unread, Pending
  <2> QED
    BY <1>2, <2>1, <2>2, AheadStays, HandsStay
<1> QED
  BY <1>1, <1>2

LEMMA PassingHands ==
  ASSUME Structure, Structure', HandOver, AddEri \/ PostRow
  PROVE  HandOver'
<1>1. CASE \E reason : Refuse(reason)
  BY <1>1, HandOverRefused
<1>2. CASE ~\E reason : Refuse(reason)
  <2>1. PassesRow
    BY <1>2, RowPassed DEF Structure
  <2>2. UNCHANGED splits
    BY <2>1 DEF PassesRow
  <2>3. Pending' = Pending \ {next}
    BY <2>1, PendingPassed
  <2>4. /\ phase \in {"row", "post"} /\ phase' = "open" /\ phase # "refused"
        /\ phase = "row" => next \notin Pending
    BY <2>1 DEF AddEri, PostRow, Reading, PassesRow, Pending, row, Report
  <2>5. Unread' = Unread
    BY <2>3, <2>4 DEF Unread
  <2>6. UNCHANGED <<rows, planned, splits, renames, components, pool_quantity>>
    BY <2>1 DEF PassesRow
  <2>7. \A d \in Day, n \in Symbol :
           /\ logs'[d][n].acquired = logs[d][n].acquired
           /\ logs'[d][n].disposed = logs[d][n].disposed
           /\ logs'[d][n].transferred = logs[d][n].transferred
    BY <2>1 DEF PassesRow
  <2> QED
    BY <2>4, <2>5, <2>6, <2>7, AheadStays, HandsStay
<1> QED
  BY <1>1, <1>2

LEMMA RenamingHands ==
  ASSUME Structure, HandOver, RenamesUnits
  PROVE  HandOver'
<1>1. /\ Typed /\ phase = "row" /\ phase' = "post" /\ Handled /\ row.action # Report
      /\ phase # "refused" /\ UNCHANGED logs /\ rows[next].action = "RENAME"
  BY DEF RenamesUnits, Structure, row, Report, Handled
<1>2. next \in Pending /\ Pending' = Pending /\ next \in DOMAIN rows
  BY <1>1, PendingHandled DEF row
<1>3. UNCHANGED <<rows, next, planned, renames, components, splits, pool_quantity>>
  BY <1>1 DEF Handled
<1>4. Moves[next] = 0 /\ Moves' = Moves
  <2>1. Sign(next) = 0
    BY <1>1 DEF Sign, Increasing, Decreasing, Sales
  <2>2. pool_quantity[next] \in Int
    BY <1>1, <1>2 DEF Typed, PoolTyped
  <2> QED
    BY <1>2, <1>3, <2>1, <2>2 DEF Moves, Sign
<1>5. ASSUME NEW d \in Day, NEW s \in Symbol
      PROVE  ToMove(d, s)' = ToMove(d, s)
  <2> DEFINE f == Moves
             T == Ahead(d, s)
  <2>1. Ahead(d, s)' = T \ {next}
    BY <1>1, <1>2, <1>3 DEF Ahead, Unread
  <2>2. IsFiniteSet(T) /\ (\A i \in T : f[i] \in Int) /\ 0 \in Int /\ f[next] = 0
    BY <1>1, <1>4, AheadElsewhere, FundsType
  <2>3. ToMove(d, s) \in Int
    BY AheadElsewhere
  <2> HIDE DEF f, T
  <2>4. SumFunctionOnSet(f, T \ {next}) = SumFunctionOnSet(f, T) - (IF next \in T THEN 0 ELSE 0)
    BY <2>2, RowTaken
  <2> QED
    BY <1>4, <2>1, <2>3, <2>4 DEF f, T, ToMove
<1>6. \A d \in Day, n \in Symbol :
         /\ logs'[d][n].acquired = logs[d][n].acquired
         /\ logs'[d][n].disposed = logs[d][n].disposed
         /\ logs'[d][n].transferred = logs[d][n].transferred
  BY <1>1
<1> QED
  BY <1>1, <1>3, <1>5, <1>6, HandsStay

LEMMA MovingToward ==
  ASSUME Structure, MovesUnits, NEW d \in Day, d = row.date, NEW s \in Symbol
  PROVE  /\ Class(d, s)' = Class(d, s)
         /\ SumFunctionOnSet(Moves, Toward(d, s))'
              = SumFunctionOnSet(Moves, Toward(d, s))
                - (IF row.symbol \in Class(d, s) THEN Moving ELSE 0)
<1> DEFINE here == row.symbol \in Class(d, s)
<1>1. /\ Class(d, s)' = Class(d, s)
      /\ HeldTogether(d, s)' = HeldTogether(d, s) + (IF here THEN Moving ELSE 0)
      /\ Left(d, s)' = Left(d, s) - (IF here THEN Disposing ELSE 0)
      /\ SumFunctionOnSet(Moves, Toward(d, s))'
           = SumFunctionOnSet(Moves, Toward(d, s)) - (IF here THEN Moving ELSE 0)
      /\ SumFunctionOnSet(Adds, Toward(d, s))'
           = SumFunctionOnSet(Adds, Toward(d, s)) - (IF here /\ Sign(next) > 0 THEN units ELSE 0)
  BY MovingSums
<1> QED
  BY <1>1

\* Units read into or out of a holding were ahead before.
LEMMA MovingHands ==
  ASSUME Agreement, Structure', HandOver, MovesUnits
  PROVE  HandOver'
<1>1. /\ Structure /\ Typed /\ phase = "row" /\ phase' = "post" /\ Handled /\ row.action # Report
      /\ phase \in Opened /\ phase # "refused"
  BY DEF MovesUnits, Agreement, Structure, row, Report, Opened, Handled
<1>2. /\ next \in Pending /\ Pending' = Pending /\ row' = row
      /\ row.symbol \in Symbol /\ next \in DOMAIN rows /\ row = rows[next] /\ row.date \in Day
  BY <1>1, PendingHandled DEF row
<1>3. UNCHANGED <<rows, next, planned, renames, components, splits, pool_quantity>>
  BY <1>1 DEF Handled
<1>4. Unread = Pending /\ Unread' = Unread \ {next}
  BY <1>1, <1>2, <1>3 DEF Unread
<1>5. /\ LastDay \in Nat /\ Day = 1 .. LastDay /\ planned \subseteq Day
      /\ \A p \in planned : p <= row.date
      /\ \A i \in Pending : rows[i].date = row.date
  BY <1>1, <1>2, HistoryAssumption, PendingToday DEF Day, Typed, PlaceTyped
<1>6. \A e \in 0 .. row.date - 1, n \in Symbol : Replay'[e][n] = Replay[e][n]
  <2>1. \A e \in 1 .. row.date - 1 : e \in Day /\ e # row.date
    BY <1>2, <1>5
  <2>2. \A e \in 1 .. row.date - 1, n \in Symbol : logs'[e][n] = logs[e][n]
    BY <2>1 DEF MovesUnits
  <2>3. row.date - 1 \in 0 .. LastDay
    BY <1>2, <1>5
  <2> QED
    BY <1>3, <2>2, <2>3, ReplaySame
<1>7. NothingElse' /\ UnrenamedPlans'
  BY <1>3 DEF HandOver, NothingElse, UnrenamedPlans, Class, EndName
\* What the row moves under a name the day does not rename.
<1>8. ASSUME NEW s \in Symbol, NEW d \in planned, Class(d, s)' = {s}
      PROVE  /\ d \in Day /\ Class(d, s) = {s}
             /\ Replay'[d - 1][s] = Replay[d - 1][s]
             /\ Replay[d][s] \in Int /\ ToMove(d, s) \in Int /\ Moving \in Int
             /\ Replay'[d][s] = Replay[d][s]
                  + (IF d = row.date /\ s = row.symbol THEN Moving ELSE 0)
             /\ ToMove(d, s)' = ToMove(d, s)
                  - (IF d = row.date /\ s = row.symbol THEN Moving ELSE 0)
  <2>1. Class(d, s) = {s}
    BY <1>3, <1>8 DEF Class, EndName
  <2>2. /\ units \in Int /\ Sign(next) \in {-1, 0, 1} /\ Moving \in Int
    <3>1. units \in Int /\ Sign(next) \in {-1, 0, 1}
      BY <1>1, RowRead, SignType
    <3> QED
      BY <3>1 DEF Moving
  <2>3. d \in Day /\ d <= row.date /\ d - 1 \in 0 .. row.date - 1 /\ Class(d, s) = {s}
    BY <1>2, <1>5, <2>1
  <2>4. Replay'[d - 1][s] = Replay[d - 1][s]
    BY <1>6, <2>3
  <2>5. /\ logs[d][s] \in Log /\ logs'[d][s] \in Log /\ splits[d][s] \in Planned
        /\ Replay[d - 1][s] \in Int /\ Replay[d][s] \in Int /\ ToMove(d, s) \in Int
    <3>1. d - 1 \in 0 .. LastDay /\ d \in 0 .. LastDay
      BY <1>5, <2>3
    <3>2. ToMove(d, s) \in Int
      BY <1>1, <2>3, AheadElsewhere
    <3> QED
      BY <1>1, <2>3, <3>1, <3>2, ReplayType DEF Structure, Typed, RecordsTyped, PlansTyped
  <2>6. CASE d # row.date
    <3>1. Ahead(d, s) = {} /\ Ahead(d, s)' = {}
      BY <1>3, <1>4, <1>5, <2>6 DEF Ahead
    <3>2. ToMove(d, s) = 0 /\ ToMove(d, s)' = 0
      BY <3>1, SumOfNone DEF ToMove
    <3>3. d \in 0 .. row.date - 1
      BY <1>2, <1>5, <2>3, <2>6
    <3>4. Replay'[d][s] = Replay[d][s]
      BY <1>6, <3>3
    <3> QED
      BY <2>2, <2>3, <2>4, <2>5, <2>6, <3>2, <3>4
  <2>7. CASE d = row.date
    <3> DEFINE k == IF row.symbol \in Class(d, s) THEN Moving ELSE 0
    <3>1. k = (IF d = row.date /\ s = row.symbol THEN Moving ELSE 0) /\ k \in Int
      BY <2>2, <2>3, <2>7
    <3>2. /\ Class(d, s)' = Class(d, s)
          /\ SumFunctionOnSet(Moves, Toward(d, s))'
               = SumFunctionOnSet(Moves, Toward(d, s)) - k
      BY <1>1, <2>3, <2>7, MovingToward
    <3>3. Ahead(d, s) = Toward(d, s) /\ Ahead(d, s)' = Toward(d, s)'
      BY <1>3, <1>4, <1>5, <2>3, <2>7, <3>2 DEF Ahead, Toward
    <3>4. ToMove(d, s)' = ToMove(d, s) - k
      BY <3>2, <3>3 DEF ToMove
    <3>5. Net(logs'[d][s]) = Net(logs[d][s]) + k
      BY <2>3, <2>7, <3>1 DEF MovesUnits
    <3>6. /\ Replay[d][s] = Carried(splits[d][s], logs[d][s], Replay[d - 1][s])
          /\ Replay'[d][s] = Carried(splits[d][s], logs'[d][s], Replay[d - 1][s])
      BY <1>1, <1>3, <1>8, <2>1, <2>3, <2>4, AloneByDay, AloneByDayNext DEF AloneReckons
    <3> HIDE DEF k
    <3>7. Replay'[d][s] = Replay[d][s] + k
      BY <2>5, <3>1, <3>5, <3>6 DEF Carried, Net, Log, Planned
    <3> QED
      BY <2>2, <2>3, <2>4, <2>5, <3>1, <3>4, <3>7
  <2> QED
    BY <2>6, <2>7
<1>9. ASSUME NEW s \in Symbol, NEW d \in planned, Class(d, s)' = {s}
      PROVE  PlanMet(d, s)'
  <2>1. Class(d, s) = {s} /\ PlanMet(d, s) /\ d \in Day
    BY <1>1, <1>8, <1>9 DEF HandOver, PlansMet
  <2>2. Replay'[d][s] + ToMove(d, s)' = Replay[d][s] + ToMove(d, s)
    BY <1>8, <1>9
  <2> QED
    BY <1>3, <2>1, <2>2 DEF PlanMet
<1>10. ASSUME NEW s \in Symbol, Alone(s)', NEW d \in planned
       PROVE  DayAccepted(d, s)'
  <2>1. Alone(s) /\ Class(d, s)' = {s} /\ d \in Day
    BY <1>3, <1>5, <1>10 DEF Alone, Class, EndName
  <2>2. DayAccepted(d, s)
    BY <1>1, <2>1 DEF HandOver, DaysAccepted
  <2>3. /\ Class(d, s) = {s} /\ Replay'[d - 1][s] = Replay[d - 1][s]
        /\ Replay[d][s] \in Int /\ Moving \in Int
        /\ Replay'[d][s] = Replay[d][s]
             + (IF d = row.date /\ s = row.symbol THEN Moving ELSE 0)
    BY <1>8, <2>1
  <2>4. CASE splits[d][s].planned
    BY <1>3, <2>2, <2>3, <2>4 DEF DayAccepted
  <2>5. CASE ~splits[d][s].planned
    <3>1. Replay[d][s] >= 0
      BY <2>2, <2>5 DEF DayAccepted
    <3>2. /\ units \in Int /\ (Sign(next) # 0 => units >= 0) /\ Sign(next) \in {-1, 0, 1}
          /\ Moving = IF Sign(next) = 0 THEN 0 ELSE IF Sign(next) > 0 THEN units ELSE -units
      <4>1. units \in Int /\ (Sign(next) # 0 => units >= 0) /\ Sign(next) \in {-1, 0, 1}
        BY <1>1, RowRead, SignType
      <4> QED
        BY <4>1 DEF Moving
    <3>3. Replay'[d][s] >= 0
      <4>1. CASE d = row.date /\ s = row.symbol /\ Sign(next) < 0
        <5>1. components[d][s].capacity = 0
          BY <2>1, <2>3 DEF HandOver, UnrenamedPlans
        <5>2. AvailableUnits = Held(s)
          BY <1>1, <1>2, <2>1, <2>3, <2>5, <4>1, <5>1, AvailableOther
        <5>3. Held(s) = Replay[d][s]
          <6>1. SumFunctionOnSet(HeldAll, EndsAt(d, s)) = Replay[d][s] /\ EndsAt(d, s) = {s}
            BY <1>1, <1>2, <2>1, <2>3, <4>1, AloneByDay DEF AloneReckons, Agreement, InDay
          <6>2. HeldAll[s] = Held(s) /\ HeldAll[s] \in Int
            BY <1>1, HeldType, HeldAllIs
          <6> QED
            BY <6>1, <6>2, SumOfOne
        <5>4. units <= Replay[d][s]
          BY <2>3, <3>2, <4>1, <5>2, <5>3 DEF MovesUnits
        <5>5. Moving = -units
          BY <3>2, <4>1
        <5> QED
          BY <2>3, <3>2, <4>1, <5>4, <5>5
      <4>2. CASE ~(d = row.date /\ s = row.symbol /\ Sign(next) < 0)
        <5>1. Sign(next) >= 0 => Moving >= 0
          BY <3>2
        <5> QED
          BY <2>3, <3>1, <3>2, <4>2, <5>1
      <4> QED
        BY <4>1, <4>2
    <3> QED
      BY <1>3, <2>5, <3>3 DEF DayAccepted
  <2> QED
    BY <2>4, <2>5
<1>11. DaysAccepted' /\ PlansMet'
  BY <1>3, <1>9, <1>10 DEF DaysAccepted, PlansMet
<1> QED
  BY <1>7, <1>11 DEF HandOver

\* What a day's rows still ahead of its reorganisation move, restated.
LEMMA AheadRestated ==
  ASSUME Structure, phase = "plan", NEW d \in Day, d = row.date, d \in planned,
         NEW i \in DOMAIN rows, NEW s \in Symbol, Class(d, s) = {s},
         rows[i].date = d, rows[i].symbol = s, rows[i].action = "STOCK_SPLIT",
         ~SplitRefused(i), pool_quantity' = Restated(i),
         UNCHANGED <<rows, next, phase, planned>>
  PROVE  /\ ToMove(d, s)' = SignedQuantity(RowsAround(i), Restated(i))
         /\ SignedQuantity(RowsAround(i), Restated(i)) \in Int
<1> DEFINE T == Ahead(d, s)
           around == RowsAround(i)
           f == Moves'
           g == SignedBy(around, Restated(i))
<1>1. Typed /\ NamesOn(d, s) = {s} /\ Ahead(d, s)' = T
  <2>1. NamesOn(d, s) = {s}
    BY NamesAreClass DEF Structure
  <2> QED
    BY <2>1 DEF Structure, Ahead, Unread, Pending
<1>2. /\ around \in SUBSET DOMAIN rows /\ IsFiniteSet(around)
      /\ T \subseteq DOMAIN rows /\ IsFiniteSet(T)
      /\ Restated(i) \in [DOMAIN rows -> Int]
  <2>1. around \in SUBSET DOMAIN rows
    BY AroundAreRows
  <2>2. IsFiniteSet(around)
    BY <1>1, <2>1, RowsFinite DEF Typed, PlaceTyped
  <2> QED
    BY <1>1, <2>1, <2>2, AheadElsewhere, RestatedType
<1>3. around \subseteq T
  <2> SUFFICES ASSUME NEW j \in around
               PROVE  j \in T
    OBVIOUS
  <2>1. j \in RowsOn(d) /\ rows[j].symbol = s /\ Sign(j) # 0 /\ rows[j].date = d
    BY <1>1 DEF RowsAround, RowsOn
  <2>2. rows[j].action # Report
    BY <2>1 DEF Sign, Report, Increasing, Decreasing, Sales
  <2>3. j \in DOMAIN rows /\ j >= next
    BY <2>1 DEF Structure, Calendar, RowsOn
  <2> QED
    BY <2>1, <2>2, <2>3 DEF Ahead, Unread, Pending
<1>4. \A j \in T \ around : Sign(j) = 0
  <2> SUFFICES ASSUME NEW j \in T \ around, Sign(j) # 0
               PROVE  FALSE
    OBVIOUS
  <2>1. j \in DOMAIN rows /\ rows[j].symbol = s /\ rows[j].date = d
    BY <1>2 DEF Ahead
  <2>2. j # i
    BY DEF Sign, Increasing, Decreasing, Sales
  <2> QED
    BY <1>1, <2>1, <2>2 DEF RowsAround, RowsOn
<1>5. \A j \in DOMAIN rows : f[j] = Sign(j) * Restated(i)[j] /\ f[j] \in Int
  <2>1. \A j \in DOMAIN rows : f[j] = Sign(j) * Restated(i)[j]
    BY DEF Moves, Sign
  <2> QED
    BY <1>2, <2>1, SignType
<1>6. \A j \in T \ around : f[j] = 0
  <2>1. \A j \in T \ around : f[j] = 0 * Restated(i)[j] /\ Restated(i)[j] \in Int
    BY <1>2, <1>4, <1>5
  <2> QED
    BY <2>1
<1>7. \A j \in around : f[j] = g[j]
  BY <1>2, <1>5 DEF SignedBy
<1>8. SignedQuantity(around, Restated(i)) = SumFunctionOnSet(g, around)
  BY <1>2, SignedSum
<1>9. SignedQuantity(around, Restated(i)) \in Int
  BY <1>1, <1>2, SignedType DEF Typed, PlaceTyped
<1>10. ToMove(d, s)' = SumFunctionOnSet(f, T)
  BY <1>1 DEF ToMove
<1> HIDE DEF T, f, g, around
<1>11. \A j \in T : f[j] \in Int
  BY <1>2, <1>5
<1>12. SumFunctionOnSet(f, T) = SumFunctionOnSet(f, around)
  BY <1>2, <1>3, <1>6, <1>11, SumOfSupport
<1>13. SumFunctionOnSet(f, around) = SumFunctionOnSet(g, around)
  BY <1>2, <1>7, SumSame
<1> QED
  BY <1>8, <1>9, <1>10, <1>12, <1>13 DEF around

\* A plan the first pass accepts is one the walk may be given.
LEMMA PlanIsWhole ==
  ASSUME Typed, EndsMerged, NEW i \in DOMAIN rows, ~SplitRefused(i),
         NEW d \in Day, d = rows[i].date, NEW s \in Symbol, s = rows[i].symbol,
         Class(d, s) = {s}, Held(s) >= 0
  PROVE  /\ DayOpen(i) = Held(s)
         /\ Transformation(i) \in SplitTransformation
<1>1. DayOpen(i) = Held(s)
  <2>1. NamesOn(rows[i].date, rows[i].symbol) = {s}
    BY NamesAreClass
  <2>2. IsFiniteSet({s}) /\ HeldBy({s})[s] = Held(s) /\ Held(s) \in Int
    BY HeldType, SymbolsFinite DEF HeldBy
  <2>3. DayOpen(i) = MapThenSumSet(LAMBDA n : Held(n), {s})
    BY <2>1 DEF DayOpen
  <2>4. MapThenSumSet(LAMBDA n : Held(n), {s}) = SumFunctionOnSet(HeldBy({s}), {s})
    BY <2>2, HeldSum
  <2>5. SumFunctionOnSet(HeldBy({s}), {s}) = HeldBy({s})[s]
    BY <2>2, SumOfOne
  <2> QED
    BY <2>2, <2>3, <2>4, <2>5
<1>2. /\ DayOpen(i) \in Nat
      /\ Event(i).after \in Int /\ Event(i).ratio \in Ratio \cup {NoRatio}
      /\ Resolved(i) => Event(i).ratio \in Ratio
      /\ ExpectedDayClose(i) \in Nat /\ UncorrectedClose(i) \in Int
  <2>1. DayOpen(i) \in Nat
    BY <1>1, HeldType
  <2>2. ~(ExpectedDayClose(i) < 0)
    BY DEF SplitRefused
  <2> QED
    BY <2>1, <2>2, EventType, TransformationType
<1>3. ScaledOpen(i) \in Nat
  <2>1. CASE Resolved(i)
    <3>1. ScaledOpen(i) = scale_quantity(DayOpen(i), Event(i).ratio)
      BY <2>1 DEF ScaledOpen
    <3>2. DayOpen(i) \in Int /\ DayOpen(i) >= 0 /\ Event(i).ratio \in Ratio
      BY <1>2, <2>1
    <3>3. /\ scale_quantity(DayOpen(i), Event(i).ratio) \in Int
          /\ scale_quantity(DayOpen(i), Event(i).ratio) >= 0
      BY <3>2, ScaleNatural
    <3> QED
      BY <3>1, <3>3
  <2>2. CASE ~Resolved(i)
    <3>1. ScaledOpen(i) = Event(i).after /\ Leaves(i) = Event(i).after
      BY <2>2 DEF ScaledOpen, Leaves
    <3>2. ~(Leaves(i) <= 0)
      BY DEF SplitRefused
    <3> QED
      BY <1>2, <3>1, <3>2
  <2> QED
    BY <2>1, <2>2
<1>4. ExpectedDayClose(i) - UncorrectedClose(i) \in Int
  BY <1>2
<1>5. Transformation(i) \in SplitTransformation
  BY <1>2, <1>3, <1>4 DEF Transformation, SplitTransformation
<1> QED
  BY <1>1, <1>5

LEMMA PlanningHands ==
  ASSUME Agreement, Structure', HandOver, PlanStockSplit
  PROVE  HandOver'
<1>1. Structure /\ Typed /\ EndsMerged /\ phase = "plan" /\ phase # "refused"
  BY DEF Agreement, Structure, PlanStockSplit
<1>2. CASE phase' = "refused"
  BY <1>2, HandOverRefused DEF PlanStockSplit
<1>3. CASE phase' # "refused"
  <2>1. PICK i \in DOMAIN rows : i = PlannedRow
    BY <1>1, <1>3, PlannedRowIs
  <2>2. PICK s0 \in Symbol : s0 = PlannedSymbol
    BY <1>1, <1>3, PlannedRowIs
  <2>3. PICK d \in Day : d = row.date
    BY <1>1, RowRead DEF Opened
  <2>4. /\ rows[i].date = d /\ rows[i].symbol = s0 /\ rows[i].action = "STOCK_SPLIT"
        /\ ~SplitRefused(i) /\ ~splits[d][s0].planned
    BY <1>1, <1>3, <2>1, <2>2, <2>3, PlannedRowIs
  <2>5. d \in planned
    BY <1>1, <2>3 DEF Structure, Calendar, Opened
  <2>6. /\ splits' = [splits EXCEPT ![d][s0] = Transformation(i)]
        /\ pool_quantity' = Restated(i)
        /\ UNCHANGED <<rows, next, phase, planned, logs, renames, components>>
    BY <1>3, <2>1, <2>2, <2>3 DEF PlanStockSplit, Refuse, PlannedSymbol, PlannedRow
  <2>7. i \in Pending
    BY <1>1, <2>3, <2>4, <2>5 DEF Pending, Structure, Calendar, RowsOn, Report
  <2>8. Unread' = Unread
    BY <2>6 DEF Pending, Unread
  <2>9. /\ \A e \in Day, n \in Symbol : splits'[e][n] =
             IF e = d /\ n = s0 THEN Transformation(i) ELSE splits[e][n]
        /\ Transformation(i).planned
    BY <1>1, <2>6 DEF Typed, PlansTyped, Transformation
  <2>10. /\ d \in 1 .. LastDay /\ d - 1 \in 0 .. LastDay /\ Day = 1 .. LastDay /\ LastDay \in Nat
         /\ planned \subseteq Day /\ \A p \in planned : p <= d
         /\ \A e \in 1 .. d - 1 : e \in Day /\ e # d
    <3>1. \A p \in planned : p <= d
      BY <1>1, <2>3, <2>7, PendingToday
    <3> QED
      BY <1>1, <3>1, HistoryAssumption DEF Day, Typed, PlaceTyped
  <2>11. \A e \in 0 .. d - 1, n \in Symbol : Replay'[e][n] = Replay[e][n]
    BY <2>6, <2>9, <2>10, ReplaySame
  <2>12. NothingElse' /\ UnrenamedPlans'
    <3>1. NothingElse'
      BY <2>9 DEF HandOver, NothingElse
    <3> QED
      BY <2>6, <3>1 DEF HandOver, UnrenamedPlans, Class, EndName
  <2>13. ASSUME NEW s \in Symbol, NEW e \in planned, Class(e, s)' = {s}, e # d \/ s # s0
         PROVE  /\ e \in Day /\ Class(e, s) = {s} /\ splits'[e][s] = splits[e][s]
                /\ Replay'[e][s] = Replay[e][s] /\ Replay'[e - 1][s] = Replay[e - 1][s]
                /\ ToMove(e, s)' = ToMove(e, s)
    <3>1. Class(e, s) = {s} /\ e \in Day /\ e <= d /\ e \in 0 .. LastDay
      BY <2>6, <2>10, <2>13 DEF Class, EndName
    <3>2. splits'[e][s] = splits[e][s]
      BY <2>9, <2>13, <3>1
    <3>3. e - 1 \in 0 .. d - 1 /\ (e # d => e \in 0 .. d - 1)
      BY <2>10, <3>1
    <3>4. Replay'[e - 1][s] = Replay[e - 1][s]
      BY <2>11, <3>3
    <3>5. Replay'[e][s] = Replay[e][s]
      BY <1>1, <2>6, <2>13, <3>1, <3>2, <3>4, AloneByDay, AloneByDayNext DEF AloneReckons
    <3>6. ToMove(e, s)' = ToMove(e, s)
      <4>1. \A j \in Ahead(e, s) : rows[j].date = e /\ rows[j].symbol = s /\ j \in DOMAIN rows
        BY DEF Ahead, Unread, Pending
      <4>2. \A j \in Ahead(e, s) : j \notin RowsBefore(i)
        <5>1. CASE e # d
          BY <2>4, <4>1, <5>1 DEF RowsBefore, RowsAround, RowsOn
        <5>2. CASE s # s0 /\ e = d
          <6>1. NamesOn(d, s0) = Class(d, s0) /\ Class(d, s) = {s}
            BY <1>1, <3>1, <5>2, NamesAreClass
          <6>2. s \notin NamesOn(d, s0)
            BY <5>2, <6>1 DEF Class
          <6> QED
            BY <2>4, <4>1, <6>2 DEF RowsBefore, RowsAround
        <5> QED
          BY <2>13, <5>1, <5>2
      <4>3. \A j \in Ahead(e, s) : pool_quantity'[j] = pool_quantity[j]
        BY <2>6, <4>1, <4>2 DEF Restated
      <4>4. Ahead(e, s)' = Ahead(e, s) /\ IsFiniteSet(Ahead(e, s))
        BY <1>1, <2>6, <2>8, <3>1, AheadElsewhere DEF Ahead
      <4>5. \A j \in Ahead(e, s) : Moves'[j] = Moves[j]
        BY <2>6, <4>1, <4>3 DEF Moves, Sign
      <4>6. SumFunctionOnSet(Moves', Ahead(e, s)) = SumFunctionOnSet(Moves, Ahead(e, s))
        BY <4>4, <4>5, SumSame
      <4> QED
        BY <4>4, <4>6 DEF ToMove
    <3> QED
      BY <3>1, <3>2, <3>4, <3>5, <3>6
  <2>14. ASSUME Class(d, s0) = {s0}
         PROVE  /\ Replay'[d - 1][s0] = Replay[d - 1][s0]
                /\ Held(s0) = Replay[d - 1][s0]
                /\ Replay'[d][s0] + ToMove(d, s0)' = ExpectedDayClose(i)
    <3>1. Class(d, s0)' = {s0} /\ d - 1 \in 0 .. d - 1 /\ Quiet(logs[d][s0])
      BY <1>1, <2>3, <2>6, <2>10, <2>14 DEF Class, EndName, Structure, DaysAheadBlank, NothingRead
    <3>2. Replay[d - 1][s0] \in Int /\ Replay'[d - 1][s0] = Replay[d - 1][s0]
      BY <1>1, <2>10, <2>11, <3>1, ReplayType
    <3>3. Held(s0) = Replay[d - 1][s0]
      <4>1. Held(s0) = Counted(d)[s0]
        BY <1>1, <2>3, <2>7 DEF Agreement, AtOpening
      <4>2. Held(s0) = Carried(splits[d][s0], logs[d][s0], Replay[d - 1][s0])
        BY <4>1 DEF Counted
      <4> QED
        BY <2>4, <3>1, <3>2, <4>2 DEF Carried, Quiet
    <3>4. /\ ToMove(d, s0)' = SignedQuantity(RowsAround(i), Restated(i))
          /\ SignedQuantity(RowsAround(i), Restated(i)) \in Int
      BY <1>1, <2>3, <2>4, <2>5, <2>6, <2>14, AheadRestated
    <3>5. Replay'[d][s0] = OpensAt(i)
      <4>1. Replay'[d][s0] = Carried(splits'[d][s0], logs'[d][s0], Replay'[d - 1][s0])
        BY <3>1, AloneByDayNext DEF AloneReckons
      <4>2. Replay'[d][s0] = Carried(Transformation(i), logs[d][s0], Replay[d - 1][s0])
        BY <2>6, <2>9, <3>2, <4>1
      <4>3. OpensAt(i) \in Int
        BY <1>1, <2>4, TransformationType
      <4> QED
        BY <2>9, <3>1, <4>2, <4>3 DEF Carried, Quiet, OpensAt
    <3>6. /\ ScaledOpen(i) \in Int /\ UncorrectedClose(i) \in Int /\ ExpectedDayClose(i) \in Int
      BY <1>1, <2>4, TransformationType
    <3>7. UncorrectedClose(i) = ScaledOpen(i) + SignedQuantity(RowsAround(i), Restated(i))
      BY DEF UncorrectedClose
    <3>8. OpensAt(i) = ScaledOpen(i) + (ExpectedDayClose(i) - UncorrectedClose(i))
      BY DEF OpensAt, Transformation
    <3> QED
      BY <3>2, <3>3, <3>4, <3>5, <3>6, <3>7, <3>8
  <2>15. ASSUME NEW s \in Symbol, NEW e \in planned, Class(e, s)' = {s}
         PROVE  PlanMet(e, s)'
    <3>1. CASE e # d \/ s # s0
      <4>1. Class(e, s) = {s} /\ e \in Day
        BY <2>13, <2>15, <3>1
      <4>2. PlanMet(e, s)
        BY <1>1, <4>1 DEF HandOver, PlansMet
      <4> QED
        BY <2>13, <2>15, <3>1, <4>1, <4>2, PlanMetStays
    <3>2. CASE e = d /\ s = s0
      <4>1. Class(d, s0) = {s0}
        BY <2>6, <2>15, <3>2 DEF Class, EndName
      <4>2. splits'[d][s0] = Transformation(i) /\ Transformation(i).day_close = ExpectedDayClose(i)
        BY <2>9 DEF Transformation
      <4>3. Replay'[d][s0] + ToMove(d, s0)' = ExpectedDayClose(i)
        BY <2>14, <4>1
      <4>4. PlanMet(d, s0)'
        BY <4>2, <4>3 DEF PlanMet
      <4> QED
        BY <3>2, <4>4
    <3> QED
      BY <3>1, <3>2
  <2>16. ASSUME NEW s \in Symbol, Alone(s)', NEW e \in planned
         PROVE  DayAccepted(e, s)'
    <3>1. Alone(s) /\ Class(e, s)' = {s} /\ e \in Day
      BY <2>6, <2>10, <2>16 DEF Alone, Class, EndName
    <3>2. \A p \in planned : DayAccepted(p, s)
      BY <1>1, <3>1 DEF HandOver, DaysAccepted
    <3>3. CASE e # d \/ s # s0
      BY <2>13, <3>1, <3>2, <3>3, AcceptedStays
    <3>4. CASE e = d /\ s = s0
      <4>1. Class(d, s0) = {s0}
        BY <3>1, <3>4 DEF Alone
      <4>2. Held(s0) = Replay[d - 1][s0] /\ Replay'[d - 1][s0] = Replay[d - 1][s0]
        BY <2>14, <4>1
      <4>3. Held(s0) >= 0
        <5>1. ASSUME NEW p \in planned, p <= d - 1
              PROVE  Replay[p][s] >= 0
          <6>1. p \in Day /\ p # d /\ Class(p, s) = {s}
            BY <2>10, <3>1, <5>1 DEF Alone
          <6>2. Ahead(p, s) = {} /\ PlanMet(p, s)
            BY <1>1, <2>3, <6>1, AheadElsewhere DEF HandOver, PlansMet
          <6> QED
            BY <1>1, <3>2, <6>1, <6>2, AcceptedCloses
        <5>2. \A p \in 0 .. d - 1 : Replay[p][s] >= 0
          BY <1>1, <2>10, <3>1, <5>1, NeverShort
        <5> QED
          BY <2>10, <3>4, <4>2, <5>2
      <4>4. DayOpen(i) = Held(s0) /\ Transformation(i) \in SplitTransformation
        BY <1>1, <2>4, <4>1, <4>3, PlanIsWhole
      <4>5. splits'[d][s0] = Transformation(i) /\ Transformation(i).day_open = DayOpen(i)
        BY <2>9 DEF Transformation
      <4>6. DayAccepted(d, s0)'
        BY <2>9, <4>2, <4>4, <4>5 DEF DayAccepted
      <4> QED
        BY <3>4, <4>6
    <3> QED
      BY <3>3, <3>4
  <2>17. DaysAccepted' /\ PlansMet'
    BY <2>6, <2>15, <2>16 DEF DaysAccepted, PlansMet
  <2> QED
    BY <2>12, <2>17 DEF HandOver
<1> QED
  BY <1>2, <1>3

\* A day's plan leaves a ticker its renames do not touch as it was.
LEMMA OpeningUnrenamed ==
  ASSUME Structure, OpenTransactionDay, DayOpens, NEW s \in Symbol, DayClass(s) = {s}
  PROVE  components'[row.date][s].capacity = 0
<1> DEFINE d == row.date
           pairs == RenamePairs(RowsOn(d))
           renamed == UNION {{p[1], p[2]} : p \in pairs}
           fresh == [n \in Symbol |->
                       IF n \in renamed THEN Component(d, ConnectedNames(pairs, n), n)
                       ELSE components[d][n]]
<1>1. d \in Day \ planned /\ phase' = "plan"
  BY DEF DayOpens
<1>2. components[d][s].capacity = 0
  BY <1>1 DEF Structure, DaysAheadBlank, DaysBlank, Blank
<1>3. components' = [components EXCEPT ![d] = fresh] /\ ~RenamesConflict(pairs)
  BY <1>1 DEF OpenTransactionDay, Refuse
<1>4. \A p \in pairs : p[1] \in Symbol /\ p[2] \in Symbol /\ p = <<p[1], p[2]>>
  BY RowType DEF RenamePairs, RowsOn, Structure, Typed, PlaceTyped, Row
<1>5. DayNames = EndsBy(pairs)
  BY DEF DayNames
<1> HIDE DEF pairs
<1>6. /\ \A p \in pairs : EndsBy(pairs)[p[1]] = p[2]
      /\ \A n \in Symbol : EndsBy(pairs)[EndsBy(pairs)[n]] = EndsBy(pairs)[n]
  BY <1>3, <1>4, EndsByRenames
<1>7. \A p \in pairs : p[1] # p[2]
  BY <1>3 DEF RenamesConflict
<1>8. s \notin renamed
  <2> SUFFICES ASSUME NEW p \in pairs, s \in {p[1], p[2]}
               PROVE  FALSE
    OBVIOUS
  <2>1. DayNames[p[1]] = p[2] /\ DayNames[p[2]] = p[2]
    BY <1>4, <1>5, <1>6
  <2>2. p[1] \in DayClass(s) /\ p[2] \in DayClass(s)
    BY <1>4, <2>1 DEF DayClass
  <2> QED
    BY <1>7, <2>2
<1>9. components'[d][s] = fresh[s]
  BY <1>1, <1>3 DEF Structure, Typed, PlansTyped
<1> QED
  BY <1>2, <1>8, <1>9

LEMMA OpeningHands ==
  ASSUME Agreement, Structure', HandOver, OpenTransactionDay
  PROVE  HandOver'
<1>1. Structure /\ Typed
  BY DEF Agreement, Structure
<1>2. CASE Refuse("rename")
  BY <1>2, HandOverRefused
<1>3. CASE DayOpens
  <2>1. PICK d \in Day : d = row.date
    BY <1>3 DEF DayOpens
  <2>2. /\ phase = "open" /\ phase' = "plan" /\ d \notin planned /\ phase # "refused"
        /\ planned' = planned \cup {d}
        /\ UNCHANGED <<rows, next, pool_quantity, logs, splits>>
    BY <1>3, <2>1 DEF DayOpens
  <2>3. /\ \A e \in Day, n \in Symbol :
             renames'[e][n] = IF e = d THEN DayNames[n] ELSE renames[e][n]
        /\ \A e \in Day, n \in Symbol :
             Class(e, n)' = IF e = d THEN DayClass(n) ELSE Class(e, n)
        /\ \A p \in planned : p < d
    BY <1>1, <1>3, <2>1, DayOpensPlaces
  <2>4. Pending = {} /\ \A j \in Pending' : rows[j].date = d
    BY <1>1, <1>3, <2>1, NothingPending DEF RowsOn
  <2>5. /\ d \in 1 .. LastDay /\ d - 1 \in 0 .. LastDay /\ Day = 1 .. LastDay /\ LastDay \in Nat
        /\ planned \subseteq Day /\ \A p \in planned : p <= d - 1 /\ p \in 0 .. d - 1 /\ p - 1 \in 0 .. d - 1
        /\ \A e \in 1 .. d - 1 : e \in Day /\ e # d
    BY <1>1, <2>3, HistoryAssumption DEF Day, Typed, PlaceTyped
  <2>6. \A e \in 0 .. d - 1, n \in Symbol : Replay'[e][n] = Replay[e][n]
    BY <2>2, <2>3, <2>5, ReplaySame
  <2>7. NothingElse'
    BY <2>2 DEF HandOver, NothingElse
  <2>8. UnrenamedPlans'
    <3> SUFFICES ASSUME NEW e \in Day, NEW s \in Symbol, Class(e, s)' = {s}
                 PROVE  components'[e][s].capacity = 0
      BY DEF UnrenamedPlans
    <3>1. CASE e = d
      BY <1>1, <1>3, <2>1, <2>3, <3>1, OpeningUnrenamed
    <3>2. CASE e # d
      <4>1. components'[e][s] = components[e][s]
        BY <1>3, <2>1, <3>2 DEF DayOpens
      <4> QED
        BY <2>3, <3>2, <4>1 DEF HandOver, UnrenamedPlans
    <3> QED
      BY <3>1, <3>2
  <2>9. ASSUME NEW s \in Symbol, Alone(s)', NEW e \in planned'
        PROVE  DayAccepted(e, s)'
    <3>1. Alone(s)
      <4> SUFFICES ASSUME NEW p \in Day
                   PROVE  Class(p, s) = {s}
        BY DEF Alone
      <4>1. CASE p = d
        <5>1. \A n \in Symbol : renames[d][n] = n
          BY <1>1, <2>2 DEF Structure, DaysAheadBlank, DaysBlank, Blank
        <5> QED
          BY <4>1, <5>1 DEF Class, EndName
      <4>2. CASE p # d
        <5>1. Class(p, s)' = Class(p, s)
          BY <2>3, <4>2
        <5>2. Class(p, s)' = {s}
          BY <2>9 DEF Alone
        <5> QED
          BY <5>1, <5>2
      <4> QED
        BY <4>1, <4>2
    <3>2. \A p \in planned : DayAccepted(p, s) /\ PlanMet(p, s) /\ Ahead(p, s) = {}
      <4>1. \A p \in planned : Ahead(p, s) = {} /\ Class(p, s) = {s}
        BY <1>1, <2>4, <2>5, <3>1, AheadElsewhere DEF Alone
      <4> QED
        BY <2>2, <3>1, <4>1 DEF HandOver, DaysAccepted, PlansMet
    <3>3. CASE e # d
      <4>1. e \in planned /\ e \in Day
        BY <2>2, <2>5, <3>3
      <4>2. Replay'[e][s] = Replay[e][s] /\ Replay'[e - 1][s] = Replay[e - 1][s]
        BY <2>5, <2>6, <4>1
      <4>3. splits'[e][s] = splits[e][s] /\ DayAccepted(e, s)
        BY <2>2, <3>2, <4>1
      <4> QED
        BY <4>1, <4>2, <4>3, AcceptedStays
    <3>4. CASE e = d
      <4>1. ~splits'[d][s].planned /\ Quiet(logs[d][s])
        BY <1>1, <2>2 DEF Structure, DaysAheadBlank, DaysBlank, Blank
      <4>2. Replay[d - 1][s] >= 0 /\ Replay[d - 1][s] \in Int
        <5>1. ASSUME NEW p \in planned
              PROVE  Replay[p][s] >= 0
          BY <1>1, <2>5, <3>2, AcceptedCloses
        <5>2. \A p \in 0 .. d - 1 : Replay[p][s] >= 0
          BY <1>1, <2>5, <3>1, <5>1, NeverShort
        <5> QED
          BY <1>1, <2>5, <5>2, ReplayType
      <4>3. Replay'[d - 1][s] = Replay[d - 1][s]
        BY <2>5, <2>6
      <4>4. Replay'[d][s] = Carried(splits'[d][s], logs'[d][s], Replay'[d - 1][s])
        BY <2>9, AloneByDayNext DEF AloneReckons, Alone
      <4>5. Replay'[d][s] = Carried(splits'[d][s], logs[d][s], Replay[d - 1][s])
        BY <2>2, <4>3, <4>4
      <4>6. Replay'[d][s] >= 0
        BY <4>1, <4>2, <4>5 DEF Carried, Quiet
      <4> QED
        BY <3>4, <4>1, <4>6 DEF DayAccepted
    <3> QED
      BY <3>3, <3>4
  <2>10. ASSUME NEW s \in Symbol, NEW e \in planned', Class(e, s)' = {s}
         PROVE  PlanMet(e, s)'
    <3>1. CASE e # d
      <4>1. e \in planned /\ e \in Day /\ Class(e, s) = {s}
        BY <2>2, <2>3, <2>5, <2>10, <3>1
      <4>2. Ahead(e, s) = {} /\ Ahead(e, s)' = {}
        <5>1. Unread' \subseteq Pending'
          BY DEF Unread
        <5>2. Ahead(e, s)' = {}
          BY <2>2, <2>4, <3>1, <5>1 DEF Ahead
        <5> QED
          BY <1>1, <2>4, <4>1, <5>2, AheadElsewhere
      <4>3. ToMove(e, s) = 0 /\ ToMove(e, s)' = 0
        BY <4>2, SumOfNone DEF ToMove
      <4>4. Replay'[e][s] = Replay[e][s]
        BY <2>5, <2>6, <4>1
      <4>5. splits'[e][s] = splits[e][s] /\ PlanMet(e, s)
        BY <2>2, <4>1 DEF HandOver, PlansMet
      <4> QED
        BY <4>1, <4>3, <4>4, <4>5, PlanMetStays
    <3>2. CASE e = d
      <4>1. ~splits'[d][s].planned
        BY <1>1, <2>2 DEF Structure, DaysAheadBlank, DaysBlank, Blank
      <4> QED
        BY <3>2, <4>1 DEF PlanMet
    <3> QED
      BY <3>1, <3>2
  <2>11. DaysAccepted' /\ PlansMet'
    BY <2>9, <2>10 DEF DaysAccepted, PlansMet
  <2> QED
    BY <2>7, <2>8, <2>11 DEF HandOver
<1> QED
  BY <1>1, <1>2, <1>3, OpeningDay

LEMMA StepHands == Agreement /\ HandOver /\ [Next]_vars => HandOver'
<1> SUFFICES ASSUME Agreement, HandOver, [Next]_vars
             PROVE  HandOver'
  OBVIOUS
<1>1. Structure /\ Structure' /\ Typed
  BY StepStructure DEF Agreement, Structure
<1>2. CASE AddAcquisition \/ AddDisposal \/ AddTransferToSpouse \/ AddGift
           \/ AddManagementFee \/ PassOver
  BY <1>1, <1>2, HandlersMove, MovingHands, HandOverRefused
<1>3. CASE AddRename
  BY <1>1, <1>3, AddRenameMoves, RenamingHands
<1>4. CASE RefuseOther
  BY <1>4, HandOverRefused DEF RefuseOther
<1> QED
  BY <1>1, <1>2, <1>3, <1>4, OpeningHands, PlanningHands, EndsHand, PassingHands,
     StutterHand DEF Next

\* One day of the count History keeps.
CloseAfter(records, d, opening) ==
  IF d = 0 THEN 0 ELSE Capacity(records[d], opening) - SameDayClaims(records[d])

\* There is one count that follows a history's records.
LEMMA HoldingIs ==
  ASSUME NEW records, NEW f, f = [d \in 0 .. LastDay |-> CloseAfter(records, d, f[d - 1])]
  PROVE  \A d \in 0 .. LastDay : Holding(records)[d] = f[d]
<1> DEFINE Follows(g) == g = [d \in 0 .. LastDay |-> CloseAfter(records, d, g[d - 1])]
           close == Holding(records)
<1>1. LastDay \in Nat
  BY HistoryAssumption
<1>2. close = CHOOSE g : Follows(g)
  BY Zenon DEF Holding, CloseAfter
<1>3. Follows(close)
  <2>1. Follows(f)
    OBVIOUS
  <2> HIDE DEF Follows, close
  <2> QED
    BY <1>2, <2>1
<1> DEFINE T == {n \in Nat : n <= LastDay => close[n] = f[n]}
<1> HIDE DEF close
<1>4. 0 \in T
  <2>1. f[0] = 0 /\ close[0] = 0
    BY <1>1, <1>3 DEF CloseAfter
  <2> QED
    BY <2>1
<1>5. ASSUME NEW n \in Nat, n \in T
      PROVE  n + 1 \in T
  <2> SUFFICES ASSUME n + 1 <= LastDay
               PROVE  close[n + 1] = f[n + 1]
    OBVIOUS
  <2>1. n + 1 \in 0 .. LastDay /\ (n + 1) - 1 = n /\ close[n] = f[n]
    BY <1>1, <1>5
  <2>2. /\ f[n + 1] = CloseAfter(records, n + 1, f[n])
        /\ close[n + 1] = CloseAfter(records, n + 1, close[n])
    BY <1>3, <2>1
  <2> QED
    BY <2>1, <2>2
<1> HIDE DEF T
<1>6. \A n \in Nat : n \in T
  BY <1>4, <1>5, NaturalsBySteps
<1> QED
  BY <1>1, <1>6 DEF T, close

\* The history handed over counts what the walk rebuilds.
LEMMA HandedHolding ==
  ASSUME Structure, NEW s \in Symbol, Alone(s)
  PROVE  \A d \in 0 .. LastDay : Holding(HandedOver(s))[d] = Replay[d][s]
<1> DEFINE records == HandedOver(s)
           f == [d \in 0 .. LastDay |-> Replay[d][s]]
<1>1. LastDay \in Nat /\ Day = 1 .. LastDay /\ Typed
  BY HistoryAssumption DEF Day, Structure
<1>2. ASSUME NEW d \in 0 .. LastDay
      PROVE  Replay[d][s] = CloseAfter(records, d, f[d - 1])
  <2>1. CASE d = 0
    BY <2>1, ReplayByDay DEF CloseAfter
  <2>2. CASE d # 0
    <3>1. d \in Day /\ d - 1 \in 0 .. LastDay /\ f[d - 1] = Replay[d - 1][s]
      BY <1>1, <2>2
    <3>2. Replay[d][s] = Carried(splits[d][s], logs[d][s], Replay[d - 1][s])
      BY <3>1, AloneByDay DEF AloneReckons, Alone
    <3>3. /\ logs[d][s].acquired \in Int /\ logs[d][s].disposed \in Int
          /\ logs[d][s].transferred \in Int /\ Replay[d - 1][s] \in Int
          /\ splits[d][s].scaled_open \in Int /\ splits[d][s].delta \in Int
      <4>1. logs[d][s] \in Log /\ splits[d][s] \in Planned
        BY <1>1, <3>1 DEF Typed, RecordsTyped, PlansTyped
      <4> QED
        BY <1>1, <3>1, <4>1, ReplayType DEF Log, Planned
    <3>4. /\ records[d].purchased.quantity = logs[d][s].acquired
          /\ records[d].reorganised.quantity = 0
          /\ records[d].disposed.quantity = logs[d][s].disposed
          /\ records[d].transferred = logs[d][s].transferred
          /\ records[d].split = splits[d][s]
      BY <3>1 DEF HandedOver
    <3> HIDE DEF records, f
    <3>5. CloseAfter(records, d, f[d - 1])
            = Capacity(records[d], Replay[d - 1][s]) - SameDayClaims(records[d])
      BY <2>2, <3>1 DEF CloseAfter
    <3> QED
      BY <3>2, <3>3, <3>4, <3>5
      DEF Carried, Capacity, AfterReorganisation, TotalQuantity, SameDayClaims
  <2> QED
    BY <2>1, <2>2
<1> HIDE DEF records
<1>3. f = [d \in 0 .. LastDay |-> CloseAfter(records, d, f[d - 1])]
  BY <1>2
<1>4. \A d \in 0 .. LastDay : f[d] = Replay[d][s]
  OBVIOUS
<1> HIDE DEF f
<1>5. \A d \in 0 .. LastDay : Holding(records)[d] = f[d]
  BY <1>3, HoldingIs
<1> QED
  BY <1>4, <1>5 DEF records

\* Once the rows are read, every accepted day is a day of an accepted history.
LEMMA HandsOver == Agreement /\ HandOver => HandsOverAcceptedHistory
<1> SUFFICES ASSUME Agreement, HandOver, phase = "ingested", NEW s \in Symbol,
                    \A d \in Day : NamesOn(d, s) = {s}
             PROVE  HandedOver(s) \in PreparedHistory /\ Accepted(HandedOver(s))
  BY DEF HandsOverAcceptedHistory
<1>1. Structure /\ Typed /\ EndsMerged /\ phase # "refused"
  BY DEF Agreement, Structure
<1>2. /\ LastDay \in Nat /\ Day = 1 .. LastDay /\ LastDay \in 0 .. LastDay
      /\ planned \subseteq Day
  BY <1>1, HistoryAssumption DEF Day, Typed, PlaceTyped
<1>3. Alone(s)
  BY <1>1, NamesAreClass DEF Alone
<1>4. Pending = {}
  <2> SUFFICES ASSUME Pending # {}
               PROVE  FALSE
    OBVIOUS
  <2>1. next <= Len(rows) /\ next > Len(rows) /\ next \in Int /\ Len(rows) \in Int
    BY <1>1, PendingToday, RowType DEF Structure, Calendar, Typed, PlaceTyped
  <2> QED
    BY <2>1
<1>5. \A d \in planned : DayAccepted(d, s) /\ PlanMet(d, s) /\ Ahead(d, s) = {}
  <2>1. \A d \in planned : Ahead(d, s) = {} /\ Class(d, s) = {s}
    BY <1>1, <1>2, <1>3, <1>4, AheadElsewhere DEF Alone
  <2> QED
    BY <1>1, <1>3, <2>1 DEF HandOver, DaysAccepted, PlansMet
<1>6. \A d \in planned :
        Replay[d][s] >= 0 /\ (splits[d][s].planned => splits[d][s].day_close = Replay[d][s])
  BY <1>1, <1>2, <1>5, AcceptedCloses
<1>7. \A d \in 0 .. LastDay : Replay[d][s] >= 0
  BY <1>1, <1>2, <1>3, <1>6, NeverShort
<1>8. \A d \in Day : splits[d][s].planned =>
        /\ d \in planned
        /\ splits[d][s] \in SplitTransformation
        /\ splits[d][s].day_open = Replay[d - 1][s]
        /\ splits[d][s].day_close = Replay[d][s]
  <2> SUFFICES ASSUME NEW d \in Day, splits[d][s].planned
               PROVE  /\ d \in planned
                      /\ splits[d][s] \in SplitTransformation
                      /\ splits[d][s].day_open = Replay[d - 1][s]
                      /\ splits[d][s].day_close = Replay[d][s]
    OBVIOUS
  <2>1. d \in planned
    BY <1>1 DEF Structure, DaysAheadBlank, DaysBlank, Blank
  <2> QED
    BY <1>5, <1>6, <2>1 DEF DayAccepted
<1>9. \A d \in Day : HandedOver(s)[d].split = splits[d][s]
  BY DEF HandedOver
<1>10. \A d \in Day : d \in 0 .. LastDay /\ d - 1 \in 0 .. LastDay
  BY <1>2
<1>11. Accepted(HandedOver(s))
  <2> DEFINE close == Holding(HandedOver(s))
  <2>1. \A d \in 0 .. LastDay : close[d] = Replay[d][s]
    BY <1>1, <1>3, HandedHolding
  <2> HIDE DEF close
  <2>2. \A d \in Day :
          /\ close[d] >= 0
          /\ splits[d][s].planned =>
               splits[d][s].day_open = close[d - 1] /\ splits[d][s].day_close = close[d]
    BY <1>7, <1>8, <1>10, <2>1
  <2> QED
    BY <1>9, <2>2 DEF Accepted, close
<1>12. HandedOver(s) \in PreparedHistory
  <2> SUFFICES ASSUME NEW d \in Day
               PROVE  HandedOver(s)[d] \in DayRecord
    BY DEF PreparedHistory, HandedOver
  <2>1. /\ logs[d][s].acquired \in Nat /\ logs[d][s].disposed \in Nat
        /\ logs[d][s].transferred \in Nat /\ logs[d][s].eri \in Nat
    BY <1>1 DEF Typed, RecordsTyped, Log
  <2>2. splits[d][s] \in {NoSplit} \cup SplitTransformation
    BY <1>8 DEF HandOver, NothingElse
  <2> DEFINE kind == IF logs[d][s].gift = "connected" THEN "gift"
                     ELSE IF logs[d][s].gift = "unconnected" /\ ~logs[d][s].sale_day
                       THEN "gift-unconnected" ELSE "sell"
  <2>3. kind \in DisposalKind
    BY DEF DisposalKind
  <2>4. HandedOver(s)[d] =
          [purchased |-> [quantity |-> logs[d][s].acquired, amount |-> 0],
           reorganised |-> [quantity |-> 0, amount |-> 0], cost_only |-> 0,
           disposed |-> [quantity |-> logs[d][s].disposed, amount |-> 0, kind |-> kind],
           transferred |-> logs[d][s].transferred, eri |-> logs[d][s].eri,
           split |-> splits[d][s]]
    BY DEF HandedOver
  <2> HIDE DEF kind
  <2> QED
    BY <2>1, <2>2, <2>3, <2>4 DEF DayRecord
<1> QED
  BY <1>11, <1>12

(***************************************************************************)
(* What the first pass hands over about a holding that is never renamed is *)
(* a history the matching walk may be given: no day of it gives up more    *)
(* than it holds, and each reorganisation opens with what the day before   *)
(* closed with and closes on the count prepare_history recorded for it.    *)
(* The Matcher module, and every theorem about it, starts from such a      *)
(* history.                                                                *)
(***************************************************************************)
THEOREM HandsOverAlways == Spec => []HandsOverAcceptedHistory
<1>1. Init => Agreement /\ HandOver
  BY InitAgrees, InitHandOver
<1>2. Agreement /\ HandOver /\ [Next]_vars => (Agreement /\ HandOver)'
  BY StepAgrees, StepHands
<1>3. Agreement /\ HandOver => HandsOverAcceptedHistory
  BY HandsOver
<1> QED
  BY <1>1, <1>2, <1>3, PTL DEF Spec

----------------------------------------------------------------------------
(***************************************************************************)
(* The broker's count.  A plan is made once, of rows nothing has restated  *)
(* yet; the close it states is the broker's count after the event and what *)
(* the rows after it move, as the broker stated them.                      *)
(***************************************************************************)
Stated == [i \in DOMAIN rows |-> Sign(i) * rows[i].quantity]
CountStated(indices) == SumFunctionOnSet(Stated, indices)
RowsAfter(i) == RowsAround(i) \ RowsBefore(i)

CountBefore(i) == splits[rows[i].date][rows[i].symbol].day_open + CountStated(RowsBefore(i))
CountAfter(i) ==
  IF rows[i].source = "paired" THEN rows[i].event.after ELSE CountBefore(i) + rows[i].quantity
BrokerCounted(i) ==
  /\ splits[rows[i].date][rows[i].symbol].ratio # NoRatio
  /\ rows[i].source = "paired" => rows[i].event.before = CountBefore(i)
ClosesAsCounted(i) ==
  BrokerCounted(i) =>
    splits[rows[i].date][rows[i].symbol].day_close = CountAfter(i) + CountStated(RowsAfter(i))

OnItsOwn(i) ==
  /\ Class(rows[i].date, rows[i].symbol) = {rows[i].symbol}
  /\ SplitRowsOn(rows[i].date, rows[i].symbol) = {i}
Untouched(j) ==
  /\ Class(rows[j].date, rows[j].symbol) = {rows[j].symbol}
  /\ ~splits[rows[j].date][rows[j].symbol].planned
  => pool_quantity[j] = rows[j].quantity
AllPlanned ==
  \A d \in planned, s \in Symbol :
    SplitRowsOn(d, s) # {} /\ ~splits[d][s].planned => phase = "plan" /\ d = row.date

PlansCounted ==
  phase # "refused" =>
    /\ AllPlanned
    /\ \A j \in DOMAIN rows : Untouched(j)
    /\ \A i \in DOMAIN rows :
         OnItsOwn(i) /\ splits[rows[i].date][rows[i].symbol].planned => ClosesAsCounted(i)

LEMMA StatedIs ==
  ASSUME Typed, NEW T \in SUBSET DOMAIN rows
  PROVE  StatedUnits(T) = CountStated(T) /\ CountStated(T) \in Int
<1>1. IsFiniteSet(T) /\ rows \in Ledgers
  BY RowsFinite DEF Typed, PlaceTyped
<1>2. StatedUnits(T) = SumFunctionOnSet(StatedBy(T), T)
  BY <1>1, StatedSum
<1>3. \A i \in T : StatedBy(T)[i] = Stated[i]
  BY DEF StatedBy, Stated
<1>4. SumFunctionOnSet(StatedBy(T), T) = SumFunctionOnSet(Stated, T)
  BY <1>1, <1>3, SumSame
<1>5. StatedUnits(T) \in Int
  BY <1>1, StatedType
<1> QED
  BY <1>2, <1>4, <1>5 DEF CountStated

\* What a row's plan is counted from depends on its own day alone.
LEMMA CountsStay ==
  ASSUME Typed, NEW i \in DOMAIN rows, rows' = rows,
         \A n \in Symbol : renames'[rows[i].date][n] = renames[rows[i].date][n],
         splits'[rows[i].date][rows[i].symbol] = splits[rows[i].date][rows[i].symbol]
  PROVE  /\ OnItsOwn(i)' <=> OnItsOwn(i)
         /\ ClosesAsCounted(i)' <=> ClosesAsCounted(i)
<1> DEFINE d == rows[i].date
           s == rows[i].symbol
<1>1. d \in Day /\ s \in Symbol /\ d' = d /\ s' = s
  BY RowPlace
<1>2. Class(d, s)' = Class(d, s)
  BY <1>1 DEF Class, EndName
<1>3. SplitRowsOn(d, s)' = SplitRowsOn(d, s)
  BY DEF SplitRowsOn, RowsOn
<1>4. NamesOn(d, s)' = NamesOn(d, s)
  <2>1. {<<n, renames'[d][n]>> : n \in Symbol} = {<<n, renames[d][n]>> : n \in Symbol}
    BY <1>1
  <2> QED
    BY <2>1 DEF NamesOn, EndName
<1>5. RowsAround(i)' = RowsAround(i)
  BY <1>4 DEF RowsAround, RowsOn, Sign
<1>6. RowsBefore(i)' = RowsBefore(i)
  BY <1>5 DEF RowsBefore, RelativeToSplit
<1>7. Stated' = Stated
  BY DEF Stated, Sign
<1>8. /\ CountStated(RowsBefore(i))' = CountStated(RowsBefore(i))
      /\ CountStated(RowsAfter(i))' = CountStated(RowsAfter(i))
  BY <1>5, <1>6, <1>7 DEF CountStated, RowsAfter
<1>9. CountBefore(i)' = CountBefore(i) /\ CountAfter(i)' = CountAfter(i)
  BY <1>8 DEF CountBefore, CountAfter
<1>10. OnItsOwn(i)' <=> OnItsOwn(i)
  BY <1>1, <1>2, <1>3 DEF OnItsOwn
<1> QED
  BY <1>8, <1>9, <1>10 DEF ClosesAsCounted, BrokerCounted

LEMMA PlansCountedStay ==
  ASSUME Typed, PlansCounted, phase # "refused",
         UNCHANGED <<rows, planned, pool_quantity, renames, splits>>,
         \/ UNCHANGED <<phase, next>>
         \/ phase = "plan" => Unplanned = {}
  PROVE  PlansCounted'
<1>1. AllPlanned'
  <2>1. CASE UNCHANGED <<phase, next>>
    BY <2>1 DEF PlansCounted, AllPlanned, SplitRowsOn, RowsOn, row
  <2>2. CASE phase = "plan" => Unplanned = {}
    <3>1. ASSUME NEW d \in planned, NEW s \in Symbol
          PROVE  ~(SplitRowsOn(d, s) # {} /\ ~splits[d][s].planned)
      <4>1. CASE phase = "plan" /\ d = row.date
        BY <2>2, <4>1 DEF Unplanned
      <4>2. CASE ~(phase = "plan" /\ d = row.date)
        BY <3>1, <4>2 DEF PlansCounted, AllPlanned
      <4> QED
        BY <4>1, <4>2
    <3> QED
      BY <3>1 DEF AllPlanned, SplitRowsOn, RowsOn
  <2> QED
    BY <2>1, <2>2
<1>2. \A j \in DOMAIN rows : Untouched(j)'
  BY DEF PlansCounted, Untouched, Class, EndName
<1>3. ASSUME NEW i \in DOMAIN rows, OnItsOwn(i)',
             splits[rows[i].date][rows[i].symbol].planned
      PROVE  ClosesAsCounted(i)'
  BY <1>3, CountsStay DEF PlansCounted
<1> QED
  BY <1>1, <1>2, <1>3 DEF PlansCounted

LEMMA PlansCountedRefused ==
  ASSUME NEW reason, Refuse(reason)
  PROVE  PlansCounted'
BY DEF PlansCounted, Refuse

LEMMA InitPlansCounted == Init => PlansCounted
<1> SUFFICES ASSUME Init
             PROVE  PlansCounted
  OBVIOUS
<1>1. AllPlanned
  BY DEF Init, AllPlanned
<1>2. \A j \in DOMAIN rows : pool_quantity[j] = rows[j].quantity
  BY RowType DEF Init
<1>3. \A i \in DOMAIN rows : ~splits[rows[i].date][rows[i].symbol].planned
  BY InitTyped, RowPlace DEF Init, NoSplit
<1> QED
  BY <1>1, <1>2, <1>3 DEF PlansCounted, Untouched

\* Before its day is planned a row is in no class but its own ticker's.
LEMMA OpeningCounted ==
  ASSUME Structure, PlansCounted, DayOpens
  PROVE  PlansCounted'
<1> DEFINE today == row.date
<1>1. /\ Typed /\ today \in Day \ planned /\ planned' = planned \cup {today}
      /\ phase = "open" /\ phase' = "plan"
      /\ UNCHANGED <<rows, next, pool_quantity, splits>> /\ row' = row
  BY DEF DayOpens, Structure, row
<1>2. \A d \in Day, n \in Symbol : renames'[d][n] = IF d = today THEN DayNames[n] ELSE renames[d][n]
  BY DayOpensPlaces
<1>3. \A n \in Symbol : ~splits[today][n].planned /\ renames[today][n] = n
  BY <1>1 DEF Structure, DaysAheadBlank, DaysBlank, Blank
<1>4. \A n \in Symbol : Class(today, n) = {n}
  BY <1>3 DEF Class, EndName
<1>5. AllPlanned'
  <2> SUFFICES ASSUME NEW d \in planned \cup {today}, NEW s \in Symbol,
                      SplitRowsOn(d, s) # {}, ~splits[d][s].planned
               PROVE  d = today
    BY <1>1 DEF AllPlanned, SplitRowsOn, RowsOn
  <2> QED
    BY <1>1 DEF PlansCounted, AllPlanned
<1>6. ASSUME NEW j \in DOMAIN rows
      PROVE  Untouched(j)'
  <2>1. rows[j].date \in Day /\ rows[j].symbol \in Symbol /\ Untouched(j)
    BY <1>1, RowPlace DEF PlansCounted
  <2>2. CASE rows[j].date = today
    BY <1>1, <1>3, <1>4, <2>1, <2>2 DEF Untouched
  <2>3. CASE rows[j].date # today
    <3>1. Class(rows[j].date, rows[j].symbol)' = Class(rows[j].date, rows[j].symbol)
      BY <1>1, <1>2, <2>1, <2>3 DEF Class, EndName
    <3> QED
      BY <1>1, <2>1, <3>1 DEF Untouched
  <2> QED
    BY <2>2, <2>3
<1>7. ASSUME NEW i \in DOMAIN rows, OnItsOwn(i)',
             splits[rows[i].date][rows[i].symbol].planned
      PROVE  ClosesAsCounted(i)'
  <2>1. rows[i].date \in Day /\ rows[i].symbol \in Symbol
    BY <1>1, RowPlace
  <2>2. rows[i].date # today
    BY <1>3, <1>7, <2>1
  <2>3. \A n \in Symbol : renames'[rows[i].date][n] = renames[rows[i].date][n]
    BY <1>2, <2>1, <2>2
  <2> QED
    BY <1>1, <1>7, <2>3, CountsStay DEF PlansCounted
<1> QED
  BY <1>1, <1>5, <1>6, <1>7 DEF PlansCounted
(***************************************************************************)
(* A plan of a holding the broker counted closes on that count, of the     *)
(* rows as they were stated: nothing has restated them before it.          *)
(***************************************************************************)
LEMMA PlanCounts ==
  ASSUME Structure, NEW i \in DOMAIN rows, ~SplitRefused(i), OnItsOwn(i),
         \A j \in RowsAround(i) : pool_quantity[j] = rows[j].quantity,
         splits'[rows[i].date][rows[i].symbol] = Transformation(i),
         UNCHANGED <<rows, renames>>
  PROVE  ClosesAsCounted(i)'
<1> DEFINE d == rows[i].date
           s == rows[i].symbol
           before == RowsBefore(i)
           later == RowsAfter(i)
<1>1. Typed /\ d \in Day /\ s \in Symbol
  BY RowPlace DEF Structure
<1>2. /\ before \in SUBSET DOMAIN rows /\ later \in SUBSET DOMAIN rows
      /\ later \subseteq RowsAround(i) /\ IsFiniteSet(later)
  <2>1. before \in SUBSET DOMAIN rows /\ later \in SUBSET DOMAIN rows
    BY AroundAreRows DEF RowsAfter
  <2> QED
    BY <1>1, <2>1, RowsFinite DEF RowsAfter, Typed, PlaceTyped
<1>3. /\ AtEvent(i) = DayOpen(i) + CountStated(before)
      /\ CountStated(before) \in Int /\ CountStated(later) \in Int
  <2>1. AtEvent(i) = DayOpen(i) + StatedUnits(before)
    BY Zenon DEF AtEvent, StatedUnits
  <2> QED
    BY <1>1, <1>2, <2>1, StatedIs
<1>4. /\ DayOpen(i) \in Int /\ AtEvent(i) \in Int
      /\ Event(i).after \in Int /\ ExpectedDayClose(i) \in Int
  BY <1>1, EventType, TransformationType
<1>5. SignedQuantity(later, Restated(i)) = CountStated(later)
  <2>1. \A j \in later : Restated(i)[j] = rows[j].quantity
    BY <1>2 DEF Restated, RowsAfter
  <2>2. \A j \in later : SignedBy(later, Restated(i))[j] = Stated[j]
    BY <1>2, <2>1 DEF SignedBy, Stated
  <2>3. SignedQuantity(later, Restated(i)) = SumFunctionOnSet(SignedBy(later, Restated(i)), later)
    BY <1>2, SignedSum
  <2>4. SumFunctionOnSet(SignedBy(later, Restated(i)), later) = SumFunctionOnSet(Stated, later)
    BY <1>2, <2>2, SumSame
  <2> QED
    BY <2>3, <2>4 DEF CountStated
<1>6. /\ CountStated(before)' = CountStated(before)
      /\ CountStated(later)' = CountStated(later)
  <2>1. RowsAround(i)' = RowsAround(i)
    BY DEF RowsAround, NamesOn, EndName, RowsOn, Sign
  <2>2. before' = before /\ later' = later
    BY <2>1 DEF RowsBefore, RowsAfter, RelativeToSplit
  <2>3. Stated' = Stated
    BY DEF Stated, Sign
  <2> QED
    BY <2>2, <2>3 DEF CountStated
<1>7. /\ splits'[d][s].ratio = Event(i).ratio
      /\ splits'[d][s].day_open = DayOpen(i)
      /\ splits'[d][s].day_close = ExpectedDayClose(i)
  BY DEF Transformation
<1>8. CountBefore(i)' = AtEvent(i)
  BY <1>3, <1>6, <1>7 DEF CountBefore
<1>9. ASSUME BrokerCounted(i)'
      PROVE  BrokerExact(i) /\ CountAfter(i)' = Event(i).after
  <2>1. Event(i).ratio # NoRatio
    BY <1>7, <1>9 DEF BrokerCounted
  <2>2. CASE rows[i].source = "paired"
    <3>1. rows[i].event.before = AtEvent(i)
      BY <1>8, <1>9, <2>2 DEF BrokerCounted
    <3>2. Event(i) = rows[i].event
      BY <2>2 DEF Event
    <3> QED
      BY <2>1, <2>2, <3>1, <3>2 DEF BrokerExact, Resolved, CountAfter
  <2>3. CASE rows[i].source # "paired"
    <3>1. Event(i).before = AtEvent(i) /\ Event(i).after = AtEvent(i) + rows[i].quantity
      BY <2>3 DEF Event
    <3> QED
      BY <1>8, <2>1, <2>3, <3>1 DEF BrokerExact, Resolved, CountAfter
  <2> QED
    BY <2>2, <2>3
<1>10. BrokerExact(i) => ExpectedDayClose(i) = Event(i).after + CountStated(later)
  BY <1>5 DEF ExpectedDayClose, RowsAfter
<1> QED
  BY <1>6, <1>7, <1>9, <1>10 DEF ClosesAsCounted

LEMMA PlanningCounted ==
  ASSUME Structure, PlansCounted, PlanStockSplit
  PROVE  PlansCounted'
<1>1. Typed /\ EndsMerged /\ phase = "plan" /\ phase # "refused"
  BY DEF Structure, PlanStockSplit
<1>2. CASE phase' = "refused"
  BY <1>2 DEF PlansCounted
<1>3. CASE phase' # "refused"
  <2>1. PICK i \in DOMAIN rows : i = PlannedRow
    BY <1>1, <1>3, PlannedRowIs
  <2>2. PICK s0 \in Symbol : s0 = PlannedSymbol
    BY <1>1, <1>3, PlannedRowIs
  <2>3. PICK d \in Day : d = row.date
    BY <1>1, RowRead DEF Opened
  <2>4. /\ rows[i].date = d /\ rows[i].symbol = s0 /\ rows[i].action = "STOCK_SPLIT"
        /\ ~SplitRefused(i) /\ ~splits[d][s0].planned
    BY <1>1, <1>3, <2>1, <2>2, <2>3, PlannedRowIs
  <2>5. /\ splits' = [splits EXCEPT ![d][s0] = Transformation(i)]
        /\ pool_quantity' = Restated(i)
        /\ UNCHANGED <<rows, next, phase, planned, renames>>
    BY <1>3, <2>1, <2>2, <2>3 DEF PlanStockSplit, Refuse, PlannedSymbol, PlannedRow
  <2>6. /\ \A e \in Day, n \in Symbol : splits'[e][n] =
             IF e = d /\ n = s0 THEN Transformation(i) ELSE splits[e][n]
        /\ Transformation(i).planned
    BY <1>1, <2>5 DEF Typed, PlansTyped, Transformation
  <2>7. NamesOn(d, s0) = Class(d, s0)
    BY <1>1, NamesAreClass
  <2>8. \A e \in Day, n \in Symbol : Class(e, n)' = Class(e, n)
    BY <2>5 DEF Class, EndName
  <2>9. AllPlanned'
    <3> SUFFICES ASSUME NEW e \in planned, NEW n \in Symbol,
                        SplitRowsOn(e, n) # {}, ~splits'[e][n].planned
                 PROVE  phase = "plan" /\ e = row.date
      BY <2>5 DEF AllPlanned, SplitRowsOn, RowsOn, row
    <3>1. e \in Day
      BY <1>1 DEF Typed, PlaceTyped
    <3>2. ~splits[e][n].planned
      BY <2>6, <3>1
    <3> QED
      BY <1>1, <3>2 DEF PlansCounted, AllPlanned
  <2>10. ASSUME NEW j \in DOMAIN rows
         PROVE  Untouched(j)'
    <3>1. rows[j].date \in Day /\ rows[j].symbol \in Symbol /\ Untouched(j)
      BY <1>1, RowPlace DEF PlansCounted
    <3>2. ASSUME Class(rows[j].date, rows[j].symbol) = {rows[j].symbol},
                 ~splits'[rows[j].date][rows[j].symbol].planned
          PROVE  pool_quantity'[j] = rows[j].quantity
      <4>1. ~splits[rows[j].date][rows[j].symbol].planned
        BY <2>6, <3>1, <3>2
      <4>2. pool_quantity[j] = rows[j].quantity
        BY <3>1, <3>2, <4>1 DEF Untouched
      <4>3. j \notin RowsBefore(i)
        <5> SUFFICES ASSUME j \in RowsBefore(i)
                     PROVE  FALSE
          OBVIOUS
        <5>1. rows[j].date = d /\ rows[j].symbol \in Class(d, s0)
          BY <2>4, <2>7 DEF RowsBefore, RowsAround, RowsOn
        <5>2. s0 \in Class(d, rows[j].symbol)
          BY <5>1 DEF Class
        <5>3. rows[j].symbol = s0
          BY <3>2, <5>1, <5>2
        <5> QED
          BY <2>6, <3>2, <5>1, <5>3
      <4> QED
        BY <2>5, <4>2, <4>3 DEF Restated
    <3> QED
      BY <2>5, <2>8, <3>1, <3>2 DEF Untouched
  <2>11. ASSUME NEW k \in DOMAIN rows, OnItsOwn(k)',
                splits'[rows[k].date][rows[k].symbol].planned
         PROVE  ClosesAsCounted(k)'
    <3>1. rows[k].date \in Day /\ rows[k].symbol \in Symbol
      BY <1>1, RowPlace
    <3>2. OnItsOwn(k)
      BY <2>5, <2>8, <2>11, <3>1 DEF OnItsOwn, SplitRowsOn, RowsOn
    <3>3. CASE rows[k].date = d /\ rows[k].symbol = s0
      <4>1. i \in SplitRowsOn(d, s0)
        BY <2>4 DEF SplitRowsOn, RowsOn
      <4>2. k = i
        BY <3>2, <3>3, <4>1 DEF OnItsOwn
      <4>3. \A j \in RowsAround(i) : pool_quantity[j] = rows[j].quantity
        <5> SUFFICES ASSUME NEW j \in RowsAround(i)
                     PROVE  pool_quantity[j] = rows[j].quantity
          OBVIOUS
        <5>1. Class(d, s0) = {s0}
          BY <3>2, <3>3 DEF OnItsOwn
        <5>2. j \in DOMAIN rows /\ rows[j].date = d /\ rows[j].symbol = s0
          BY <2>4, <2>7, <5>1 DEF RowsAround, RowsOn
        <5>3. Untouched(j)
          BY <1>1, <5>2 DEF PlansCounted
        <5> QED
          BY <2>4, <5>1, <5>2, <5>3 DEF Untouched
      <4>4. splits'[rows[i].date][rows[i].symbol] = Transformation(i)
        BY <2>4, <2>6
      <4> QED
        BY <2>4, <2>5, <3>2, <4>2, <4>3, <4>4, PlanCounts
    <3>4. CASE ~(rows[k].date = d /\ rows[k].symbol = s0)
      <4>1. splits'[rows[k].date][rows[k].symbol] = splits[rows[k].date][rows[k].symbol]
        BY <2>6, <3>1, <3>4
      <4>2. ClosesAsCounted(k)
        BY <1>1, <2>11, <3>2, <4>1 DEF PlansCounted
      <4> QED
        BY <1>1, <2>5, <4>1, <4>2, CountsStay
    <3> QED
      BY <3>3, <3>4
  <2> QED
    BY <2>5, <2>9, <2>10, <2>11 DEF PlansCounted
<1> QED
  BY <1>2, <1>3

LEMMA StepCounted == Structure /\ PlansCounted /\ [Next]_vars => PlansCounted'
<1> SUFFICES ASSUME Structure, PlansCounted, [Next]_vars
             PROVE  PlansCounted'
  OBVIOUS
<1>1. Typed
  BY DEF Structure
<1>2. CASE AddAcquisition \/ AddDisposal \/ AddTransferToSpouse \/ AddGift
           \/ AddManagementFee \/ PassOver
  <2>1. CASE MovesUnits
    BY <1>1, <2>1, PlansCountedStay DEF MovesUnits, Handled
  <2> QED
    BY <1>1, <1>2, <2>1, HandlersMove, PlansCountedRefused
<1>3. CASE AddRename
  <2>1. RenamesUnits
    BY <1>1, <1>3, AddRenameMoves
  <2> QED
    BY <1>1, <2>1, PlansCountedStay DEF RenamesUnits, Handled
<1>4. CASE RefuseOther
  BY <1>4, PlansCountedRefused DEF RefuseOther
<1>5. CASE AddEri \/ PostRow
  <2>1. CASE PassesRow
    <3>1. phase # "refused" /\ phase' # "plan" /\ phase # "plan"
      BY <1>5, <2>1 DEF PassesRow, Opened, AddEri, PostRow, Reading
    <3> QED
      BY <1>1, <2>1, <3>1, PlansCountedStay DEF PassesRow
  <2> QED
    BY <1>1, <1>5, <2>1, RowPassed, PlansCountedRefused
<1>6. CASE NoteSource \/ Finish
  BY <1>1, <1>6, PlansCountedStay DEF NoteSource, Finish
<1>7. CASE OpenTransactionDay
  BY <1>7, OpeningDay, OpeningCounted, PlansCountedRefused
<1>8. CASE PlanStockSplit
  BY <1>8, PlanningCounted
<1>9. CASE UNCHANGED vars
  <2>1. CASE phase = "refused"
    BY <1>9, <2>1 DEF vars, PlansCounted
  <2> QED
    BY <1>1, <1>9, <2>1, PlansCountedStay DEF vars
<1> QED
  BY <1>2, <1>3, <1>4, <1>5, <1>6, <1>7, <1>8, <1>9 DEF Next

LEMMA ClosesCounted == Agreement /\ HandOver /\ PlansCounted => ClosesOnBrokersCount
<1> SUFFICES ASSUME Agreement, HandOver, PlansCounted, BetweenDays, NEW i \in DOMAIN rows,
                    NEW d, d = rows[i].date, NEW s, s = rows[i].symbol,
                    d <= LastClosed, SplitRowsOn(d, s) = {i}, NamesOn(d, s) = {s},
                    splits[d][s].ratio # NoRatio,
                    rows[i].source = "paired" =>
                      rows[i].event.before = splits[d][s].day_open + StatedUnits(RowsBefore(i))
             PROVE  Replay[d][s] =
                      (IF rows[i].source = "paired" THEN rows[i].event.after
                       ELSE splits[d][s].day_open + StatedUnits(RowsBefore(i)) + rows[i].quantity)
                      + StatedUnits(RowsAround(i) \ RowsBefore(i))
  BY DEF ClosesOnBrokersCount
<1>1. /\ Structure /\ Typed /\ EndsMerged /\ phase # "refused" /\ phase # "plan"
      /\ d \in Day /\ s \in Symbol
  BY RowPlace DEF Agreement, Structure, BetweenDays
<1>2. /\ rows \in Ledgers /\ DOMAIN rows = 1 .. Len(rows) /\ Len(rows) \in Nat
      /\ next \in 1 .. Len(rows) + 1 /\ Day = 1 .. LastDay /\ LastDay \in Nat
      /\ \A j \in DOMAIN rows : j \in Int /\ rows[j].date \in Day
  BY <1>1, RowType, RowPlace, HistoryAssumption DEF Typed, PlaceTyped, Day
<1>3. d \in planned
  <2>1. i < next
    <3>1. CASE phase = "ingested"
      BY <1>1, <1>2, <3>1 DEF Structure, Calendar
    <3>2. CASE phase # "ingested"
      <4>1. next \in DOMAIN rows /\ row = rows[next] /\ d < row.date
        BY <1>1, <1>2, <3>2 DEF BetweenDays, LastClosed, row
      <4> QED
        BY <1>1, <1>2, <4>1, RowsInOrder
    <3> QED
      BY <3>1, <3>2
  <2> QED
    BY <1>1, <2>1 DEF Structure, Calendar
<1>4. Class(d, s) = {s} /\ OnItsOwn(i)
  BY <1>1, NamesAreClass DEF OnItsOwn
<1>5. splits[d][s].planned
  BY <1>1, <1>3 DEF PlansCounted, AllPlanned
<1>6. Replay[d][s] = splits[d][s].day_close
  <2>1. Pending = {}
    <3> SUFFICES ASSUME Pending # {}
                 PROVE  FALSE
      OBVIOUS
    <3>1. next <= Len(rows) /\ row.date \in planned
      BY <1>1, PendingToday
    <3> QED
      BY <1>1, <1>2, <3>1 DEF BetweenDays, Structure, Calendar
  <2>2. Ahead(d, s) = {}
    BY <1>1, <2>1, AheadElsewhere
  <2>3. ToMove(d, s) = 0
    BY <2>2, SumOfNone DEF ToMove
  <2>4. Replay[d][s] + ToMove(d, s) = splits[d][s].day_close
    BY <1>1, <1>3, <1>4, <1>5 DEF HandOver, PlansMet, PlanMet
  <2>5. Replay[d][s] \in Int
    BY <1>1, <1>2, ReplayType
  <2> QED
    BY <2>3, <2>4, <2>5
<1>7. /\ StatedUnits(RowsBefore(i)) = CountStated(RowsBefore(i))
      /\ StatedUnits(RowsAround(i) \ RowsBefore(i)) = CountStated(RowsAfter(i))
  <2>1. RowsBefore(i) \in SUBSET DOMAIN rows /\ RowsAround(i) \ RowsBefore(i) \in SUBSET DOMAIN rows
    BY AroundAreRows
  <2> QED
    BY <1>1, <2>1, StatedIs DEF RowsAfter
<1>8. ClosesAsCounted(i) /\ BrokerCounted(i)
  BY <1>1, <1>4, <1>5, <1>7 DEF PlansCounted, BrokerCounted, CountBefore
<1> QED
  BY <1>6, <1>7, <1>8 DEF ClosesAsCounted, CountAfter, CountBefore

(***************************************************************************)
(* A day that reorganises a holding the broker counted closes on that      *)
(* count, whatever was rounded on the way: _plan_stock_split decides the   *)
(* correction once, from rows nothing has restated, and no later row of    *)
(* the day undoes it.                                                      *)
(***************************************************************************)
THEOREM ClosesAlwaysOnBrokersCount == Spec => []ClosesOnBrokersCount
<1>1. Init => Agreement /\ HandOver /\ PlansCounted
  BY InitAgrees, InitHandOver, InitPlansCounted
<1>2. Agreement /\ HandOver /\ PlansCounted /\ [Next]_vars
        => (Agreement /\ HandOver /\ PlansCounted)'
  BY StepAgrees, StepHands, StepCounted DEF Agreement
<1>3. Agreement /\ HandOver /\ PlansCounted => ClosesOnBrokersCount
  BY ClosesCounted
<1> QED
  BY <1>1, <1>2, <1>3, PTL DEF Spec

----------------------------------------------------------------------------
(***************************************************************************)
(* Where a holding came from.  CameFrom is a recursion over the days; what *)
(* follows says that it satisfies its own equation, and what of a history  *)
(* it depends on.                                                          *)
(***************************************************************************)
BoughtOn(d, n) == {rows[i].account : i \in {j \in Increases(RowsOn(d)) : rows[j].symbol = n}}
FromOf(d, before) ==
  IF d = 0 THEN [s \in Symbol |-> {}]
  ELSE [s \in Symbol |->
          IF Replay[d][s] = 0 THEN {}
          ELSE UNION {before[n] \cup BoughtOn(d, n) : n \in EndsAt(d, s)}]
FromByDay ==
  /\ \A s \in Symbol : CameFrom[0][s] = {}
  /\ \A d \in Day, s \in Symbol :
       CameFrom[d][s] =
         IF Replay[d][s] = 0 THEN {}
         ELSE UNION {CameFrom[d - 1][n] \cup BoughtOn(d, n) : n \in EndsAt(d, s)}

LEMMA FromExists == \A n \in Nat : \E from : from = [d \in 0 .. n |-> FromOf(d, from[d - 1])]
<1> DEFINE Of(d, before) == FromOf(d, before)
           Traced == {n \in Nat : \E from : from = [d \in 0 .. n |-> Of(d, from[d - 1])]}
<1>1. 0 \in Traced
  <2> DEFINE from == [d \in 0 .. 0 |-> [s \in Symbol |-> {}]]
  <2>1. \A d \in 0 .. 0 : Of(d, from[d - 1]) = [s \in Symbol |-> {}]
    BY DEF FromOf
  <2>2. from = [d \in 0 .. 0 |-> Of(d, from[d - 1])]
    BY <2>1
  <2> QED
    BY <2>2
<1>2. ASSUME NEW n \in Nat, n \in Traced
      PROVE  n + 1 \in Traced
  <2>1. PICK from : from = [d \in 0 .. n |-> Of(d, from[d - 1])]
    BY <1>2
  <2> DEFINE longer == [d \in 0 .. n + 1 |-> IF d <= n THEN from[d] ELSE Of(d, from[n])]
  <2>2. ASSUME NEW d \in 0 .. n + 1
        PROVE  longer[d] = Of(d, longer[d - 1])
    <3>1. CASE d = 0
      <4>1. longer[0] = from[0] /\ from[0] = Of(0, from[0 - 1])
        BY <2>1
      <4>2. Of(0, from[0 - 1]) = Of(0, longer[0 - 1])
        BY DEF FromOf
      <4> QED
        BY <3>1, <4>1, <4>2
    <3>2. CASE d # 0 /\ d <= n
      <4>1. d \in 0 .. n /\ d - 1 \in 0 .. n
        BY <3>2
      <4>2. longer[d] = from[d] /\ longer[d - 1] = from[d - 1]
        BY <4>1
      <4>3. from[d] = Of(d, from[d - 1])
        BY <2>1, <4>1
      <4> QED
        BY <4>2, <4>3
    <3>3. CASE d = n + 1
      <4>1. d - 1 = n /\ n \in 0 .. n + 1 /\ ~(n + 1 <= n)
        BY <3>3
      <4>2. longer[d - 1] = from[n]
        BY <4>1
      <4>3. longer[d] = Of(d, from[n])
        BY <3>3, <4>1
      <4> QED
        BY <4>2, <4>3
    <3> QED
      BY <3>1, <3>2, <3>3
  <2>3. longer = [d \in 0 .. n + 1 |-> Of(d, longer[d - 1])]
    BY <2>2
  <2> HIDE DEF longer, Of
  <2> QED
    BY <2>3
<1> HIDE DEF Traced
<1>3. \A n \in Nat : n \in Traced
  BY <1>1, <1>2, NaturalsBySteps
<1> QED
  BY <1>3 DEF Traced

LEMMA CameFromByDay == FromByDay
<1>1. LastDay \in Nat
  BY HistoryAssumption
<1>2. \E f : f = [d \in 0 .. LastDay |-> FromOf(d, f[d - 1])]
  BY <1>1, FromExists
<1>3. CameFrom = CHOOSE f : f = [d \in 0 .. LastDay |-> FromOf(d, f[d - 1])]
  BY Zenon DEF CameFrom, FromOf, BoughtOn, EndsAt
<1>4. CameFrom = [d \in 0 .. LastDay |-> FromOf(d, CameFrom[d - 1])]
  <2> DEFINE from == CameFrom
  <2>1. from = CHOOSE f : f = [d \in 0 .. LastDay |-> FromOf(d, f[d - 1])]
    BY <1>3
  <2> HIDE DEF from
  <2>2. from = [d \in 0 .. LastDay |-> FromOf(d, from[d - 1])]
    BY <1>2, <2>1
  <2> QED
    BY <2>2 DEF from
<1>5. CameFrom[0] = FromOf(0, CameFrom[0 - 1])
  BY <1>1, <1>4
<1>6. \A d \in Day : CameFrom[d] = FromOf(d, CameFrom[d - 1]) /\ d # 0
  BY <1>1, <1>4 DEF Day
<1> QED
  BY <1>5, <1>6 DEF FromOf, FromByDay

LEMMA CameFromByDayNext == FromByDay'
  BY CameFromByDay, PTL

\* Up to a day only the rows, the counts and the names up to it matter.
LEMMA CameFromSame ==
  ASSUME NEW last \in 0 .. LastDay, rows' = rows,
         \A d \in 1 .. last, n \in Symbol :
           /\ renames'[d][n] = renames[d][n]
           /\ splits'[d][n] = splits[d][n]
           /\ logs'[d][n].acquired = logs[d][n].acquired
           /\ logs'[d][n].disposed = logs[d][n].disposed
           /\ logs'[d][n].transferred = logs[d][n].transferred
  PROVE  \A d \in 0 .. last, s \in Symbol : CameFrom'[d][s] = CameFrom[d][s]
<1> DEFINE Agree == {d \in Nat : d <= last => \A s \in Symbol : CameFrom'[d][s] = CameFrom[d][s]}
<1>1. 0 \in Agree
  BY CameFromByDay, CameFromByDayNext DEF FromByDay
<1>2. ASSUME NEW n \in Nat, n \in Agree
      PROVE  n + 1 \in Agree
  <2> SUFFICES ASSUME n + 1 <= last, NEW s \in Symbol
               PROVE  CameFrom'[n + 1][s] = CameFrom[n + 1][s]
    OBVIOUS
  <2>1. PICK d \in Day : d = n + 1 /\ d \in 0 .. last /\ d \in 1 .. last /\ d - 1 = n
    BY HistoryAssumption DEF Day
  <2>2. EndsAt(d, s)' = EndsAt(d, s)
    BY <2>1 DEF EndsAt, EndName
  <2>3. \A m : BoughtOn(d, m)' = BoughtOn(d, m)
    BY DEF BoughtOn, Increases, RowsOn, Sign
  <2>4. Replay'[d][s] = Replay[d][s]
    BY <2>1, ReplaySame
  <2>5. \A m \in EndsAt(d, s) : CameFrom'[d - 1][m] = CameFrom[d - 1][m]
    BY <1>2, <2>1 DEF EndsAt
  <2>6. CameFrom'[d][s] = IF Replay'[d][s] = 0 THEN {}
          ELSE UNION {CameFrom'[d - 1][m] \cup BoughtOn(d, m)' : m \in EndsAt(d, s)'}
    BY CameFromByDayNext DEF FromByDay
  <2>7. CameFrom[d][s] = IF Replay[d][s] = 0 THEN {}
          ELSE UNION {CameFrom[d - 1][m] \cup BoughtOn(d, m) : m \in EndsAt(d, s)}
    BY CameFromByDay DEF FromByDay
  <2>8. UNION {CameFrom'[d - 1][m] \cup BoughtOn(d, m)' : m \in EndsAt(d, s)'}
          = UNION {CameFrom[d - 1][m] \cup BoughtOn(d, m) : m \in EndsAt(d, s)}
    BY <2>2, <2>3, <2>5
  <2> QED
    BY <2>1, <2>4, <2>6, <2>7, <2>8
<1> HIDE DEF Agree
<1>3. \A n \in Nat : n \in Agree
  BY <1>1, <1>2, NaturalsBySteps
<1> QED
  BY <1>3 DEF Agree

\* Every row up to day d is of a day that is planned, and none later is.
Reached(d) ==
  /\ \A p \in planned : p <= d
  /\ \A i \in DOMAIN rows : rows[i].date <= d => rows[i].date \in planned
QuietFrom ==
  \A from \in 0 .. LastDay, d \in 0 .. LastDay :
    from <= d /\ (\A p \in planned : p <= from) /\ Reached(d) =>
      \A s \in Symbol : CameFrom[d][s] = CameFrom[from][s]

LEMMA CameFromQuiet == Structure => QuietFrom
<1> SUFFICES ASSUME Structure, NEW from \in 0 .. LastDay, NEW last \in 0 .. LastDay, from <= last,
                    \A p \in planned : p <= from, Reached(last)
             PROVE  \A s \in Symbol : CameFrom[last][s] = CameFrom[from][s]
  BY DEF QuietFrom
<1> DEFINE Still == {k \in Nat : from + k <= last =>
                       \A s \in Symbol : CameFrom[from + k][s] = CameFrom[from][s]}
<1>1. 0 \in Still
  <2>1. from + 0 = from
    OBVIOUS
  <2> QED
    BY <2>1
<1>2. ASSUME NEW k \in Nat, k \in Still
      PROVE  k + 1 \in Still
  <2> SUFFICES ASSUME from + (k + 1) <= last, NEW s \in Symbol
               PROVE  CameFrom[from + (k + 1)][s] = CameFrom[from][s]
    OBVIOUS
  <2>1. PICK d \in Day : /\ d = from + (k + 1) /\ d - 1 = from + k /\ d > from /\ d <= last
                         /\ d \in 0 .. LastDay /\ d \in from .. LastDay
    BY HistoryAssumption DEF Day
  <2>2. d \notin planned
    BY <2>1
  <2>3. EndsAt(d, s) = {s}
    BY <2>2 DEF Structure, DaysAheadBlank, DaysBlank, Blank, EndsAt, EndName
  <2>4. BoughtOn(d, s) = {}
    BY <2>1, <2>2 DEF BoughtOn, Increases, RowsOn, Reached
  <2>5. CameFrom[d - 1][s] = CameFrom[from][s]
    BY <1>2, <2>1
  <2>6. Replay[d][s] = Replay[from][s]
    BY <2>1, ReplayQuiet
  <2>7. Replay[from][s] = 0 => CameFrom[from][s] = {}
    <3>1. CASE from = 0
      BY <3>1, CameFromByDay DEF FromByDay
    <3>2. CASE from # 0
      <4>1. from \in Day
        BY <3>2, HistoryAssumption DEF Day
      <4> QED
        BY <4>1, CameFromByDay DEF FromByDay
    <3> QED
      BY <3>1, <3>2
  <2>8. CameFrom[d][s] = IF Replay[d][s] = 0 THEN {}
          ELSE UNION {CameFrom[d - 1][n] \cup BoughtOn(d, n) : n \in EndsAt(d, s)}
    BY CameFromByDay DEF FromByDay
  <2>9. UNION {CameFrom[d - 1][n] \cup BoughtOn(d, n) : n \in EndsAt(d, s)} = CameFrom[d - 1][s]
    BY <2>3, <2>4
  <2> QED
    BY <2>1, <2>5, <2>6, <2>7, <2>8, <2>9
<1> HIDE DEF Still
<1>3. \A k \in Nat : k \in Still
  BY <1>1, <1>2, NaturalsBySteps
<1>4. last - from \in Nat /\ from + (last - from) = last
  OBVIOUS
<1> QED
  BY <1>3, <1>4 DEF Still

LEMMA CameFromQuietNext == Structure' => QuietFrom'
  BY CameFromQuiet, PTL
(***************************************************************************)
(* The accounts kept.  At a day's opening they are those the holding came  *)
(* from; during the day the names that end together are, together, behind  *)
(* what those came from and the increases noted so far.                    *)
(***************************************************************************)
Noted(j) == j < next \/ (j = next /\ phase \in {"row", "post"})
NotedOn(d, n) ==
  {rows[i].account : i \in {j \in Increases(RowsOn(d)) : rows[j].symbol = n /\ Noted(j)}}
Behind(d, s) == UNION {sources[n] : n \in EndsAt(d, s)}
Gained(d, s) == UNION {CameFrom[d - 1][n] \cup NotedOn(d, n) : n \in EndsAt(d, s)}

SourcesSettled ==
  Pending = {} =>
    \A d \in 0 .. LastDay : Reached(d) =>
      \A s \in Symbol : Held(s) # 0 => sources[s] = CameFrom[d][s]
SourcesAtPlan ==
  phase = "plan" =>
    \A d \in Day, s \in Symbol : d = row.date => sources[s] = CameFrom[d - 1][s]
SourcesInDay ==
  Pending # {} =>
    \A d \in Day, s \in Symbol : d = row.date => Behind(d, s) = Gained(d, s)
DeltaIsWhole(i) ==
  /\ rows[i].action = "STOCK_SPLIT" /\ rows[i].source = "broker"
  /\ splits[rows[i].date][rows[i].symbol].planned
  /\ SplitRowsOn(rows[i].date, rows[i].symbol) = {i}
  => CameFrom[rows[i].date - 1][rows[i].symbol]
     \cup {rows[j].account : j \in Increases(RowsBefore(i))} \subseteq {rows[i].account}
SourcesInv ==
  /\ phase # "refused" => SourcesSettled /\ SourcesAtPlan /\ SourcesInDay
  /\ \A i \in DOMAIN rows : DeltaIsWhole(i)

LEMMA BeforeStays ==
  ASSUME Typed, NEW i \in DOMAIN rows, rows' = rows,
         \A n \in Symbol : renames'[rows[i].date][n] = renames[rows[i].date][n]
  PROVE  RowsBefore(i)' = RowsBefore(i)
<1> DEFINE d == rows[i].date
           s == rows[i].symbol
<1>1. {<<n, renames'[d][n]>> : n \in Symbol} = {<<n, renames[d][n]>> : n \in Symbol}
  OBVIOUS
<1>2. NamesOn(d, s)' = NamesOn(d, s)
  BY <1>1 DEF NamesOn, EndName
<1>3. RowsAround(i)' = RowsAround(i)
  BY <1>2 DEF RowsAround, RowsOn, Sign
<1> QED
  BY <1>3 DEF RowsBefore, RelativeToSplit

\* A plan made stays whole: the days before it are over.
LEMMA DeltaStays ==
  ASSUME Typed, NEW i \in DOMAIN rows, rows' = rows, DeltaIsWhole(i),
         \A n \in Symbol : renames'[rows[i].date][n] = renames[rows[i].date][n],
         splits'[rows[i].date][rows[i].symbol] = splits[rows[i].date][rows[i].symbol],
         splits[rows[i].date][rows[i].symbol].planned =>
           CameFrom'[rows[i].date - 1][rows[i].symbol] = CameFrom[rows[i].date - 1][rows[i].symbol]
  PROVE  DeltaIsWhole(i)'
<1>1. RowsBefore(i)' = RowsBefore(i)
  BY BeforeStays
<1>2. {rows'[j].account : j \in Increases(RowsBefore(i))'} = {rows[j].account : j \in Increases(RowsBefore(i))}
  BY <1>1 DEF Increases, Sign
<1> QED
  BY <1>2 DEF DeltaIsWhole, SplitRowsOn, RowsOn

\* Nothing of the days before d is touched by a step that works on day d.
EarlierKept(d) ==
  \A e \in 1 .. d - 1, n \in Symbol :
    /\ renames'[e][n] = renames[e][n]
    /\ splits'[e][n] = splits[e][n]
    /\ logs'[e][n].acquired = logs[e][n].acquired
    /\ logs'[e][n].disposed = logs[e][n].disposed
    /\ logs'[e][n].transferred = logs[e][n].transferred
LEMMA EarlierSame ==
  ASSUME NEW d \in Day, rows' = rows, EarlierKept(d)
  PROVE  \A s \in Symbol : CameFrom'[d - 1][s] = CameFrom[d - 1][s]
<1>1. d - 1 \in 0 .. LastDay /\ d - 1 \in 0 .. d - 1
  BY HistoryAssumption DEF Day
<1> QED
  BY <1>1, CameFromSame DEF EarlierKept

\* Every plan is of a day planned, so of one no later than the day worked on.
LEMMA DeltasStay ==
  ASSUME Structure, rows' = rows, NEW d \in Day, EarlierKept(d), \A p \in planned : p <= d,
         \A i \in DOMAIN rows : DeltaIsWhole(i),
         \A e \in planned, n \in Symbol : renames'[e][n] = renames[e][n],
         NEW i \in DOMAIN rows,
         splits'[rows[i].date][rows[i].symbol] = splits[rows[i].date][rows[i].symbol]
  PROVE  DeltaIsWhole(i)'
<1>1. Typed /\ rows[i].date \in Day /\ rows[i].symbol \in Symbol
  BY RowPlace DEF Structure
<1>2. CASE ~splits[rows[i].date][rows[i].symbol].planned
  BY <1>2 DEF DeltaIsWhole
<1>3. CASE splits[rows[i].date][rows[i].symbol].planned
  <2>1. rows[i].date \in planned
    BY <1>1, <1>3 DEF Structure, DaysAheadBlank, DaysBlank, Blank
  <2>2. EarlierKept(rows[i].date)
    BY <1>1, <2>1 DEF EarlierKept, Day
  <2> QED
    BY <1>1, <2>1, <2>2, EarlierSame, DeltaStays
<1> QED
  BY <1>2, <1>3

LEMMA SourcesRefused == ASSUME Structure, SourcesInv, NEW reason, Refuse(reason) PROVE SourcesInv'
<1>1. UNCHANGED <<rows, splits, renames, logs>> /\ phase' = "refused"
  BY DEF Refuse
<1>2. CameFrom' = CameFrom
  BY <1>1 DEF CameFrom, Replay, Increases, RowsOn, EndName, Sign
<1>3. ASSUME NEW i \in DOMAIN rows
      PROVE  DeltaIsWhole(i)'
  BY <1>1, <1>2, <1>3, DeltaStays DEF Structure, SourcesInv
<1> QED
  BY <1>1, <1>3 DEF SourcesInv

LEMMA NotedStays ==
  ASSUME Typed, rows' = rows, NEW d \in Day,
         \A j \in RowsOn(d) : Sign(j) > 0 => (Noted(j)' <=> Noted(j))
  PROVE  \A n : NotedOn(d, n)' = NotedOn(d, n)
BY DEF NotedOn, Increases, RowsOn, Sign

\* What the day gained, when no increase was noted and no name renamed.
LEMMA GainedStays ==
  ASSUME Typed, rows' = rows, NEW d \in Day, EarlierKept(d),
         \A n \in Symbol : renames'[d][n] = renames[d][n],
         \A j \in RowsOn(d) : Sign(j) > 0 => (Noted(j)' <=> Noted(j))
  PROVE  \A s \in Symbol : EndsAt(d, s)' = EndsAt(d, s) /\ Gained(d, s)' = Gained(d, s)
<1> SUFFICES ASSUME NEW s \in Symbol
             PROVE  EndsAt(d, s)' = EndsAt(d, s) /\ Gained(d, s)' = Gained(d, s)
  OBVIOUS
<1>1. EndsAt(d, s)' = EndsAt(d, s) /\ EndsAt(d, s) \subseteq Symbol
  BY DEF EndsAt, EndName
<1>2. \A n \in Symbol : NotedOn(d, n)' = NotedOn(d, n) /\ CameFrom'[d - 1][n] = CameFrom[d - 1][n]
  BY NotedStays, EarlierSame
<1>3. UNION {CameFrom'[d - 1][n] \cup NotedOn(d, n)' : n \in EndsAt(d, s)'}
        = UNION {CameFrom[d - 1][n] \cup NotedOn(d, n) : n \in EndsAt(d, s)}
  BY <1>1, <1>2
<1> QED
  BY <1>1, <1>3 DEF Gained

\* A step that moves no units and no accounts, and notes no increase.
LEMMA SourcesStay ==
  ASSUME SourcesInv, Structure, phase # "refused",
         UNCHANGED <<rows, planned, splits, renames, sources>>,
         \A n \in Symbol : Held(n)' = Held(n),
         \A d \in Day, n \in Symbol :
           /\ logs'[d][n].acquired = logs[d][n].acquired
           /\ logs'[d][n].disposed = logs[d][n].disposed
           /\ logs'[d][n].transferred = logs[d][n].transferred,
         Pending' = {} => Pending = {}, Pending' \subseteq Pending,
         Pending' # {} => row'.date = row.date,
         \A j \in DOMAIN rows : Sign(j) > 0 => (Noted(j)' <=> Noted(j)),
         phase' = "plan" => phase = "plan" /\ row' = row
  PROVE  SourcesInv'
<1>1. /\ Typed /\ LastDay \in 0 .. LastDay /\ Day = 1 .. LastDay /\ LastDay \in Nat
      /\ \A d \in Day : d - 1 \in 0 .. LastDay /\ \A e \in 1 .. d - 1 : e \in Day
  BY HistoryAssumption DEF Structure, Day
<1>2. \A d \in Day : EarlierKept(d)
  BY <1>1 DEF EarlierKept
<1>3. \A d \in 0 .. LastDay, s \in Symbol : CameFrom'[d][s] = CameFrom[d][s]
  BY <1>1, CameFromSame
<1>4. SourcesSettled'
  BY <1>3 DEF SourcesInv, SourcesSettled, Reached
<1>5. SourcesAtPlan'
  BY <1>1, <1>3 DEF SourcesInv, SourcesAtPlan
<1>6. SourcesInDay'
  <2> SUFFICES ASSUME Pending' # {}, NEW d \in Day, d = row.date, NEW s \in Symbol
               PROVE  Behind(d, s)' = Gained(d, s)'
    BY DEF SourcesInDay
  <2>1. EndsAt(d, s)' = EndsAt(d, s) /\ Gained(d, s)' = Gained(d, s)
    BY <1>1, <1>2, GainedStays DEF RowsOn
  <2>2. Behind(d, s) = Gained(d, s)
    BY DEF SourcesInv, SourcesInDay
  <2> QED
    BY <2>1, <2>2 DEF Behind
<1>7. ASSUME NEW i \in DOMAIN rows
      PROVE  DeltaIsWhole(i)'
  <2>1. rows[i].date \in Day /\ rows[i].symbol \in Symbol
    BY <1>1, RowPlace
  <2> QED
    BY <1>1, <1>3, <2>1, DeltaStays DEF SourcesInv
<1> QED
  BY <1>4, <1>5, <1>6, <1>7 DEF SourcesInv

LEMMA InitSources == Init => SourcesInv
<1> SUFFICES ASSUME Init
             PROVE  SourcesInv
  OBVIOUS
<1>1. Typed /\ \A n : Held(n) = 0
  BY InitTyped DEF Init, Held
<1>2. Pending = {} /\ phase = "open"
  BY DEF Init, Pending
<1>3. \A i \in DOMAIN rows : ~splits[rows[i].date][rows[i].symbol].planned
  BY <1>1, RowPlace DEF Init, NoSplit
<1> QED
  BY <1>1, <1>2, <1>3 DEF SourcesInv, SourcesSettled, SourcesAtPlan, SourcesInDay, DeltaIsWhole

\* Within a day the past of the day does not change.
LEMMA InDaySources ==
  ASSUME Structure, SourcesInv, phase # "refused", NEW d \in Day, d = row.date,
         Pending # {}, Pending' # {}, phase' # "plan", row'.date = d,
         UNCHANGED <<rows, planned, splits, renames>>, EarlierKept(d),
         \A s \in Symbol : Behind(d, s)' = Gained(d, s)'
  PROVE  SourcesInv'
<1>1. SourcesSettled' /\ SourcesAtPlan' /\ SourcesInDay'
  BY DEF SourcesSettled, SourcesAtPlan, SourcesInDay
<1>2. \A p \in planned : p <= d
  BY PendingToday
<1>3. ASSUME NEW i \in DOMAIN rows
      PROVE  DeltaIsWhole(i)'
  BY <1>2, DeltasStay DEF SourcesInv
<1> QED
  BY <1>1, <1>3 DEF SourcesInv

LEMMA MovingSources ==
  ASSUME Structure, SourcesInv, MovesUnits, UNCHANGED sources
  PROVE  SourcesInv'
<1>1. /\ phase = "row" /\ phase' = "post" /\ row.action # Report
      /\ UNCHANGED <<rows, next, planned, splits, renames>>
  BY DEF MovesUnits, Handled, Report, row
<1>2. /\ next \in Pending /\ Pending' = Pending /\ row' = row /\ row.date \in Day
  BY <1>1, PendingHandled DEF MovesUnits
<1>3. PICK d \in Day : d = row.date
  BY <1>2
<1>4. EarlierKept(d)
  BY <1>1, <1>3, HistoryAssumption DEF EarlierKept, MovesUnits, Day
<1>5. ASSUME NEW s \in Symbol
      PROVE  Behind(d, s)' = Gained(d, s)'
  <2>1. \A j : Noted(j)' <=> Noted(j)
    BY <1>1 DEF Noted
  <2>2. EndsAt(d, s)' = EndsAt(d, s) /\ Gained(d, s)' = Gained(d, s)
    BY <1>1, <1>4, <2>1, GainedStays DEF Structure
  <2>3. Behind(d, s) = Gained(d, s)
    BY <1>1, <1>2, <1>3 DEF SourcesInv, SourcesInDay
  <2> QED
    BY <2>2, <2>3 DEF Behind
<1> QED
  BY <1>1, <1>2, <1>3, <1>4, <1>5, InDaySources

\* A rename moves accounts between names that end together.
LEMMA RenamingSources ==
  ASSUME Structure, SourcesInv, AddRename
  PROVE  SourcesInv'
<1>1. Typed /\ RenamesUnits
  BY AddRenameMoves DEF Structure
<1>2. /\ phase = "row" /\ phase' = "post" /\ row.action # Report
      /\ UNCHANGED <<rows, next, planned, splits, renames, logs>>
  BY <1>1 DEF RenamesUnits, Handled, Report, row
<1>3. /\ next \in Pending /\ Pending' = Pending /\ row' = row /\ row.date \in Day
      /\ row.symbol \in Symbol /\ row.renamed \in Symbol /\ next \in DOMAIN rows
      /\ row = rows[next] /\ row.date \in planned /\ rows[next].action = "RENAME"
  BY <1>1, <1>2, PendingHandled, PendingToday DEF RenamesUnits, Handled
<1>4. PICK d \in Day : d = row.date
  BY <1>3
<1>5. EarlierKept(d)
  BY <1>2 DEF EarlierKept
<1>6. EndName(d, row.renamed) = row.symbol /\ EndName(d, row.symbol) = row.symbol
      /\ row.renamed # row.symbol
  BY <1>3, <1>4 DEF Structure, RenamesRead, EndsMerged, EndName
<1>7. \A n \in Symbol : sources'[n] =
        IF n = row.renamed THEN {}
        ELSE IF n = row.symbol THEN sources[n] \cup sources[row.renamed] ELSE sources[n]
  BY DEF AddRename
<1>8. ASSUME NEW s \in Symbol
      PROVE  Behind(d, s)' = Gained(d, s)'
  <2>1. \A j : Noted(j)' <=> Noted(j)
    BY <1>2 DEF Noted
  <2>2. EndsAt(d, s)' = EndsAt(d, s) /\ Gained(d, s)' = Gained(d, s)
    BY <1>1, <1>2, <1>5, <2>1, GainedStays
  <2>3. Behind(d, s) = Gained(d, s)
    BY <1>2, <1>3, <1>4 DEF SourcesInv, SourcesInDay
  <2>4. row.renamed \in EndsAt(d, s) <=> row.symbol \in EndsAt(d, s)
    BY <1>3, <1>6 DEF EndsAt
  <2>5. EndsAt(d, s) \subseteq Symbol
    BY DEF EndsAt
  <2>6. UNION {sources'[n] : n \in EndsAt(d, s)} = UNION {sources[n] : n \in EndsAt(d, s)}
    <3>1. ASSUME NEW n \in EndsAt(d, s), NEW a \in sources'[n]
          PROVE  \E m \in EndsAt(d, s) : a \in sources[m]
      BY <1>7, <2>4, <2>5, <3>1
    <3>2. ASSUME NEW n \in EndsAt(d, s), NEW a \in sources[n]
          PROVE  \E m \in EndsAt(d, s) : a \in sources'[m]
      <4>1. CASE n = row.renamed
        <5>1. row.symbol \in EndsAt(d, s) /\ a \in sources'[row.symbol]
          BY <1>6, <1>7, <2>4, <2>5, <3>2, <4>1
        <5> QED
          BY <5>1
      <4>2. CASE n # row.renamed
        <5>1. a \in sources'[n]
          BY <1>7, <2>5, <3>2, <4>2
        <5> QED
          BY <5>1
      <4> QED
        BY <4>1, <4>2
    <3> QED
      BY <3>1, <3>2
  <2> QED
    BY <2>2, <2>3, <2>6 DEF Behind
<1> QED
  BY <1>2, <1>3, <1>4, <1>5, <1>8, InDaySources

LEMMA UnionAdd ==
  ASSUME NEW S, NEW f, NEW g, NEW x, NEW more,
         \A n \in S : g[n] = f[n] \cup (IF n = x THEN more ELSE {})
  PROVE  UNION {g[n] : n \in S} = (UNION {f[n] : n \in S}) \cup (IF x \in S THEN more ELSE {})
<1>1. ASSUME NEW n \in S, NEW a \in g[n]
      PROVE  a \in (UNION {f[m] : m \in S}) \cup (IF x \in S THEN more ELSE {})
  BY <1>1
<1>2. ASSUME NEW n \in S, NEW a \in f[n]
      PROVE  a \in UNION {g[m] : m \in S}
  BY <1>2
<1>3. ASSUME x \in S, NEW a \in more
      PROVE  a \in UNION {g[m] : m \in S}
  BY <1>3
<1> QED
  BY <1>1, <1>2, <1>3

\* An increase adds its account to what is behind its name and to what the
\* day is known to add to it.
LEMMA NotingSources ==
  ASSUME Structure, SourcesInv, NoteSource, Sign(next) > 0
  PROVE  SourcesInv'
<1>1. /\ Typed /\ phase \in {"open", "plan"} /\ phase' = "row" /\ next <= Len(rows)
      /\ UNCHANGED <<rows, next, planned, splits, renames, logs>>
      /\ sources' = [sources EXCEPT ![row.symbol] = @ \cup {row.account}]
  BY DEF NoteSource, Structure
<1>2. /\ next \in DOMAIN rows /\ row = rows[next] /\ row.date \in planned
      /\ row.date \in Day /\ row.symbol \in Symbol /\ row.action # Report
      /\ rows \in Ledgers
  <2>1. rows \in Ledgers /\ next \in Nat \ {0}
    BY <1>1 DEF Typed, PlaceTyped
  <2>2. next \in DOMAIN rows /\ row = rows[next]
    BY <1>1, <2>1, RowType DEF row
  <2>3. row.date \in planned
    BY <1>1 DEF NoteSource, Structure, Calendar, Opened
  <2>4. row.action # Report
    BY <2>2 DEF Sign, Report, Increasing, Decreasing, Sales
  <2> QED
    BY <1>1, <2>1, <2>2, <2>3, <2>4, RowPlace
<1>3. next \in Pending /\ Pending' = Pending /\ row' = row /\ next \in Int
  BY <1>1, <1>2, RowType DEF Pending, row
<1>4. PICK d \in Day : d = row.date
  BY <1>2
<1>5. EarlierKept(d)
  BY <1>1 DEF EarlierKept
<1>6. \A n \in Symbol : CameFrom'[d - 1][n] = CameFrom[d - 1][n]
  BY <1>1, <1>5, EarlierSame
<1>7. \A n \in Symbol : sources'[n] = sources[n] \cup (IF n = row.symbol THEN {row.account} ELSE {})
  BY <1>1 DEF Typed, HoldingsTyped
<1>8. ASSUME NEW n \in Symbol
      PROVE  NotedOn(d, n)' = NotedOn(d, n) \cup (IF n = row.symbol THEN {row.account} ELSE {})
  <2> DEFINE before == {j \in Increases(RowsOn(d)) : rows[j].symbol = n /\ Noted(j)}
             after == {j \in Increases(RowsOn(d)) : rows[j].symbol = n /\ Noted(j)'}
  <2>1. \A j \in DOMAIN rows : Noted(j)' <=> Noted(j) \/ j = next
    BY <1>1 DEF Noted
  <2>2. next \in Increases(RowsOn(d)) /\ Increases(RowsOn(d)) \subseteq DOMAIN rows
    BY <1>2, <1>4 DEF Increases, RowsOn
  <2>3. after = before \cup (IF n = row.symbol THEN {next} ELSE {})
    BY <1>2, <2>1, <2>2
  <2>4. {rows[i].account : i \in after}
          = {rows[i].account : i \in before} \cup (IF n = row.symbol THEN {row.account} ELSE {})
    BY <1>2, <2>3
  <2>5. NotedOn(d, n)' = {rows[i].account : i \in after}
    BY <1>1 DEF NotedOn, Increases, RowsOn, Sign
  <2> QED
    BY <2>4, <2>5 DEF NotedOn
<1>9. ASSUME NEW s \in Symbol
      PROVE  Behind(d, s)' = Gained(d, s)'
  <2>1. EndsAt(d, s)' = EndsAt(d, s) /\ EndsAt(d, s) \subseteq Symbol
    BY <1>1 DEF EndsAt, EndName
  <2>2. Behind(d, s) = Gained(d, s)
    BY <1>1, <1>3, <1>4 DEF SourcesInv, SourcesInDay
  <2> DEFINE more == IF row.symbol \in EndsAt(d, s) THEN {row.account} ELSE {}
  <2>3. Behind(d, s)' = Behind(d, s) \cup more
    <3>1. UNION {sources'[n] : n \in EndsAt(d, s)} = (UNION {sources[n] : n \in EndsAt(d, s)}) \cup more
      BY <1>7, <2>1, UnionAdd
    <3> QED
      BY <2>1, <3>1 DEF Behind
  <2>4. Gained(d, s)' = Gained(d, s) \cup more
    <3> DEFINE f == [n \in Symbol |-> CameFrom[d - 1][n] \cup NotedOn(d, n)]
               g == [n \in Symbol |-> CameFrom'[d - 1][n] \cup NotedOn(d, n)']
    <3>1. \A n \in EndsAt(d, s) :
            g[n] = f[n] \cup (IF n = row.symbol THEN {row.account} ELSE {})
      BY <1>6, <1>8, <2>1
    <3>2. Gained(d, s) = UNION {f[n] : n \in EndsAt(d, s)}
      BY <2>1 DEF Gained
    <3>3. Gained(d, s)' = UNION {g[n] : n \in EndsAt(d, s)}
      BY <2>1 DEF Gained
    <3> HIDE DEF f, g
    <3>4. UNION {g[n] : n \in EndsAt(d, s)} = (UNION {f[n] : n \in EndsAt(d, s)}) \cup more
      BY <3>1, UnionAdd
    <3> QED
      BY <3>2, <3>3, <3>4
  <2> QED
    BY <2>2, <2>3, <2>4
<1> QED
  BY <1>1, <1>3, <1>4, <1>5, <1>9, InDaySources

\* The day's last row gathers the accounts as it gathers the units.
LEMMA GatheringSources ==
  ASSUME Agreement, Agreement', SourcesInv, PostRow, phase' # "refused", LaterToday = {}
  PROVE  SourcesInv'
<1>1. /\ Structure /\ Structure' /\ Typed /\ phase = "post" /\ phase \in Opened
      /\ row.date \in planned
  BY DEF Agreement, PostRow, Structure, Calendar, Opened
<1>2. /\ UNCHANGED <<rows, planned, logs, splits, renames>> /\ phase' = "open"
      /\ sources' = GatheredSources /\ next' = next + 1
  BY <1>1 DEF PostRow, Refuse
<1>3. PassesRow
  BY <1>1, <1>2, RowPassed DEF Refuse
<1>4. PICK d \in Day : d = row.date
  BY <1>1 DEF Typed, PlaceTyped
<1>5. /\ next \in DOMAIN rows /\ row = rows[next] /\ next \in Int
      /\ \A i \in DOMAIN rows : i \in Int /\ rows[i].date \in Day
  BY <1>1, RowRead, RowType, RowPlace DEF Typed, PlaceTyped
<1>6. next \in Pending /\ row.action # Report
  BY <1>1, <1>5 DEF Pending, Structure, Calendar
<1>7. \A i \in Pending : rows[i].date = d
  BY <1>1, <1>4, <1>6, PendingToday
<1>8. Pending' = {}
  <2>1. Pending' = Pending \ {next}
    BY <1>1, <1>3, PendingPassed
  <2>2. ASSUME NEW i \in Pending, i # next
        PROVE  i \in LaterToday
    BY <1>4, <1>5, <1>7, <2>2 DEF Pending, LaterToday, RowsOn, Report
  <2> QED
    BY <2>1, <2>2
<1>9. /\ LastDay \in 0 .. LastDay /\ Day = 1 .. LastDay /\ LastDay \in Nat
      /\ d \in 0 .. LastDay /\ \A p \in planned : p <= d
  BY <1>1, <1>4, <1>6, PendingToday, HistoryAssumption DEF Day
<1>10. /\ \A e \in 0 .. LastDay, s \in Symbol : CameFrom'[e][s] = CameFrom[e][s]
       /\ \A e \in 0 .. LastDay, s \in Symbol : Replay'[e][s] = Replay[e][s]
  BY <1>2, <1>9, CameFromSame, ReplaySame
<1>11. \A n : NotedOn(d, n) = BoughtOn(d, n)
  <2>1. ASSUME NEW j \in Increases(RowsOn(d))
        PROVE  Noted(j)
    <3>1. j \in DOMAIN rows /\ rows[j].date = d /\ rows[j].action # Report
      BY DEF Increases, RowsOn, Sign, Report, Increasing, Decreasing, Sales
    <3>2. ~(j > next)
      BY <1>4, <3>1 DEF LaterToday, RowsOn, Report
    <3> QED
      BY <1>1, <1>5, <3>1, <3>2 DEF Noted
  <2> QED
    BY <2>1 DEF NotedOn, BoughtOn
<1>12. ASSUME NEW s \in Symbol, Replay[d][s] # 0
       PROVE  sources'[s] = CameFrom[d][s]
  <2>1. Behind(d, s) = Gained(d, s)
    BY <1>1, <1>4, <1>6 DEF SourcesInv, SourcesInDay
  <2>2. sources'[s] = Behind(d, s)
    BY <1>2, <1>4 DEF GatheredSources, Behind, EndsAt
  <2>3. CameFrom[d][s] = UNION {CameFrom[d - 1][n] \cup BoughtOn(d, n) : n \in EndsAt(d, s)}
    BY <1>12, CameFromByDay DEF FromByDay
  <2> QED
    BY <1>11, <2>1, <2>2, <2>3 DEF Gained
<1>13. SourcesSettled'
  <2> SUFFICES ASSUME NEW e \in 0 .. LastDay, Reached(e), NEW s \in Symbol, Held(s)' # 0
               PROVE  sources'[s] = CameFrom'[e][s]
    BY <1>2 DEF SourcesSettled, Reached
  <2>1. d <= e
    BY <1>1, <1>4 DEF Reached
  <2>2. Held(s)' = Replay'[d][s]
    BY <1>2, <1>8, <1>9 DEF Agreement, Settled
  <2>3. sources'[s] = CameFrom[d][s]
    BY <1>9, <1>10, <1>12, <2>2
  <2>4. CameFrom[e][s] = CameFrom[d][s]
    BY <1>1, <1>9, <2>1, CameFromQuiet DEF QuietFrom
  <2> QED
    BY <1>10, <2>3, <2>4
<1>14. SourcesAtPlan' /\ SourcesInDay'
  BY <1>2, <1>8 DEF SourcesAtPlan, SourcesInDay
<1>15. ASSUME NEW i \in DOMAIN rows
       PROVE  DeltaIsWhole(i)'
  <2>1. EarlierKept(d)
    BY <1>2 DEF EarlierKept
  <2> QED
    BY <1>1, <1>2, <1>9, <2>1, DeltasStay DEF SourcesInv
<1> QED
  BY <1>2, <1>13, <1>14, <1>15 DEF SourcesInv

LEMMA PassingSources ==
  ASSUME Agreement, Agreement', SourcesInv, AddEri \/ PostRow
  PROVE  SourcesInv'
<1>1. Structure /\ Structure' /\ Typed
  BY DEF Agreement, Structure
<1>2. CASE \E reason : Refuse(reason)
  BY <1>1, <1>2, SourcesRefused
<1>3. CASE ~\E reason : Refuse(reason)
  <2>1. PassesRow
    BY <1>1, <1>3, RowPassed
  <2>2. Pending' = Pending \ {next} /\ (Pending' # {} => row'.date = row.date)
    BY <1>1, <2>1, PendingPassed
  <2>3. phase \in {"row", "post"}
    BY DEF AddEri, PostRow, Reading
  <2>4. next \in DOMAIN rows /\ row = rows[next] /\ next \in Int
        /\ \A i \in DOMAIN rows : i \in Int /\ rows[i].date \in Day
    BY <1>1, <2>3, RowRead, RowType, RowPlace DEF Typed, PlaceTyped, Opened
  <2>5. \A j \in DOMAIN rows : Noted(j)' <=> Noted(j)
    BY <2>1, <2>3, <2>4 DEF Noted, PassesRow
  <2>6. CASE PostRow /\ LaterToday = {}
    BY <2>1, <2>6, GatheringSources DEF PassesRow
  <2>7. CASE AddEri \/ (PostRow /\ LaterToday # {})
    <3>1. UNCHANGED <<portfolio, sources>>
      BY <1>3, <2>7 DEF AddEri, PostRow
    <3>2. \A n \in Symbol : Held(n)' = Held(n)
      BY <3>1 DEF Held
    <3>3. Pending' = {} => Pending = {}
      <4>1. CASE AddEri
        <5>1. next \notin Pending
          BY <2>4, <4>1 DEF AddEri, Reading, Pending, Report
        <5> QED
          BY <2>2, <5>1
      <4>2. CASE PostRow /\ LaterToday # {}
        <5>1. PICK i \in LaterToday : TRUE
          BY <4>2
        <5>2. row.date \in planned
          BY <1>1, <2>3 DEF Structure, Calendar, Opened
        <5>3. i \in Pending /\ i # next
          BY <2>4, <5>1, <5>2 DEF LaterToday, RowsOn, Pending, Report
        <5> QED
          BY <2>2, <5>3
      <4> QED
        BY <2>7, <4>1, <4>2
    <3> QED
      BY <1>1, <2>1, <2>2, <2>3, <2>5, <3>1, <3>2, <3>3, SourcesStay DEF PassesRow
  <2> QED
    BY <2>6, <2>7
<1> QED
  BY <1>2, <1>3

LEMMA EndsSources ==
  ASSUME Structure, SourcesInv, NoteSource \/ Finish
  PROVE  SourcesInv'
<1>1. /\ UNCHANGED <<rows, next, planned, portfolio, logs, splits, renames>>
      /\ phase \in {"open", "plan"} /\ phase' \in {"row", "ingested"}
  BY DEF NoteSource, Finish
<1>2. Pending' = Pending /\ row' = row /\ \A n \in Symbol : Held(n)' = Held(n)
  BY <1>1 DEF Pending, row, Held
<1>3. CASE NoteSource /\ Sign(next) > 0
  BY <1>3, NotingSources
<1>4. CASE Finish \/ (NoteSource /\ ~(Sign(next) > 0))
  <2>1. UNCHANGED sources
    BY <1>4 DEF NoteSource, Finish
  <2>2. \A j \in DOMAIN rows : Sign(j) > 0 => (Noted(j)' <=> Noted(j))
    BY <1>1, <1>4 DEF Noted, Finish
  <2> QED
    BY <1>1, <1>2, <2>1, <2>2, SourcesStay
<1> QED
  BY <1>3, <1>4

LEMMA StutterSources ==
  ASSUME Structure, SourcesInv, UNCHANGED vars
  PROVE  SourcesInv'
<1>1. Pending' = Pending /\ row' = row /\ \A n \in Symbol : Held(n)' = Held(n)
  BY DEF vars, Pending, row, Held
<1>2. \A j : Noted(j)' <=> Noted(j)
  BY DEF vars, Noted
<1>3. CASE phase # "refused"
  BY <1>1, <1>2, <1>3, SourcesStay DEF vars
<1>4. CASE phase = "refused"
  <2>1. CameFrom' = CameFrom
    BY DEF vars, CameFrom, Replay, Increases, RowsOn, EndName, Sign
  <2>2. ASSUME NEW i \in DOMAIN rows
        PROVE  DeltaIsWhole(i)'
    BY <2>1, <2>2, DeltaStays DEF Structure, SourcesInv, vars
  <2> QED
    BY <1>4, <2>2 DEF SourcesInv, vars
<1> QED
  BY <1>3, <1>4

\* A day opens with the accounts of what is held: those of an emptied
\* holding are forgotten, and nothing of the day is noted yet.
LEMMA OpeningSources ==
  ASSUME Agreement, Agreement', SourcesInv, OpenTransactionDay
  PROVE  SourcesInv'
<1>1. Structure /\ Structure' /\ Typed
  BY DEF Agreement, Structure
<1>2. CASE Refuse("rename")
  BY <1>1, <1>2, SourcesRefused
<1>3. CASE DayOpens
  <2>1. PICK d \in Day : d = row.date
    BY <1>3 DEF DayOpens
  <2>2. /\ phase = "open" /\ phase' = "plan" /\ d \notin planned
        /\ planned' = planned \cup {d}
        /\ UNCHANGED <<rows, next, portfolio, logs, splits>> /\ row' = row
    BY <1>3, <2>1 DEF DayOpens, row
  <2>3. /\ next \in DOMAIN rows /\ row = rows[next]
        /\ \A e \in Day, s \in Symbol :
             renames'[e][s] = IF e = d THEN DayNames[s] ELSE renames[e][s]
        /\ \A i \in DOMAIN rows : i < next <=> rows[i].date < d
        /\ \A e \in planned : e < d
    BY <1>1, <1>3, <2>1, DayOpensPlaces
  <2>4. d \in 1 .. LastDay /\ d - 1 \in 0 .. LastDay /\ Day = 1 .. LastDay /\ LastDay \in Nat
    BY <2>1, HistoryAssumption DEF Day
  <2>5. /\ planned \subseteq Day /\ next \in Int
        /\ \A i \in DOMAIN rows : rows[i].date \in Day /\ i \in Int
    BY <1>1, RowType, RowPlace DEF Typed, PlaceTyped
  <2>6. Pending = {} /\ Pending' = {i \in RowsOn(d) : rows[i].action # Report}
    BY <1>1, <1>3, <2>1, NothingPending
  <2>7. Reached(d - 1)
    <3>1. \A p \in planned : p <= d - 1
      BY <2>3, <2>4, <2>5
    <3>2. \A i \in DOMAIN rows : rows[i].date <= d - 1 => i < next
      BY <2>3, <2>4, <2>5
    <3> QED
      BY <1>1, <3>1, <3>2 DEF Reached, Structure, Calendar
  <2>8. \A s \in Symbol : Held(s) = Replay[d - 1][s]
    BY <2>2, <2>4, <2>6, <2>7 DEF Agreement, Settled, Reached
  <2>9. ASSUME NEW s \in Symbol
        PROVE  Replay[d - 1][s] = 0 => CameFrom[d - 1][s] = {}
    <3>1. CASE d - 1 = 0
      BY <3>1, CameFromByDay DEF FromByDay
    <3>2. CASE d - 1 # 0
      <4>1. d - 1 \in Day
        BY <2>4, <3>2
      <4> QED
        BY <4>1, CameFromByDay DEF FromByDay
    <3> QED
      BY <3>1, <3>2
  <2>10. sources' = SourcesAtOpen
    BY <2>2 DEF OpenTransactionDay, Refuse
  <2>11. \A s \in Symbol : sources'[s] = CameFrom[d - 1][s]
    <3>1. \A s \in Symbol : Held(s) # 0 => sources[s] = CameFrom[d - 1][s]
      BY <2>2, <2>4, <2>6, <2>7 DEF SourcesInv, SourcesSettled
    <3> QED
      BY <2>8, <2>9, <2>10, <3>1 DEF SourcesAtOpen
  <2>12. EarlierKept(d)
    BY <2>2, <2>3, <2>4 DEF EarlierKept
  <2>13. \A s \in Symbol : CameFrom'[d - 1][s] = CameFrom[d - 1][s]
    BY <2>2, <2>12, EarlierSame
  <2>14. SourcesAtPlan'
    BY <2>1, <2>2, <2>11, <2>13 DEF SourcesAtPlan
  <2>15. SourcesInDay'
    <3> SUFFICES ASSUME NEW s \in Symbol
                 PROVE  Behind(d, s)' = Gained(d, s)'
      BY <2>1, <2>2 DEF SourcesInDay
    <3>1. \A n : NotedOn(d, n)' = {}
      <4>1. \A j \in RowsOn(d) : ~Noted(j)'
        BY <2>2, <2>3, <2>4, <2>5 DEF Noted, RowsOn
      <4> QED
        BY <2>2, <4>1 DEF NotedOn, Increases, RowsOn
    <3>2. EndsAt(d, s)' \subseteq Symbol
      BY DEF EndsAt
    <3>3. UNION {sources'[n] : n \in EndsAt(d, s)'}
            = UNION {CameFrom'[d - 1][n] \cup NotedOn(d, n)' : n \in EndsAt(d, s)'}
      BY <2>11, <2>13, <3>1, <3>2
    <3> QED
      BY <3>3 DEF Behind, Gained
  <2>16. SourcesSettled'
    <3> SUFFICES ASSUME Pending' = {}, NEW e \in 0 .. LastDay, Reached(e)', NEW s \in Symbol,
                        Held(s)' # 0
                 PROVE  sources'[s] = CameFrom'[e][s]
      BY DEF SourcesSettled
    <3>1. d <= e /\ \A p \in planned' : p <= d
      BY <2>2, <2>3, <2>4, <2>5 DEF Reached
    <3>2. \A i \in RowsOn(d) : rows[i].action = Report
      BY <2>6
    <3>3. BoughtOn(d, s)' = {}
      <4>1. \A i \in RowsOn(d) : ~(Sign(i) > 0)
        BY <3>2 DEF Sign, Report, Increasing, Decreasing, Sales
      <4> QED
        BY <2>2, <4>1 DEF BoughtOn, Increases, RowsOn, Sign
    <3>4. EndsAt(d, s)' = {s}
      <4>1. \A n \in Symbol : DayNames[n] = n
        BY <1>3, <2>1, <3>2 DEF DayOpens, Report
      <4> QED
        BY <2>3, <4>1 DEF EndsAt, EndName
    <3>5. Held(s)' = Replay'[d][s]
      <4>1. d \in 0 .. LastDay /\ phase' # "refused"
        BY <2>2, <2>4
      <4> QED
        BY <3>1, <4>1 DEF Agreement, Settled
    <3>6. CameFrom'[d][s] = CameFrom'[d - 1][s]
      <4>1. CameFrom'[d][s] = IF Replay'[d][s] = 0 THEN {}
              ELSE UNION {CameFrom'[d - 1][n] \cup BoughtOn(d, n)' : n \in EndsAt(d, s)'}
        BY CameFromByDayNext DEF FromByDay
      <4>2. UNION {CameFrom'[d - 1][n] \cup BoughtOn(d, n)' : n \in EndsAt(d, s)'}
              = CameFrom'[d - 1][s]
        BY <3>3, <3>4
      <4> QED
        BY <3>5, <4>1, <4>2
    <3>7. CameFrom'[e][s] = CameFrom'[d][s]
      <4>1. d \in 0 .. LastDay
        BY <2>4
      <4> QED
        BY <1>1, <3>1, <4>1, CameFromQuietNext DEF QuietFrom
    <3> QED
      BY <2>11, <2>13, <3>6, <3>7
  <2>17. ASSUME NEW i \in DOMAIN rows
         PROVE  DeltaIsWhole(i)'
    <3>1. (\A p \in planned : p <= d)
          /\ \A e \in planned, n \in Symbol : renames'[e][n] = renames[e][n]
      BY <2>2, <2>3, <2>4, <2>5
    <3> QED
      BY <1>1, <2>2, <2>12, <3>1, DeltasStay DEF SourcesInv
  <2> QED
    BY <2>2, <2>14, <2>15, <2>16, <2>17 DEF SourcesInv
<1> QED
  BY <1>1, <1>2, <1>3, OpeningDay

\* A broker's own change was accepted against the accounts at the opening.
LEMMA PlanningSources ==
  ASSUME Structure, SourcesInv, PlanStockSplit
  PROVE  SourcesInv'
<1>1. Typed /\ phase = "plan" /\ phase # "refused"
  BY DEF Structure, PlanStockSplit
<1>2. CASE phase' = "refused"
  <2>1. Refuse("split")
    BY <1>1, <1>2 DEF PlanStockSplit
  <2> QED
    BY <2>1, SourcesRefused
<1>3. CASE phase' # "refused"
  <2>1. PICK i \in DOMAIN rows : i = PlannedRow
    BY <1>1, <1>3, PlannedRowIs
  <2>2. PICK s0 \in Symbol : s0 = PlannedSymbol
    BY <1>1, <1>3, PlannedRowIs
  <2>3. PICK d \in Day : d = row.date
    BY <1>1, RowRead DEF Opened
  <2>4. /\ rows[i].date = d /\ rows[i].symbol = s0 /\ rows[i].action = "STOCK_SPLIT"
        /\ ~SplitRefused(i) /\ ~splits[d][s0].planned
    BY <1>1, <1>3, <2>1, <2>2, <2>3, PlannedRowIs
  <2>5. d \in planned
    BY <1>1, <2>3 DEF Structure, Calendar, Opened
  <2>6. /\ splits' = [splits EXCEPT ![d][s0] = Transformation(i)]
        /\ UNCHANGED <<rows, next, phase, planned, sources, logs, renames>> /\ row' = row
    BY <1>3, <2>1, <2>2, <2>3 DEF PlanStockSplit, Refuse, PlannedSymbol, PlannedRow, row
  <2>7. i \in Pending /\ Pending' = Pending
    BY <1>1, <2>3, <2>4, <2>5, <2>6 DEF Pending, Structure, Calendar, RowsOn, Report
  <2>8. \A p \in planned : p <= d
    BY <2>3, <2>7, PendingToday
  <2>9. \A e \in Day, n \in Symbol : e # d \/ n # s0 => splits'[e][n] = splits[e][n]
    BY <1>1, <2>6 DEF Typed, PlansTyped
  <2>10. EarlierKept(d)
    BY <2>6, <2>9, HistoryAssumption DEF EarlierKept, Day
  <2>11. \A s \in Symbol : CameFrom'[d - 1][s] = CameFrom[d - 1][s]
    BY <2>6, <2>10, EarlierSame
  <2>12. SourcesAtPlan'
    BY <1>1, <2>3, <2>6, <2>11 DEF SourcesInv, SourcesAtPlan
  <2>13. SourcesInDay'
    <3> SUFFICES ASSUME NEW s \in Symbol
                 PROVE  Behind(d, s)' = Gained(d, s)'
      BY <2>3, <2>6 DEF SourcesInDay
    <3>1. \A j : Noted(j)' <=> Noted(j)
      BY <2>6 DEF Noted
    <3>2. EndsAt(d, s)' = EndsAt(d, s) /\ Gained(d, s)' = Gained(d, s)
      BY <1>1, <2>6, <2>10, <3>1, GainedStays
    <3>3. Behind(d, s) = Gained(d, s)
      BY <1>1, <2>3, <2>7 DEF SourcesInv, SourcesInDay
    <3> QED
      BY <2>6, <3>2, <3>3 DEF Behind
  <2>14. SourcesSettled'
    BY <2>7 DEF SourcesSettled
  <2>15. ASSUME NEW k \in DOMAIN rows
         PROVE  DeltaIsWhole(k)'
    <3>1. rows[k].date \in Day /\ rows[k].symbol \in Symbol
      BY <1>1, RowPlace
    <3>2. CASE rows[k].date # d \/ rows[k].symbol # s0
      <4>1. splits'[rows[k].date][rows[k].symbol] = splits[rows[k].date][rows[k].symbol]
        BY <2>9, <3>1, <3>2
      <4> QED
        BY <2>6, <2>8, <2>10, <4>1, DeltasStay DEF SourcesInv
    <3>3. CASE rows[k].date = d /\ rows[k].symbol = s0
      <4> SUFFICES ASSUME rows[k].source = "broker", SplitRowsOn(d, s0) = {k}
                   PROVE  CameFrom'[d - 1][s0] \cup {rows[j].account : j \in Increases(RowsBefore(k))'}
                            \subseteq {rows[k].account}
        BY <2>6, <3>3 DEF DeltaIsWhole, SplitRowsOn, RowsOn
      <4>1. k = i
        BY <2>4 DEF SplitRowsOn, RowsOn
      <4>2. Contributors(i) \subseteq {rows[i].account}
        BY <2>4, <4>1 DEF SplitRefused
      <4>3. sources[s0] = CameFrom[d - 1][s0]
        BY <1>1, <2>3 DEF SourcesInv, SourcesAtPlan
      <4>4. Increases(RowsBefore(k))' = Increases(RowsBefore(k))
        <5>1. RowsBefore(k)' = RowsBefore(k)
          BY <1>1, <2>6, BeforeStays
        <5> QED
          BY <2>6, <5>1 DEF Increases, Sign
      <4> QED
        BY <2>4, <2>11, <4>1, <4>2, <4>3, <4>4 DEF Contributors
    <3> QED
      BY <3>2, <3>3
  <2> QED
    BY <2>12, <2>13, <2>14, <2>15, <2>6 DEF SourcesInv
<1> QED
  BY <1>2, <1>3

LEMMA StepSources == Agreement /\ SourcesInv /\ [Next]_vars => SourcesInv'
<1> SUFFICES ASSUME Agreement, SourcesInv, [Next]_vars
             PROVE  SourcesInv'
  OBVIOUS
<1>1. Structure /\ Typed /\ Agreement'
  BY StepAgrees DEF Agreement, Structure
<1>2. CASE AddAcquisition \/ AddDisposal \/ AddTransferToSpouse \/ AddGift
           \/ AddManagementFee \/ PassOver
  <2>1. UNCHANGED sources
    BY <1>2 DEF AddAcquisition, AddDisposal, AddTransferToSpouse, AddGift,
       AddManagementFee, PassOver, Refuse
  <2> QED
    BY <1>1, <1>2, <2>1, HandlersMove, MovingSources, SourcesRefused
<1>3. CASE AddRename
  BY <1>1, <1>3, RenamingSources
<1>4. CASE RefuseOther
  BY <1>1, <1>4, SourcesRefused DEF RefuseOther
<1> QED
  BY <1>1, <1>2, <1>3, <1>4, OpeningSources, PlanningSources, EndsSources, PassingSources,
     StutterSources DEF Next

LEMMA SourcesMatch == Agreement /\ SourcesInv => SourcesMatchHolding /\ BrokerDeltaIsWhole
<1> SUFFICES ASSUME Agreement, SourcesInv
             PROVE  SourcesMatchHolding /\ BrokerDeltaIsWhole
  OBVIOUS
<1>1. Structure /\ Typed
  BY DEF Agreement, Structure
<1>2. ASSUME BetweenDays
      PROVE  SourcesMatchHolding
  <2>1. /\ rows \in Ledgers /\ DOMAIN rows = 1 .. Len(rows) /\ Len(rows) \in Nat
        /\ next \in 1 .. Len(rows) + 1 /\ planned \subseteq Day /\ Day = 1 .. LastDay
        /\ LastDay \in Nat /\ \A i \in DOMAIN rows : i \in Int /\ rows[i].date \in Day
    BY <1>1, RowType, RowPlace, HistoryAssumption DEF Typed, PlaceTyped, Day
  <2>2. Pending = {}
    <3> SUFFICES ASSUME Pending # {}
                 PROVE  FALSE
      OBVIOUS
    <3>1. next <= Len(rows) /\ row.date \in planned
      BY <1>1, PendingToday
    <3> QED
      BY <1>1, <1>2, <2>1, <3>1 DEF BetweenDays, Structure, Calendar
  <2>3. LastClosed \in 0 .. LastDay /\ Reached(LastClosed)
    <3>1. CASE phase = "ingested"
      <4>1. \A i \in DOMAIN rows : rows[i].date \in planned
        BY <1>1, <2>1, <3>1 DEF Structure, Calendar
      <4> QED
        BY <2>1, <3>1, <4>1 DEF LastClosed, Reached
    <3>2. CASE phase # "ingested"
      <4>1. next \in DOMAIN rows /\ row = rows[next] /\ row.date \notin planned
        BY <1>2, <2>1, <3>2 DEF BetweenDays, row
      <4>2. row.date \in Day /\ \A p \in planned : p <= row.date /\ p # row.date
        BY <1>1, <2>1, <4>1 DEF Structure, Calendar
      <4>3. ASSUME NEW i \in DOMAIN rows, rows[i].date <= row.date - 1
            PROVE  rows[i].date \in planned
        <5>1. ~(next <= i)
          BY <1>1, <2>1, <4>1, <4>3, RowsInOrder
        <5> QED
          BY <1>1, <2>1, <5>1 DEF Structure, Calendar
      <4> QED
        BY <2>1, <3>2, <4>2, <4>3 DEF LastClosed, Reached
    <3> QED
      BY <3>1, <3>2
  <2> QED
    BY <1>2, <2>2, <2>3 DEF SourcesInv, SourcesSettled, SourcesMatchHolding, BetweenDays
<1>3. SourcesMatchHolding
  BY <1>2 DEF SourcesMatchHolding
<1>4. BrokerDeltaIsWhole
  BY DEF SourcesInv, DeltaIsWhole, BrokerDeltaIsWhole
<1> QED
  BY <1>3, <1>4

(***************************************************************************)
(* The accounts kept beside a holding are those its units came from, at    *)
(* every close: holding_sources forgets none for a same-day sale or a      *)
(* rename, and keeps none past an emptied holding.                         *)
(***************************************************************************)
THEOREM SourcesAlwaysMatch == Spec => []SourcesMatchHolding
<1>1. Init => Agreement /\ SourcesInv
  BY InitAgrees, InitSources
<1>2. Agreement /\ SourcesInv /\ [Next]_vars => (Agreement /\ SourcesInv)'
  BY StepAgrees, StepSources
<1>3. Agreement /\ SourcesInv => SourcesMatchHolding
  BY SourcesMatch
<1> QED
  BY <1>1, <1>2, <1>3, PTL DEF Spec

(***************************************************************************)
(* A broker's own reorganisation row is read as a change to the whole      *)
(* holding only when all of it came from that account: what                *)
(* _plan_stock_split asks of holding_sources is asked of the rows.         *)
(***************************************************************************)
THEOREM BrokerDeltaAlwaysWhole == Spec => []BrokerDeltaIsWhole
<1>1. Init => Agreement /\ SourcesInv
  BY InitAgrees, InitSources
<1>2. Agreement /\ SourcesInv /\ [Next]_vars => (Agreement /\ SourcesInv)'
  BY StepAgrees, StepSources
<1>3. Agreement /\ SourcesInv => BrokerDeltaIsWhole
  BY SourcesMatch
<1> QED
  BY <1>1, <1>2, <1>3, PTL DEF Spec

----------------------------------------------------------------------------
(***************************************************************************)
(* Sales on the days that rename their holding.  What plan_renames counted *)
(* is what the day's rows say by themselves, and each sale let through     *)
(* leaves the sales read so far within it, under whichever names.          *)
(***************************************************************************)
OpenedWith(d) == [n \in Symbol |-> Replay[d - 1][n]]
RowsOf(d, s) == {i \in RowsOn(d) : rows[i].symbol \in Class(d, s)}
SalesOf(d, s) == {i \in RowsOf(d, s) : rows[i].action = "SELL"}
ReadOf(d, s) == {i \in SalesOf(d, s) : i \in ReadRows}
Sold(d, s) == SumFunctionOnSet(pool_quantity, ReadOf(d, s))
CanGive(d, s) ==
  SumFunctionOnSet(OpenedWith(d), Class(d, s)) + SumFunctionOnSet(Adds, RowsOf(d, s))
NoneShort(d, s) == \A n \in Class(d, s) : Replay[d - 1][n] >= 0

RenamedHere(d, s) == components[d][s].names # {}
AsStated(j) ==
  (\A n \in Class(rows[j].date, rows[j].symbol) : ~splits[rows[j].date][n].planned)
  => pool_quantity[j] = rows[j].quantity
CapacityIs(d, s) ==
  d \in planned /\ Supported(d, s) /\ components[d][s].capacity = CanGive(d, s)
EmptyToday(d, s) ==
  Pending # {} /\ d = row.date => \A n \in Class(d, s) : Held(n) = 0
SalesWithin(d, s) ==
  /\ Left(d, s) = components[d][s].capacity - Sold(d, s)
  /\ NoneShort(d, s) =>
       /\ Left(d, s) >= 0
       /\ components[d][s].capacity = 0 => EmptyToday(d, s)
RenameDays ==
  phase # "refused" =>
    /\ \A j \in DOMAIN rows : AsStated(j)
    /\ \A d \in Day, s \in Symbol : RenamedHere(d, s) => CapacityIs(d, s) /\ SalesWithin(d, s)

\* The sums of the property, as sums over the rows and names they range over.
PoolBy(indices) == [i \in indices |-> pool_quantity[i]]
LEMMA PoolSum ==
  ASSUME NEW indices, IsFiniteSet(indices)
  PROVE  MapThenSumSet(LAMBDA i : pool_quantity[i], indices)
           = SumFunctionOnSet(PoolBy(indices), indices)
<1> DEFINE f == PoolBy(indices)
           Fold(sum) == sum = [s \in SUBSET indices |->
                          IF s = {} THEN 0 ELSE pool_quantity[Pick(s)] + sum[s \ {Pick(s)}]]
           chosen == CHOOSE sum : Fold(sum)
<1>1. \A s \in SUBSET indices : s # {} => f[Pick(s)] = pool_quantity[Pick(s)]
  BY DEF Pick, PoolBy
<1>2. PartialSums(f, indices) = [s \in SUBSET indices |-> Step(f, s, PartialSums(f, indices))]
  BY PartialSumsFold
<1>3. Fold(PartialSums(f, indices))
  BY <1>1, <1>2 DEF Step
<1>4. Fold(chosen)
  BY <1>3
<1>5. MapThenSumSet(LAMBDA i : pool_quantity[i], indices) = chosen[indices]
  BY DEF MapThenSumSet, MapThenFoldSet, Pick
<1> HIDE DEF chosen, f
<1>6. \A s \in SUBSET indices : chosen[s] = Step(f, s, chosen)
  BY <1>1, <1>4 DEF Step
<1> QED
  BY <1>5, <1>6, SumIsAnyFold DEF f

ClosedBy(d, names) == [n \in names |-> Replay[d - 1][n]]
LEMMA ClosedSum ==
  ASSUME NEW names, IsFiniteSet(names), NEW d
  PROVE  MapThenSumSet(LAMBDA n : Replay[d - 1][n], names)
           = SumFunctionOnSet(ClosedBy(d, names), names)
<1> DEFINE f == ClosedBy(d, names)
           Fold(sum) == sum = [s \in SUBSET names |->
                          IF s = {} THEN 0 ELSE Replay[d - 1][Pick(s)] + sum[s \ {Pick(s)}]]
           chosen == CHOOSE sum : Fold(sum)
<1>1. \A s \in SUBSET names : s # {} => f[Pick(s)] = Replay[d - 1][Pick(s)]
  BY DEF Pick, ClosedBy
<1>2. PartialSums(f, names) = [s \in SUBSET names |-> Step(f, s, PartialSums(f, names))]
  BY PartialSumsFold
<1>3. Fold(PartialSums(f, names))
  BY <1>1, <1>2 DEF Step
<1>4. Fold(chosen)
  BY <1>3
<1>5. MapThenSumSet(LAMBDA n : Replay[d - 1][n], names) = chosen[names]
  BY DEF MapThenSumSet, MapThenFoldSet, Pick
<1> HIDE DEF chosen, f
<1>6. \A s \in SUBSET names : chosen[s] = Step(f, s, chosen)
  BY <1>1, <1>4 DEF Step
<1> QED
  BY <1>5, <1>6, SumIsAnyFold DEF f

\* A part of a sum of naturals is at most the whole.
LEMMA SumOfMore ==
  ASSUME NEW S, IsFiniteSet(S), NEW f, \A x \in S : f[x] \in Int /\ f[x] >= 0,
         NEW T \in SUBSET S
  PROVE  /\ SumFunctionOnSet(f, T) \in Int /\ SumFunctionOnSet(f, S) \in Int
         /\ SumFunctionOnSet(f, T) >= 0 /\ SumFunctionOnSet(f, T) <= SumFunctionOnSet(f, S)
<1> DEFINE g == [x \in S |-> IF x \in T THEN f[x] ELSE 0]
           h == [x \in S |-> IF x \in T THEN 0 ELSE f[x]]
<1>1. IsFiniteSet(T) /\ \A x \in T : x \in S
  BY FS_Subset
<1>2. \A x \in S : /\ g[x] \in Int /\ h[x] \in Int /\ h[x] >= 0 /\ f[x] = g[x] + h[x]
                   /\ (x \in T => g[x] = f[x]) /\ (x \notin T => g[x] = 0)
  OBVIOUS
<1> HIDE DEF g, h
<1>3. SumFunctionOnSet(f, S) = SumFunctionOnSet(g, S) + SumFunctionOnSet(h, S)
  BY <1>2, SumPlus
<1>4. SumFunctionOnSet(g, S) = SumFunctionOnSet(g, T)
  BY <1>2, SumOfSupport
<1>5. SumFunctionOnSet(g, T) = SumFunctionOnSet(f, T)
  BY <1>1, <1>2, SumSame
<1>6. SumFunctionOnSet(h, S) \in Int /\ SumFunctionOnSet(h, S) >= 0
  BY <1>2, SumAtLeast
<1>7. SumFunctionOnSet(f, T) \in Int /\ SumFunctionOnSet(f, T) >= 0
  BY <1>1, SumAtLeast
<1> QED
  BY <1>3, <1>4, <1>5, <1>6, <1>7

LEMMA SalesType ==
  ASSUME Typed, NEW d \in Day, NEW s \in Symbol
  PROVE  /\ RowsOf(d, s) \in SUBSET DOMAIN rows /\ IsFiniteSet(RowsOf(d, s))
         /\ SalesOf(d, s) \in SUBSET RowsOf(d, s) /\ IsFiniteSet(SalesOf(d, s))
         /\ ReadOf(d, s) \in SUBSET SalesOf(d, s) /\ IsFiniteSet(ReadOf(d, s))
         /\ \A i \in SalesOf(d, s) : pool_quantity[i] \in Int /\ pool_quantity[i] >= 0
         /\ Sold(d, s) \in Int /\ Sold(d, s) >= 0
         /\ \A n \in Symbol : OpenedWith(d)[n] = Replay[d - 1][n] /\ OpenedWith(d)[n] \in Int
         /\ SumFunctionOnSet(OpenedWith(d), Class(d, s)) \in Int
         /\ SumFunctionOnSet(Adds, RowsOf(d, s)) \in Int
         /\ SumFunctionOnSet(Adds, RowsOf(d, s)) >= 0
         /\ CanGive(d, s) \in Int
<1>1. /\ RowsOf(d, s) \in SUBSET DOMAIN rows /\ SalesOf(d, s) \in SUBSET RowsOf(d, s)
      /\ ReadOf(d, s) \in SUBSET SalesOf(d, s)
  BY DEF RowsOf, SalesOf, ReadOf, RowsOn
<1>2. IsFiniteSet(RowsOf(d, s)) /\ IsFiniteSet(SalesOf(d, s)) /\ IsFiniteSet(ReadOf(d, s))
  BY <1>1, RowsFinite DEF Typed, PlaceTyped
<1>3. \A i \in SalesOf(d, s) : pool_quantity[i] \in Int /\ pool_quantity[i] >= 0
  BY <1>1, SignOf DEF SalesOf, Typed, PoolTyped, Decreasing, Sales
<1>4. Sold(d, s) \in Int /\ Sold(d, s) >= 0
  BY <1>1, <1>2, <1>3, SumAtLeast DEF Sold
<1>5. \A n \in Symbol : OpenedWith(d)[n] = Replay[d - 1][n] /\ OpenedWith(d)[n] \in Int
  <2>1. d - 1 \in 0 .. LastDay
    BY HistoryAssumption DEF Day
  <2> QED
    BY <2>1, ReplayType DEF OpenedWith
<1>6. SumFunctionOnSet(OpenedWith(d), Class(d, s)) \in Int
  <2>1. IsFiniteSet(Class(d, s)) /\ \A n \in Class(d, s) : n \in Symbol
    BY FundsType
  <2>2. \A n \in Class(d, s) : OpenedWith(d)[n] \in Int
    BY <1>5, <2>1
  <2> QED
    BY <2>1, <2>2, SumType
<1>7. SumFunctionOnSet(Adds, RowsOf(d, s)) \in Int /\ SumFunctionOnSet(Adds, RowsOf(d, s)) >= 0
  BY <1>1, AddsSum
<1> QED
  BY <1>1, <1>2, <1>3, <1>4, <1>5, <1>6, <1>7 DEF CanGive

\* The property's words in those of the invariant.
LEMMA TooMuchIs ==
  ASSUME Typed, EndsMerged, NEW d \in Day, NEW s \in Symbol
  PROVE  /\ SoldTooMuch(d, s) <=>
              RenamedHere(d, s) /\ SumFunctionOnSet(pool_quantity, SalesOf(d, s)) > CanGive(d, s)
         /\ (\A n \in NamesOn(d, s) : Replay[d - 1][n] >= 0) <=> NoneShort(d, s)
<1> DEFINE names == Class(d, s)
           of == RowsOf(d, s)
           sold == SalesOf(d, s)
<1>1. NamesOn(d, s) = names /\ names \subseteq Symbol /\ IsFiniteSet(names)
  BY NamesAreClass, FundsType
<1>2. /\ of \in SUBSET DOMAIN rows /\ IsFiniteSet(of) /\ IsFiniteSet(sold)
      /\ \A n \in Symbol : OpenedWith(d)[n] = Replay[d - 1][n]
  BY SalesType
<1>3. RowsUnder(d, names) = of
  BY DEF RowsUnder, RowsOf
<1>4. SoldOn(d, names) = SumFunctionOnSet(pool_quantity, sold)
  <2>1. SoldOn(d, names) = MapThenSumSet(LAMBDA i : pool_quantity[i], sold)
    BY <1>3, Zenon DEF SoldOn, SalesOf
  <2> HIDE DEF sold, of, names
  <2>2. MapThenSumSet(LAMBDA i : pool_quantity[i], sold) = SumFunctionOnSet(PoolBy(sold), sold)
    BY <1>2, PoolSum
  <2>3. SumFunctionOnSet(PoolBy(sold), sold) = SumFunctionOnSet(pool_quantity, sold)
    <3>1. \A i \in sold : PoolBy(sold)[i] = pool_quantity[i]
      BY DEF PoolBy
    <3> QED
      BY <1>2, <3>1, SumSame
  <2> QED
    BY <2>1, <2>2, <2>3
<1>5. CanGiveUp(d, names) = CanGive(d, s)
  <2>1. CanGiveUp(d, names) = MapThenSumSet(LAMBDA n : Replay[d - 1][n], names)
                              + SignedQuantity(Increases(of), pool_quantity)
    BY <1>3, Zenon DEF CanGiveUp
  <2>2. SignedQuantity(Increases(of), pool_quantity) = SumFunctionOnSet(Adds, of)
    BY <1>2, AddsSum
  <2>3. MapThenSumSet(LAMBDA n : Replay[d - 1][n], names)
          = SumFunctionOnSet(ClosedBy(d, names), names)
    <3> HIDE DEF names
    <3> QED
      BY <1>1, ClosedSum
  <2>4. SumFunctionOnSet(ClosedBy(d, names), names) = SumFunctionOnSet(OpenedWith(d), names)
    <3>1. \A n \in names : ClosedBy(d, names)[n] = OpenedWith(d)[n]
      BY <1>1, <1>2 DEF ClosedBy
    <3> QED
      BY <1>1, <3>1, SumSame
  <2> QED
    BY <2>1, <2>2, <2>3, <2>4 DEF CanGive
<1>6. SoldTooMuch(d, s) <=>
        RenamedHere(d, s) /\ SoldOn(d, NamesOn(d, s)) > CanGiveUp(d, NamesOn(d, s))
  BY Zenon DEF SoldTooMuch, RenamedHere
<1>7. SoldOn(d, NamesOn(d, s)) = SumFunctionOnSet(pool_quantity, sold)
  BY <1>1, <1>4
<1>8. CanGiveUp(d, NamesOn(d, s)) = CanGive(d, s)
  BY <1>1, <1>5
<1> HIDE DEF of, names, sold
<1>9. SoldTooMuch(d, s) <=>
        RenamedHere(d, s) /\ SumFunctionOnSet(pool_quantity, sold) > CanGive(d, s)
  BY <1>6, <1>7, <1>8
<1> QED
  BY <1>1, <1>9 DEF NoneShort, names, sold

LEMMA SupportedWhole ==
  ASSUME Structure, NEW d \in Day, NEW s \in Symbol, Supported(d, s)
  PROVE  \A n \in Class(d, s) : ~splits[d][n].planned /\ SplitRowsOn(d, n) = {}
<1>1. \A n \in Class(d, s) : SplitRowsOn(d, n) = {}
  BY DEF SplitRowsOn, RowsOn, Supported, RENAME_DAY_UNSUPPORTED_ACTIONS
<1>2. \A n \in Class(d, s) : n \in Symbol
  BY DEF Class
<1> QED
  BY <1>1, <1>2 DEF Structure, PlansFit, SplitRowsOn

\* A planned day's record stands while nothing it is counted from changes.
LEMMA CapacityStays ==
  ASSUME Typed, NEW d \in Day, NEW s \in Symbol, CapacityIs(d, s),
         rows' = rows, d \in planned', components'[d][s] = components[d][s],
         \A n \in Symbol : renames'[d][n] = renames[d][n],
         \A n \in Symbol : Replay'[d - 1][n] = Replay[d - 1][n],
         \A i \in RowsOf(d, s) : pool_quantity'[i] = pool_quantity[i]
  PROVE  /\ CapacityIs(d, s)' /\ CanGive(d, s)' = CanGive(d, s)
         /\ Class(d, s)' = Class(d, s) /\ RowsOf(d, s)' = RowsOf(d, s)
         /\ SalesOf(d, s)' = SalesOf(d, s)
         /\ NoneShort(d, s)' <=> NoneShort(d, s)
<1>1. Class(d, s)' = Class(d, s)
  BY DEF Class, EndName
<1>2. RowsOf(d, s)' = RowsOf(d, s)
  BY <1>1 DEF RowsOf, RowsOn
<1>3. SalesOf(d, s)' = SalesOf(d, s)
  BY <1>2 DEF SalesOf
<1>4. Supported(d, s)'
  BY <1>1 DEF CapacityIs, Supported, RowsOn
<1>5. /\ RowsOf(d, s) \in SUBSET DOMAIN rows /\ IsFiniteSet(RowsOf(d, s))
      /\ IsFiniteSet(Class(d, s)) /\ Class(d, s) \subseteq Symbol
  BY SalesType, FundsType
<1>6. SumFunctionOnSet(Adds', RowsOf(d, s)) = SumFunctionOnSet(Adds, RowsOf(d, s))
  <2>1. \A i \in RowsOf(d, s) : Adds'[i] = Adds[i]
    BY <1>5 DEF Adds, Sign
  <2> QED
    BY <1>5, <2>1, SumSame
<1>7. SumFunctionOnSet(OpenedWith(d)', Class(d, s)) = SumFunctionOnSet(OpenedWith(d), Class(d, s))
  <2>1. \A n \in Class(d, s) : OpenedWith(d)'[n] = OpenedWith(d)[n]
    BY <1>5 DEF OpenedWith
  <2> QED
    BY <1>5, <2>1, SumSame
<1>8. CanGive(d, s)' = CanGive(d, s)
  BY <1>1, <1>2, <1>6, <1>7 DEF CanGive
<1>9. NoneShort(d, s)' <=> NoneShort(d, s)
  BY <1>1, <1>5 DEF NoneShort
<1>10. CapacityIs(d, s)'
  BY <1>4, <1>8 DEF CapacityIs
<1> QED
  BY <1>1, <1>2, <1>3, <1>8, <1>9, <1>10

LEMMA RenameDayStays ==
  ASSUME Typed, NEW d \in Day, NEW s \in Symbol, CapacityIs(d, s), SalesWithin(d, s),
         rows' = rows, d \in planned', components'[d][s] = components[d][s],
         \A n \in Symbol : renames'[d][n] = renames[d][n],
         \A n \in Symbol : Replay'[d - 1][n] = Replay[d - 1][n],
         \A n \in Class(d, s) : logs'[d][n].disposed = logs[d][n].disposed,
         \A i \in RowsOf(d, s) : pool_quantity'[i] = pool_quantity[i],
         ReadOf(d, s)' = ReadOf(d, s),
         NoneShort(d, s) /\ components[d][s].capacity = 0 /\ EmptyToday(d, s)
           => EmptyToday(d, s)'
  PROVE  CapacityIs(d, s)' /\ SalesWithin(d, s)'
<1>1. /\ CapacityIs(d, s)' /\ Class(d, s)' = Class(d, s)
      /\ NoneShort(d, s)' <=> NoneShort(d, s)
  BY CapacityStays
<1>2. /\ RowsOf(d, s) \in SUBSET DOMAIN rows
      /\ ReadOf(d, s) \subseteq RowsOf(d, s) /\ IsFiniteSet(ReadOf(d, s))
      /\ IsFiniteSet(Class(d, s)) /\ Class(d, s) \subseteq Symbol
  BY SalesType, FundsType
<1>3. SumFunctionOnSet(pool_quantity', ReadOf(d, s)) = SumFunctionOnSet(pool_quantity, ReadOf(d, s))
  <2>1. \A i \in ReadOf(d, s) : pool_quantity'[i] = pool_quantity[i]
    BY <1>2
  <2> QED
    BY <1>2, <2>1, SumSame
<1>4. SumFunctionOnSet(DisposedOn(d)', Class(d, s)) = SumFunctionOnSet(DisposedOn(d), Class(d, s))
  <2>1. \A n \in Class(d, s) : DisposedOn(d)'[n] = DisposedOn(d)[n]
    BY <1>2 DEF DisposedOn
  <2> QED
    BY <1>2, <2>1, SumSame
<1>5. Sold(d, s)' = Sold(d, s) /\ Left(d, s)' = Left(d, s)
  BY <1>1, <1>3, <1>4 DEF Sold, Left
<1> QED
  BY <1>1, <1>5 DEF SalesWithin

LEMMA EarlierReplay ==
  ASSUME NEW d \in Day, EarlierKept(d)
  PROVE  \A n \in Symbol : Replay'[d - 1][n] = Replay[d - 1][n]
<1>1. d - 1 \in 0 .. LastDay /\ d - 1 \in 0 .. d - 1
  BY HistoryAssumption DEF Day
<1> QED
  BY <1>1, ReplaySame DEF EarlierKept

LEMMA RenameDaysStay ==
  ASSUME Structure, RenameDays, phase # "refused",
         UNCHANGED <<rows, planned, pool_quantity, renames, components, splits>>,
         \A d \in Day, n \in Symbol : logs'[d][n].disposed = logs[d][n].disposed,
         \A d \in planned : EarlierKept(d),
         \A d \in planned, s \in Symbol : ReadOf(d, s)' = ReadOf(d, s),
         \A d \in planned, s \in Symbol : EmptyToday(d, s) => EmptyToday(d, s)'
  PROVE  RenameDays'
<1>1. \A j \in DOMAIN rows : AsStated(j)'
  BY DEF RenameDays, AsStated, Class, EndName
<1>2. ASSUME NEW d \in Day, NEW s \in Symbol, RenamedHere(d, s)'
      PROVE  CapacityIs(d, s)' /\ SalesWithin(d, s)'
  <2>1. CapacityIs(d, s) /\ SalesWithin(d, s) /\ Typed
    BY <1>2 DEF RenameDays, RenamedHere, Structure
  <2>2. d \in planned /\ Supported(d, s)
    BY <2>1 DEF CapacityIs
  <2>3. \A n \in Symbol : Replay'[d - 1][n] = Replay[d - 1][n]
    BY <2>2, EarlierReplay
  <2>4. \A n \in Class(d, s) : logs'[d][n].disposed = logs[d][n].disposed
    BY DEF Class
  <2>5. ReadOf(d, s)' = ReadOf(d, s)
    BY <2>2
  <2>6. EmptyToday(d, s) => EmptyToday(d, s)'
    BY <2>2
  <2> QED
    BY <2>1, <2>2, <2>3, <2>4, <2>5, <2>6, RenameDayStays
<1> QED
  BY <1>1, <1>2 DEF RenameDays

LEMMA RenameDaysRefused == ASSUME NEW reason, Refuse(reason) PROVE RenameDays'
BY DEF RenameDays, Refuse

LEMMA InitRenameDays == Init => RenameDays
<1> SUFFICES ASSUME Init
             PROVE  RenameDays
  OBVIOUS
<1>1. \A j \in DOMAIN rows : pool_quantity[j] = rows[j].quantity
  BY RowType DEF Init
<1>2. \A d \in Day, s \in Symbol : ~RenamedHere(d, s)
  BY DEF Init, RenamedHere
<1> QED
  BY <1>1, <1>2 DEF RenameDays, AsStated

\* Days planned are at or before the row's.
LEMMA PlannedSoFar ==
  ASSUME Structure, phase \in Opened
  PROVE  /\ next \in DOMAIN rows /\ row = rows[next] /\ row.date \in planned
         /\ row.date \in Day /\ planned \subseteq Day
         /\ \A d \in planned : d <= row.date
<1>1. /\ next \in DOMAIN rows /\ row = rows[next] /\ row.date \in planned /\ row.date \in Day
      /\ planned \subseteq Day /\ next \in Int
  BY RowRead, RowType DEF Structure, Typed, PlaceTyped, Calendar
<1> QED
  BY <1>1 DEF Structure, Calendar

LEMMA EndsRename ==
  ASSUME Structure, RenameDays, NoteSource \/ Finish \/ UNCHANGED vars
  PROVE  RenameDays'
<1>1. CASE phase = "refused"
  BY <1>1 DEF RenameDays, NoteSource, Finish, vars
<1>2. CASE phase # "refused"
  <2>1. /\ UNCHANGED <<rows, next, planned, portfolio, pool_quantity, renames, components,
                       splits, logs>>
        /\ phase' = "post" <=> phase = "post"
    BY DEF NoteSource, Finish, vars
  <2>2. \A d \in planned : EarlierKept(d)
    BY <2>1 DEF EarlierKept
  <2>3. ReadRows' = ReadRows /\ Pending' = Pending /\ row' = row
    BY <2>1 DEF ReadRows, Pending, row
  <2>4. \A d, s : Class(d, s)' = Class(d, s) /\ Held(s)' = Held(s)
    BY <2>1 DEF Class, EndName, Held
  <2>5. \A d \in planned, s \in Symbol : ReadOf(d, s)' = ReadOf(d, s)
    BY <2>1, <2>3, <2>4 DEF ReadOf, SalesOf, RowsOf, RowsOn
  <2>6. \A d \in planned, s \in Symbol : EmptyToday(d, s) => EmptyToday(d, s)'
    BY <2>3, <2>4 DEF EmptyToday
  <2> QED
    BY <1>2, <2>1, <2>2, <2>5, <2>6, RenameDaysStay
<1> QED
  BY <1>1, <1>2

LEMMA PassingRename ==
  ASSUME Structure, Structure', RenameDays, AddEri \/ PostRow
  PROVE  RenameDays'
<1>1. phase \in Opened /\ phase # "refused"
  BY DEF AddEri, PostRow, Reading, Opened
<1>2. CASE \E reason : Refuse(reason)
  BY <1>2, RenameDaysRefused
<1>3. CASE ~\E reason : Refuse(reason)
  <2>1. PassesRow
    BY <1>3, RowPassed DEF Structure
  <2>2. /\ next \in DOMAIN rows /\ row = rows[next] /\ row.date \in planned
        /\ row.date \in Day /\ planned \subseteq Day /\ \A d \in planned : d <= row.date
    BY <1>1, PlannedSoFar
  <2>3. /\ next' = next + 1 /\ phase' = "open"
        /\ UNCHANGED <<rows, planned, pool_quantity, renames, components, splits>>
    BY <2>1 DEF PassesRow
  <2>4. \A d \in planned : EarlierKept(d)
    <3> SUFFICES ASSUME NEW d \in planned, NEW e \in 1 .. d - 1, NEW n \in Symbol
                 PROVE  /\ renames'[e][n] = renames[e][n] /\ splits'[e][n] = splits[e][n]
                        /\ logs'[e][n].acquired = logs[e][n].acquired
                        /\ logs'[e][n].disposed = logs[e][n].disposed
                        /\ logs'[e][n].transferred = logs[e][n].transferred
      BY DEF EarlierKept
    <3>1. d \in Day /\ Day = 1 .. LastDay /\ LastDay \in Nat
      BY <2>2, HistoryAssumption DEF Day
    <3>2. e \in Day /\ e # row.date
      BY <2>2, <3>1
    <3> QED
      BY <2>1, <2>3, <3>2 DEF PassesRow
  <2>5. Pending' = Pending \ {next} /\ (Pending' # {} => row'.date = row.date)
    BY <2>1, PendingPassed
  <2>6. PostRow \/ row.action = Report
    BY DEF AddEri, Reading, Report
  <2>7. ReadRows' = ReadRows \cup {next}
    BY <1>1, <2>2, <2>3, RowType DEF ReadRows, Structure, Typed, PlaceTyped
  <2>8. ASSUME NEW d \in planned, NEW s \in Symbol
        PROVE  ReadOf(d, s)' = ReadOf(d, s)
    <3>1. SalesOf(d, s)' = SalesOf(d, s)
      BY <2>3 DEF SalesOf, RowsOf, RowsOn, Class, EndName
    <3>2. next \in SalesOf(d, s) => next \in ReadRows
      BY <2>2, <2>6 DEF PostRow, ReadRows, SalesOf, Report
    <3> QED
      BY <2>7, <3>1, <3>2 DEF ReadOf
  <2>9. ASSUME NEW d \in planned, NEW s \in Symbol, EmptyToday(d, s)
        PROVE  EmptyToday(d, s)'
    <3> SUFFICES ASSUME Pending' # {}, d = row'.date, NEW n \in Class(d, s)'
                 PROVE  Held(n)' = 0
      BY DEF EmptyToday
    <3>1. n \in Class(d, s) /\ Pending # {} /\ d = row.date
      BY <2>3, <2>5 DEF Class, EndName
    <3>2. Held(n) = 0
      BY <2>9, <3>1 DEF EmptyToday
    <3>3. portfolio' = portfolio
      <4>1. CASE AddEri
        BY <1>3, <4>1 DEF AddEri
      <4>2. CASE PostRow
        <5>1. PICK i \in Pending : i # next
          BY <2>5
        <5>2. i \in LaterToday
          <6>1. rows[i].date = row.date /\ i \in DOMAIN rows /\ i >= next /\ rows[i].action # Report
            BY <5>1, PendingToday DEF Pending
          <6>2. i > next
            BY <2>2, <5>1, <6>1, RowType DEF Structure, Typed, PlaceTyped
          <6> QED
            BY <6>1, <6>2 DEF LaterToday, RowsOn, Report
        <5> QED
          BY <1>3, <4>2, <5>2 DEF PostRow
      <4> QED
        BY <4>1, <4>2
    <3> QED
      BY <3>2, <3>3 DEF Held
  <2>10. \A d \in Day, n \in Symbol : logs'[d][n].disposed = logs[d][n].disposed
    BY <2>1 DEF PassesRow
  <2> QED
    BY <1>1, <2>3, <2>4, <2>8, <2>9, <2>10, RenameDaysStay
<1> QED
  BY <1>2, <1>3

LEMMA RenamingRename ==
  ASSUME Structure, RenameDays, RenamesUnits
  PROVE  RenameDays'
<1>1. /\ phase = "row" /\ phase \in Opened /\ phase # "refused" /\ phase' = "post" /\ Handled
      /\ UNCHANGED <<rows, next, planned, pool_quantity, renames, components, splits, logs>>
      /\ row.action # Report /\ rows[next].action = "RENAME"
  BY DEF RenamesUnits, Handled, Opened, Report, row
<1>2. /\ next \in DOMAIN rows /\ row = rows[next] /\ row.date \in planned /\ row.date \in Day
  BY <1>1, PlannedSoFar
<1>3. /\ Pending' = Pending /\ row' = row /\ row.symbol \in Symbol /\ row.renamed \in Symbol
  BY <1>1, PendingHandled
<1>4. \A d \in planned : EarlierKept(d)
  BY <1>1 DEF EarlierKept
<1>5. ReadRows' \subseteq ReadRows \cup {next} /\ ReadRows \subseteq ReadRows'
  BY <1>1 DEF ReadRows
<1>6. \A d, s : Class(d, s)' = Class(d, s)
  BY <1>1 DEF Class, EndName
<1>7. \A d, s : ReadOf(d, s)' = ReadOf(d, s)
  <2>1. \A d, s : SalesOf(d, s)' = SalesOf(d, s) /\ next \notin SalesOf(d, s)
    BY <1>1, <1>6 DEF SalesOf, RowsOf, RowsOn
  <2> QED
    BY <1>5, <2>1 DEF ReadOf
<1>8. ASSUME NEW d \in planned, NEW s \in Symbol, EmptyToday(d, s)
      PROVE  EmptyToday(d, s)'
  <2> SUFFICES ASSUME Pending # {}, d = row.date, NEW n \in Class(d, s)
               PROVE  Held(n)' = 0
    BY <1>3, <1>6 DEF EmptyToday
  <2>1. \A m \in Class(d, s) : m \in Symbol /\ Held(m) = 0
    BY <1>8 DEF EmptyToday, Class
  <2>2. n = row.symbol => row.renamed \in Class(d, s)
    <3>1. renames[d][row.renamed] = row.symbol /\ renames[d][row.symbol] = row.symbol
      BY <1>2, RenamingKeepsSums
    <3> QED
      BY <1>3, <3>1 DEF Class, EndName
  <2> QED
    BY <2>1, <2>2 DEF RenamesUnits
<1> QED
  BY <1>1, <1>4, <1>7, <1>8, RenameDaysStay

\* A sale let through leaves the day's sales within what the names can give.
LEMMA SellingRename ==
  ASSUME Structure, MovesUnits, NEW d \in Day, d = row.date, NEW s \in Symbol,
         row.symbol \in Class(d, s), row.action = "SELL", CapacityIs(d, s), SalesWithin(d, s),
         AsStated(next)
  PROVE  CapacityIs(d, s)' /\ SalesWithin(d, s)'
<1>1. /\ Typed /\ phase = "row" /\ phase' = "post" /\ Handled /\ row.action # Report
      /\ UNCHANGED <<rows, next, planned, pool_quantity, renames, components, splits>>
  BY DEF MovesUnits, Handled, Structure, row, Report
<1>2. /\ next \in DOMAIN rows /\ row = rows[next] /\ row.symbol \in Symbol
      /\ Pending # {} /\ Pending' = Pending /\ row' = row /\ next \in Int
  BY <1>1, PendingHandled, RowType DEF row, Typed, PlaceTyped
<1>3. d \in planned /\ Supported(d, s) /\ components[d][s].capacity = CanGive(d, s)
  BY DEF CapacityIs
<1>4. EarlierKept(d)
  <2>1. \A e \in 1 .. d - 1 : e \in Day /\ e # d
    BY HistoryAssumption DEF Day
  <2> QED
    BY <1>1, <2>1 DEF EarlierKept, MovesUnits
<1>5. /\ CapacityIs(d, s)' /\ CanGive(d, s)' = CanGive(d, s)
      /\ Class(d, s)' = Class(d, s) /\ SalesOf(d, s)' = SalesOf(d, s)
      /\ NoneShort(d, s)' <=> NoneShort(d, s)
  BY <1>1, <1>3, <1>4, EarlierReplay, CapacityStays
<1>6. next \in SalesOf(d, s) /\ next \notin ReadOf(d, s)
  BY <1>1, <1>2 DEF SalesOf, RowsOf, RowsOn, ReadOf, ReadRows
<1>7. ReadOf(d, s)' = ReadOf(d, s) \cup {next}
  <2>1. ReadRows' = ReadRows \cup {next}
    BY <1>1, <1>2 DEF ReadRows
  <2> QED
    BY <1>5, <1>6, <2>1 DEF ReadOf
<1>8. Sold(d, s)' = Sold(d, s) + units /\ units \in Int /\ units >= 0
  <2>1. /\ IsFiniteSet(ReadOf(d, s)) /\ ReadOf(d, s) \subseteq SalesOf(d, s)
        /\ \A i \in SalesOf(d, s) : pool_quantity[i] \in Int /\ pool_quantity[i] >= 0
    BY <1>1, SalesType
  <2>2. SumFunctionOnSet(pool_quantity, ReadOf(d, s) \cup {next})
          = SumFunctionOnSet(pool_quantity, ReadOf(d, s)) + pool_quantity[next]
    BY <1>6, <2>1, SumAdd
  <2> QED
    BY <1>1, <1>6, <1>7, <2>1, <2>2 DEF Sold, units
<1>9. Sign(next) = -1 /\ Disposing = units /\ Moving = -units
  BY <1>2, <1>8, SignOf DEF Decreasing, Sales, Disposing, Moving
<1>10. Left(d, s)' = Left(d, s) - units /\ Left(d, s) \in Int /\ components[d][s].capacity \in Int
  BY <1>1, <1>9, MovingSums, FundsType
<1>11. AvailableUnits >= units
  BY <1>9 DEF MovesUnits
<1>12. /\ Class(d, row.symbol) = Class(d, s)
       /\ components[d][row.symbol].capacity = components[d][s].capacity
       /\ Left(d, row.symbol) = Left(d, s)
  <2>1. Class(d, row.symbol) = Class(d, s)
    BY DEF Class
  <2>2. components[d][row.symbol].capacity = components[d][s].capacity
    BY DEF Structure, PlansFit
  <2> QED
    BY <2>1, <2>2 DEF Left
<1>13. NoneShort(d, s) => Left(d, s)' >= 0
  <2>1. CASE components[d][s].capacity # 0
    <3>1. AvailableUnits = Left(d, row.symbol)
      BY <1>2, <1>12, <2>1, AvailableRenamed
    <3> QED
      BY <1>8, <1>10, <1>11, <1>12, <3>1
  <2>2. CASE NoneShort(d, s) /\ components[d][s].capacity = 0
    <3>1. AvailableUnits = Held(row.symbol)
      BY <1>2, <1>3, <1>12, <2>2, AvailableOther, SupportedWhole
    <3>2. Held(row.symbol) = 0 /\ Left(d, s) >= 0
      BY <1>2, <2>2 DEF SalesWithin, EmptyToday
    <3> QED
      BY <1>8, <1>10, <1>11, <3>1, <3>2
  <2> QED
    BY <2>1, <2>2
<1>14. NoneShort(d, s) => components[d][s].capacity # 0
  <2> SUFFICES ASSUME NoneShort(d, s), components[d][s].capacity = 0
               PROVE  FALSE
    OBVIOUS
  <2>1. AvailableUnits = Held(row.symbol)
    BY <1>2, <1>3, <1>12, AvailableOther, SupportedWhole
  <2>2. Held(row.symbol) = 0
    BY <1>2 DEF SalesWithin, EmptyToday
  <2>3. units > 0
    <3>1. pool_quantity[next] = rows[next].quantity
      BY <1>2, <1>3, <1>12, SupportedWhole DEF AsStated
    <3> QED
      BY <1>1, <1>2, <1>9, <3>1, RowType DEF units, Typed, PlaceTyped
  <2> QED
    BY <1>8, <1>11, <2>1, <2>2, <2>3
<1>15. Left(d, s)' = components'[d][s].capacity - Sold(d, s)'
  <2>1. Left(d, s) = components[d][s].capacity - Sold(d, s) /\ Sold(d, s) \in Int
    BY <1>1, SalesType DEF SalesWithin
  <2> QED
    BY <1>1, <1>8, <1>10, <2>1
<1> QED
  BY <1>1, <1>5, <1>13, <1>14, <1>15 DEF SalesWithin

\* Any other row leaves them as they were: no names that opened with
\* nothing and can give nothing are added to.
LEMMA MovingRename ==
  ASSUME Structure, RenameDays, MovesUnits
  PROVE  RenameDays'
<1>1. /\ Typed /\ phase = "row" /\ phase' = "post" /\ Handled /\ row.action # Report
      /\ phase # "refused"
      /\ UNCHANGED <<rows, next, planned, pool_quantity, renames, components, splits>>
      /\ row.action # "RENAME"
  BY DEF MovesUnits, Handled, Structure, row, Report
<1>2. /\ next \in DOMAIN rows /\ row = rows[next] /\ row.symbol \in Symbol
      /\ Pending # {} /\ Pending' = Pending /\ row' = row /\ next \in Int
      /\ row.date \in Day
  BY <1>1, PendingHandled, RowType DEF row, Typed, PlaceTyped
<1>3. \A d \in planned : d <= row.date /\ d \in Day
  BY <1>1, PlannedSoFar DEF Opened
<1>4. \A j \in DOMAIN rows : AsStated(j)'
  BY <1>1 DEF RenameDays, AsStated, Class, EndName
<1>5. ASSUME NEW d \in Day, NEW s \in Symbol, RenamedHere(d, s)'
      PROVE  CapacityIs(d, s)' /\ SalesWithin(d, s)'
  <2>1. CapacityIs(d, s) /\ SalesWithin(d, s) /\ d \in planned /\ Supported(d, s)
    BY <1>1, <1>5 DEF RenameDays, RenamedHere, CapacityIs
  <2>2. EarlierKept(d)
    <3>1. d <= row.date /\ Day = 1 .. LastDay /\ LastDay \in Nat
      BY <1>3, <2>1, HistoryAssumption DEF Day
    <3>2. \A e \in 1 .. d - 1 : e \in Day /\ e # row.date
      BY <1>2, <3>1
    <3> QED
      BY <1>1, <3>2 DEF EarlierKept, MovesUnits
  <2>3. \A n \in Symbol : Replay'[d - 1][n] = Replay[d - 1][n]
    BY <2>2, EarlierReplay
  <2> DEFINE Here == d = row.date /\ row.symbol \in Class(d, s)
  <2>4. CASE Here /\ row.action = "SELL"
    <3>1. AsStated(next)
      BY <1>1, <1>2 DEF RenameDays
    <3> QED
      BY <2>1, <2>4, <3>1, SellingRename
  <2>5. CASE ~(Here /\ row.action = "SELL")
    <3>1. Here => Sign(next) >= 0 /\ Disposing = 0
      <4>1. Here => row.action \notin RENAME_DAY_UNSUPPORTED_ACTIONS /\ row.action # "SELL"
        BY <1>2, <2>1, <2>5 DEF Supported, RowsOn
      <4>2. Here => rows[next].action \notin Decreasing
        BY <1>2, <4>1 DEF RENAME_DAY_UNSUPPORTED_ACTIONS
      <4> QED
        BY <4>2 DEF Disposing, Sign
    <3>2. \A n \in Class(d, s) : logs'[d][n].disposed = logs[d][n].disposed
      <4>1. \A n \in Class(d, s) : n \in Symbol /\ logs[d][n].disposed \in Int
        BY <1>1, FundsType
      <4> QED
        BY <3>1, <4>1 DEF MovesUnits
    <3>3. ReadOf(d, s)' = ReadOf(d, s)
      <4>1. SalesOf(d, s)' = SalesOf(d, s)
        BY <1>1 DEF SalesOf, RowsOf, RowsOn, Class, EndName
      <4>2. next \notin SalesOf(d, s)
        BY <1>2, <2>5 DEF SalesOf, RowsOf, RowsOn
      <4> QED
        BY <1>1, <4>1, <4>2 DEF ReadOf, ReadRows
    <3>4. ASSUME NoneShort(d, s), components[d][s].capacity = 0, EmptyToday(d, s)
          PROVE  EmptyToday(d, s)'
      <4> SUFFICES ASSUME d = row.date, NEW n \in Class(d, s)
                   PROVE  Held(n)' = 0
        BY <1>1, <1>2 DEF EmptyToday, Class, EndName
      <4>1. n \in Symbol /\ Held(n) = 0
        BY <1>2, <3>4 DEF EmptyToday, Class
      <4>2. CASE n # row.symbol \/ Moving = 0
        BY <4>1, <4>2 DEF MovesUnits
      <4>3. CASE n = row.symbol /\ Moving # 0
        <5>1. next \in RowsOf(d, s)
          BY <1>2, <4>3 DEF RowsOf, RowsOn
        <5>2. SumFunctionOnSet(Adds, RowsOf(d, s)) = 0
          <6>1. SumFunctionOnSet(OpenedWith(d), Class(d, s)) >= 0
            <7>1. \A m \in Class(d, s) : OpenedWith(d)[m] \in Int /\ OpenedWith(d)[m] >= 0
              BY <1>1, <3>4, SalesType DEF NoneShort, Class
            <7> QED
              BY <1>1, <7>1, FundsType, SumAtLeast
          <6>2. /\ SumFunctionOnSet(OpenedWith(d), Class(d, s)) \in Int
                /\ SumFunctionOnSet(Adds, RowsOf(d, s)) \in Int
                /\ SumFunctionOnSet(Adds, RowsOf(d, s)) >= 0
            BY <1>1, SalesType
          <6>3. CanGive(d, s) = 0
            BY <2>1, <3>4 DEF CapacityIs
          <6> QED
            BY <6>1, <6>2, <6>3 DEF CanGive
        <5>3. Adds[next] = 0
          <6>1. /\ RowsOf(d, s) \in SUBSET DOMAIN rows /\ IsFiniteSet(RowsOf(d, s))
                /\ \A i \in RowsOf(d, s) : Adds[i] \in Int /\ Adds[i] >= 0
            BY <1>1, SalesType, FundsType
          <6>2. SumFunctionOnSet(Adds, {next}) <= SumFunctionOnSet(Adds, RowsOf(d, s))
            BY <5>1, <6>1, SumOfMore
          <6>3. SumFunctionOnSet(Adds, {next}) = Adds[next]
            BY <5>1, <6>1, SumOfOne
          <6> QED
            BY <5>1, <5>2, <6>1, <6>2, <6>3
        <5>4. Sign(next) # 0 /\ Sign(next) >= 0 /\ Sign(next) \in Int
          BY <3>1, <4>3 DEF Moving, Sign
        <5>5. units = 0
          BY <1>2, <5>3, <5>4 DEF Adds, units
        <5> QED
          BY <4>3, <5>4, <5>5 DEF Moving
      <4> QED
        BY <4>2, <4>3
    <3> HIDE DEF Here
    <3> QED
      BY <1>1, <1>5, <2>1, <2>3, <3>2, <3>3, <3>4, RenameDayStays
  <2> QED
    BY <2>4, <2>5
<1> QED
  BY <1>1, <1>4, <1>5 DEF RenameDays

\* A reorganisation restates rows of its own holding, which no plan of the
\* day's renames counts.
LEMMA PlanningRename ==
  ASSUME Structure, RenameDays, PlanStockSplit
  PROVE  RenameDays'
<1>1. Typed /\ EndsMerged /\ phase = "plan" /\ phase # "refused"
  BY DEF Structure, PlanStockSplit
<1>2. CASE phase' = "refused"
  BY <1>2 DEF RenameDays
<1>3. CASE phase' # "refused"
  <2>1. PICK i \in DOMAIN rows : i = PlannedRow
    BY <1>1, <1>3, PlannedRowIs
  <2>2. PICK s0 \in Symbol : s0 = PlannedSymbol
    BY <1>1, <1>3, PlannedRowIs
  <2>3. PICK today \in Day : today = row.date
    BY <1>1, RowRead DEF Opened
  <2>4. /\ rows[i].date = today /\ rows[i].symbol = s0 /\ rows[i].action = "STOCK_SPLIT"
        /\ ~splits[today][s0].planned
    BY <1>1, <1>3, <2>1, <2>2, <2>3, PlannedRowIs
  <2>5. /\ splits' = [splits EXCEPT ![today][s0] = Transformation(i)]
        /\ pool_quantity' = Restated(i)
        /\ portfolio' = WithHolding(s0, OpensAt(i))
        /\ UNCHANGED <<rows, next, phase, planned, renames, components, logs>>
    BY <1>3, <2>1, <2>2, <2>3 DEF PlanStockSplit, Refuse, PlannedSymbol, PlannedRow
  <2>6. /\ \A e \in Day, n \in Symbol : splits'[e][n] =
             IF e = today /\ n = s0 THEN Transformation(i) ELSE splits[e][n]
        /\ Transformation(i).planned
    BY <1>1, <2>5 DEF Typed, PlansTyped, Transformation
  <2>7. \A e \in Day, n \in Symbol : Class(e, n)' = Class(e, n)
    BY <2>5 DEF Class, EndName
  <2>8. \A j \in RowsBefore(i) : rows[j].date = today /\ rows[j].symbol \in Class(today, s0)
    <3>1. NamesOn(today, s0) = Class(today, s0)
      BY <1>1, NamesAreClass
    <3> QED
      BY <2>4, <3>1 DEF RowsBefore, RowsAround, RowsOn
  <2>9. \A j \in DOMAIN rows : j \notin RowsBefore(i) => pool_quantity'[j] = pool_quantity[j]
    BY <2>5 DEF Restated
  <2>10. ASSUME NEW j \in DOMAIN rows
         PROVE  AsStated(j)'
    <3>1. rows[j].date \in Day /\ rows[j].symbol \in Symbol /\ AsStated(j)
      BY <1>1, RowPlace DEF RenameDays
    <3>2. ASSUME \A n \in Class(rows[j].date, rows[j].symbol) : ~splits'[rows[j].date][n].planned
          PROVE  pool_quantity'[j] = rows[j].quantity
      <4>1. \A n \in Class(rows[j].date, rows[j].symbol) : n \in Symbol
        BY DEF Class
      <4>2. \A n \in Class(rows[j].date, rows[j].symbol) : ~splits[rows[j].date][n].planned
        BY <2>4, <2>6, <3>1, <3>2, <4>1
      <4>3. j \notin RowsBefore(i)
        <5> SUFFICES ASSUME j \in RowsBefore(i)
                     PROVE  FALSE
          OBVIOUS
        <5>1. rows[j].date = today /\ s0 \in Class(today, rows[j].symbol)
          BY <2>8 DEF Class
        <5> QED
          BY <2>6, <3>2, <5>1
      <4> QED
        BY <2>9, <3>1, <4>2, <4>3 DEF AsStated
    <3> QED
      BY <2>5, <2>7, <3>1, <3>2 DEF AsStated
  <2>11. ASSUME NEW d \in Day, NEW s \in Symbol, RenamedHere(d, s)'
         PROVE  CapacityIs(d, s)' /\ SalesWithin(d, s)'
    <3>1. CapacityIs(d, s) /\ SalesWithin(d, s) /\ d \in planned /\ Supported(d, s)
      BY <1>1, <2>5, <2>11 DEF RenameDays, RenamedHere, CapacityIs
    <3>2. d = today => s0 \notin Class(d, s)
      BY <2>4, <3>1 DEF Supported, RowsOn, RENAME_DAY_UNSUPPORTED_ACTIONS
    <3>3. d <= today
      BY <1>1, <2>3, <3>1, PlannedSoFar DEF Opened
    <3>4. EarlierKept(d)
      <4>1. Day = 1 .. LastDay /\ LastDay \in Nat
        BY HistoryAssumption DEF Day
      <4>2. \A e \in 1 .. d - 1 : e \in Day /\ e # today
        BY <3>3, <4>1
      <4> QED
        BY <2>5, <2>6, <4>2 DEF EarlierKept
    <3>5. \A n \in Symbol : Replay'[d - 1][n] = Replay[d - 1][n]
      BY <3>4, EarlierReplay
    <3>6. \A j \in RowsOf(d, s) : pool_quantity'[j] = pool_quantity[j]
      <4> SUFFICES ASSUME NEW j \in RowsOf(d, s), j \in RowsBefore(i)
                   PROVE  FALSE
        BY <2>9 DEF RowsOf, RowsOn
      <4>1. d = today /\ rows[j].symbol \in Class(d, s) /\ rows[j].symbol \in Class(d, s0)
        BY <2>8 DEF RowsOf, RowsOn
      <4>2. s0 \in Class(d, s)
        BY <4>1 DEF Class
      <4> QED
        BY <3>2, <4>1, <4>2
    <3>7. ReadOf(d, s)' = ReadOf(d, s)
      BY <2>5, <2>7 DEF ReadOf, ReadRows, SalesOf, RowsOf, RowsOn
    <3>8. EmptyToday(d, s) => EmptyToday(d, s)'
      <4> SUFFICES ASSUME EmptyToday(d, s), Pending # {}, d = today, NEW n \in Class(d, s)
                   PROVE  Held(n)' = 0
        BY <2>3, <2>5, <2>7 DEF EmptyToday, Pending, row
      <4>1. n # s0 /\ Held(n) = 0
        BY <2>3, <3>2 DEF EmptyToday
      <4> QED
        BY <2>5, <4>1, HeldWith
    <3> QED
      BY <1>1, <2>5, <3>1, <3>5, <3>6, <3>7, <3>8, RenameDayStays
  <2> QED
    BY <2>5, <2>10, <2>11 DEF RenameDays
<1> QED
  BY <1>2, <1>3

\* What the day's plan of a renamed holding counts, even where it comes to 0.
LEMMA OpeningNamed ==
  ASSUME Structure, OpenTransactionDay, DayOpens, NEW s \in Symbol,
         components'[row.date][s].names # {}
  PROVE  \/ components[row.date][s].names # {}
         \/ /\ components'[row.date][s].capacity =
                 MapThenSumSet(LAMBDA n : Held(n), DayClass(s))
                 + SignedQuantity(Increases(DayRows(s)), pool_quantity)
            /\ \A i \in DayRows(s) : rows[i].action \notin RENAME_DAY_UNSUPPORTED_ACTIONS
<1> DEFINE d == row.date
           pairs == RenamePairs(RowsOn(d))
           renamed == UNION {{p[1], p[2]} : p \in pairs}
           Part(n) == Component(d, ConnectedNames(pairs, n), n)
           fresh == [n \in Symbol |-> IF n \in renamed THEN Part(n) ELSE components[d][n]]
<1>1. /\ ~RenamesConflict(pairs) /\ d \in Day
      /\ components' = [components EXCEPT ![d] = fresh]
  BY DEF OpenTransactionDay, DayOpens, Refuse
<1>2. \A p \in pairs : p[1] \in Symbol /\ p[2] \in Symbol /\ p = <<p[1], p[2]>>
  BY RowType DEF RenamePairs, RowsOn, Structure, Typed, PlaceTyped, Row
<1>3. components'[d][s] = fresh[s]
  BY <1>1 DEF Structure, Typed, PlansTyped
<1> HIDE DEF pairs
<1>4. ConnectedNames(pairs, s) = {n \in Symbol : EndsBy(pairs)[n] = EndsBy(pairs)[s]}
  BY <1>1, <1>2, EndsByRenames
<1>5. ConnectedNames(pairs, s) = DayClass(s)
  BY <1>4 DEF DayNames, DayClass, pairs
<1>6. CASE s \notin renamed
  BY <1>3, <1>6
<1>7. CASE s \in renamed
  <2> DEFINE names == DayClass(s)
             mine == {i \in RowsOn(d) : rows[i].symbol \in names}
             capacity == MapThenSumSet(LAMBDA n : Held(n), names)
                         + SignedQuantity(Increases(mine), pool_quantity)
             Never == \/ \E i \in RowsOn(d) : rows[i].action = "EXCESS_REPORTED_INCOME"
                      \/ \E i \in mine : rows[i].action \in RENAME_DAY_UNSUPPORTED_ACTIONS
  <2>1. components'[d][s] = Component(d, names, s)
    BY <1>3, <1>5, <1>7
  <2>2. Component(d, names, s) = IF Never THEN [names |-> {}, capacity |-> 0]
                                 ELSE [names |-> names, capacity |-> capacity]
    BY Zenon DEF Component
  <2>3. mine = DayRows(s)
    BY DEF DayRows
  <2> HIDE DEF names, mine, capacity
  <2>4. ~Never
    BY <2>1, <2>2
  <2>5. components'[d][s].capacity = capacity
    BY <2>1, <2>2, <2>4
  <2> QED
    BY <2>3, <2>4, <2>5 DEF names, capacity
<1> QED
  BY <1>6, <1>7

LEMMA OpeningRename ==
  ASSUME Agreement, RenameDays, OpenTransactionDay, DayOpens
  PROVE  RenameDays'
<1> DEFINE today == row.date
<1>1. /\ Structure /\ Typed /\ today \in Day /\ today \in Day \ planned
      /\ planned' = planned \cup {today}
      /\ phase = "open" /\ phase # "refused" /\ phase' = "plan"
      /\ UNCHANGED <<rows, next, portfolio, pool_quantity, logs, splits>> /\ row' = row
  BY DEF Agreement, DayOpens, Structure, row
<1>2. /\ \A d \in Day, n \in Symbol : renames'[d][n] = IF d = today THEN DayNames[n] ELSE renames[d][n]
      /\ \A d \in Day, n \in Symbol : Class(d, n)' = IF d = today THEN DayClass(n) ELSE Class(d, n)
      /\ \A i \in DOMAIN rows : i < next <=> rows[i].date < today
      /\ \A d \in planned : d < today
  BY <1>1, DayOpensPlaces
<1>3. \A n \in Symbol : /\ ~splits[today][n].planned /\ renames[today][n] = n
                        /\ Quiet(logs[today][n])
  BY <1>1 DEF Structure, DaysAheadBlank, DaysBlank, Blank
<1>4. \A n \in Symbol : Class(today, n) = {n}
  BY <1>3 DEF Class, EndName
<1>5. ReadRows' = ReadRows /\ \A j \in ReadRows : rows[j].date < today
  BY <1>1, <1>2 DEF ReadRows
<1>6. ASSUME NEW j \in DOMAIN rows
      PROVE  AsStated(j)'
  <2>1. rows[j].date \in Day /\ rows[j].symbol \in Symbol /\ AsStated(j)
    BY <1>1, RowPlace DEF RenameDays
  <2>2. CASE rows[j].date = today
    BY <1>1, <1>3, <1>4, <2>1, <2>2 DEF AsStated
  <2>3. CASE rows[j].date # today
    <3>1. Class(rows[j].date, rows[j].symbol)' = Class(rows[j].date, rows[j].symbol)
      BY <1>1, <1>2, <2>1, <2>3
    <3> QED
      BY <1>1, <2>1, <3>1 DEF AsStated
  <2> QED
    BY <2>2, <2>3
<1>7. \A d \in planned \cup {today} : EarlierKept(d)
  <2> SUFFICES ASSUME NEW d \in planned \cup {today}, NEW e \in 1 .. d - 1, NEW n \in Symbol
               PROVE  renames'[e][n] = renames[e][n]
    BY <1>1 DEF EarlierKept
  <2>1. d \in Day /\ d <= today /\ today \in Day /\ Day = 1 .. LastDay /\ LastDay \in Nat
    BY <1>1, <1>2, HistoryAssumption DEF Day, Typed, PlaceTyped
  <2>2. e \in Day /\ e # today
    BY <2>1
  <2> QED
    BY <1>2, <2>2
<1>8. ASSUME NEW d \in Day, NEW s \in Symbol, RenamedHere(d, s)', d # today
      PROVE  CapacityIs(d, s)' /\ SalesWithin(d, s)'
  <2>1. components'[d][s] = components[d][s]
    BY <1>1, <1>8 DEF DayOpens
  <2>2. CapacityIs(d, s) /\ SalesWithin(d, s) /\ d \in planned
    BY <1>1, <1>8, <2>1 DEF RenameDays, RenamedHere, CapacityIs
  <2>3. \A n \in Symbol : Replay'[d - 1][n] = Replay[d - 1][n]
    BY <1>7, <2>2, EarlierReplay
  <2>4. \A n \in Symbol : renames'[d][n] = renames[d][n]
    BY <1>2, <1>8
  <2>5. ReadOf(d, s)' = ReadOf(d, s)
    BY <1>1, <1>2, <1>5, <1>8 DEF ReadOf, SalesOf, RowsOf, RowsOn
  <2>6. EmptyToday(d, s)'
    BY <1>1, <1>8 DEF EmptyToday
  <2> QED
    BY <1>1, <2>1, <2>2, <2>3, <2>4, <2>5, <2>6, RenameDayStays
<1>9. ASSUME NEW d \in Day, NEW s \in Symbol, RenamedHere(d, s)', d = today
      PROVE  CapacityIs(d, s)' /\ SalesWithin(d, s)'
  <2> DEFINE S == DayClass(s)
             T == DayRows(s)
  <2>1. components[today][s].names = {}
    BY <1>1, <1>9 DEF RenameDays, RenamedHere, CapacityIs
  <2>2. /\ components'[d][s].capacity =
             MapThenSumSet(LAMBDA n : Held(n), S) + SignedQuantity(Increases(T), pool_quantity)
        /\ \A i \in T : rows[i].action \notin RENAME_DAY_UNSUPPORTED_ACTIONS
    BY <1>1, <1>9, <2>1, OpeningNamed DEF RenamedHere
  <2>3. Class(d, s)' = S /\ S \subseteq Symbol /\ IsFiniteSet(S)
    BY <1>2, <1>9, SymbolsFinite DEF DayClass
  <2>4. T \in SUBSET DOMAIN rows /\ Adds' = Adds /\ RowsOf(d, s)' = T
    BY <1>1, <1>9, <2>3 DEF DayRows, RowsOn, RowsOf, Adds, Sign
  <2>5. /\ SignedQuantity(Increases(T), pool_quantity) = SumFunctionOnSet(Adds, T)
        /\ SumFunctionOnSet(Adds, T) \in Int /\ SumFunctionOnSet(Adds, T) >= 0
    BY <1>1, <2>4, AddsSum
  <2>6. MapThenSumSet(LAMBDA n : Held(n), S) = SumFunctionOnSet(HeldBy(S), S)
    BY <2>3, HeldSum
  <2>7. \A n \in Symbol : Held(n) = Replay[d - 1][n] /\ Held(n) \in Int /\ Held(n)' = Held(n)
    <3>1. Pending = {} /\ Settled
      BY <1>1, NothingPending DEF Agreement
    <3>2. d - 1 \in 0 .. LastDay /\ \A p \in planned : p <= d - 1
      BY <1>1, <1>2, <1>9, HistoryAssumption DEF Day, Typed, PlaceTyped
    <3> QED
      BY <1>1, <3>1, <3>2, HeldType DEF Settled, Held
  <2>8. \A n \in Symbol : Replay'[d - 1][n] = Replay[d - 1][n]
    BY <1>7, <1>9, EarlierReplay
  <2>9. SumFunctionOnSet(OpenedWith(d)', S) = SumFunctionOnSet(HeldBy(S), S)
    <3>1. \A n \in S : OpenedWith(d)'[n] = HeldBy(S)[n]
      BY <2>3, <2>7, <2>8 DEF OpenedWith, HeldBy
    <3> QED
      BY <2>3, <3>1, SumSame
  <2>10. CanGive(d, s)' = SumFunctionOnSet(HeldBy(S), S) + SumFunctionOnSet(Adds, T)
    BY <2>3, <2>4, <2>9 DEF CanGive
  <2>11. SumFunctionOnSet(DisposedOn(d)', S) = 0
    <3>1. \A n \in S : DisposedOn(d)'[n] = 0
      BY <1>1, <1>3, <1>9, <2>3 DEF DisposedOn, Quiet
    <3> QED
      BY <2>3, <3>1, SumOfZeros
  <2>12. ReadOf(d, s)' = {} /\ Sold(d, s)' = 0
    <3>1. \A i \in RowsOf(d, s)' : rows[i].date = today /\ today \in Int
      BY <1>1, <2>4 DEF DayRows, RowsOn, Day
    <3>2. ReadOf(d, s)' = {}
      BY <1>1, <1>5, <3>1 DEF ReadOf, SalesOf
    <3> QED
      BY <3>2, SumOfNone DEF Sold
  <2>13. Supported(d, s)'
    BY <1>1, <1>9, <2>2, <2>3 DEF Supported, DayRows, RowsOn
  <2> HIDE DEF S, T
  <2>14. CapacityIs(d, s)'
    BY <1>1, <1>9, <2>2, <2>5, <2>6, <2>10, <2>13 DEF CapacityIs
  <2>15. components'[d][s].capacity = SumFunctionOnSet(HeldBy(S), S) + SumFunctionOnSet(Adds, T)
    BY <2>2, <2>5, <2>6
  <2>16. SumFunctionOnSet(HeldBy(S), S) \in Int
    <3>1. \A n \in S : HeldBy(S)[n] \in Int
      BY <2>3, <2>7 DEF HeldBy
    <3> QED
      BY <2>3, <3>1, SumType
  <2>17. Left(d, s)' = components'[d][s].capacity - Sold(d, s)'
    BY <2>3, <2>11, <2>12 DEF Left
  <2>18. Left(d, s)' = components'[d][s].capacity
    BY <2>5, <2>12, <2>15, <2>16, <2>17
  <2>19. NoneShort(d, s)' => \A n \in S : HeldBy(S)[n] \in Int /\ HeldBy(S)[n] >= 0
    BY <2>3, <2>7, <2>8 DEF NoneShort, HeldBy
  <2>20. NoneShort(d, s)' => SumFunctionOnSet(HeldBy(S), S) >= 0
    BY <2>3, <2>19, SumAtLeast
  <2>21. ASSUME NoneShort(d, s)', components'[d][s].capacity = 0
         PROVE  EmptyToday(d, s)'
    <3> SUFFICES ASSUME NEW n \in S
                 PROVE  Held(n)' = 0
      BY <2>3 DEF EmptyToday
    <3>1. SumFunctionOnSet(HeldBy(S), S) = 0
      BY <2>5, <2>15, <2>16, <2>20, <2>21
    <3>2. SumFunctionOnSet(HeldBy(S), {n}) <= SumFunctionOnSet(HeldBy(S), S)
      BY <2>3, <2>19, <2>21, SumOfMore
    <3>3. SumFunctionOnSet(HeldBy(S), {n}) = HeldBy(S)[n]
      BY <2>19, <2>21, SumOfOne
    <3>4. HeldBy(S)[n] = 0 /\ HeldBy(S)[n] = Held(n)
      BY <2>19, <2>21, <3>1, <3>2, <3>3 DEF HeldBy
    <3> QED
      BY <2>3, <2>7, <3>4
  <2> QED
    BY <2>5, <2>14, <2>15, <2>16, <2>17, <2>18, <2>20, <2>21 DEF SalesWithin
<1> QED
  BY <1>1, <1>6, <1>8, <1>9 DEF RenameDays

LEMMA StepRename == Agreement /\ RenameDays /\ [Next]_vars => RenameDays'
<1> SUFFICES ASSUME Agreement, RenameDays, [Next]_vars
             PROVE  RenameDays'
  OBVIOUS
<1>1. Structure /\ Typed /\ Structure'
  BY StepStructure DEF Agreement, Structure
<1>2. CASE AddAcquisition \/ AddDisposal \/ AddTransferToSpouse \/ AddGift
           \/ AddManagementFee \/ PassOver
  BY <1>1, <1>2, HandlersMove, MovingRename, RenameDaysRefused
<1>3. CASE AddRename
  BY <1>1, <1>3, AddRenameMoves, RenamingRename
<1>4. CASE RefuseOther
  BY <1>4, RenameDaysRefused DEF RefuseOther
<1>5. CASE AddEri \/ PostRow
  BY <1>1, <1>5, PassingRename
<1>6. CASE NoteSource \/ Finish \/ UNCHANGED vars
  BY <1>1, <1>6, EndsRename
<1>7. CASE OpenTransactionDay
  BY <1>1, <1>7, OpeningDay, OpeningRename, RenameDaysRefused
<1>8. CASE PlanStockSplit
  BY <1>1, <1>8, PlanningRename
<1> QED
  BY <1>2, <1>3, <1>4, <1>5, <1>6, <1>7, <1>8 DEF Next

\* A history is refused for a shortfall only at a row that takes more than
\* there is left for it to take.
LEMMA ShortfallIs ==
  ASSUME Typed, Next, refusal' = "shortfall", refusal # "shortfall"
  PROVE  /\ phase = "row" /\ rows[next].action \in Decreasing
         /\ AvailableUnits < units /\ Refuse("shortfall")
<1>1. CASE AddDisposal
  BY <1>1 DEF AddDisposal, Reading, Refuse, Handled, Decreasing, row
<1>2. CASE AddTransferToSpouse
  BY <1>2 DEF AddTransferToSpouse, Reading, Refuse, Handled, Decreasing, row
<1>3. CASE AddGift
  BY <1>3 DEF AddGift, Reading, Refuse, Handled, Decreasing, row
<1>4. CASE AddAcquisition \/ AddManagementFee \/ AddRename \/ PassOver \/ RefuseOther
  BY <1>4 DEF AddAcquisition, AddManagementFee, AddRename, PassOver, RefuseOther, Refuse, Handled
<1>5. CASE AddEri \/ PostRow \/ NoteSource \/ Finish
  BY <1>5 DEF AddEri, PostRow, NoteSource, Finish, Refuse
<1>6. CASE OpenTransactionDay
  BY <1>6 DEF OpenTransactionDay, Refuse
<1>7. CASE PlanStockSplit
  BY <1>7 DEF PlanStockSplit, Refuse
<1> QED
  BY <1>1, <1>2, <1>3, <1>4, <1>5, <1>6, <1>7 DEF Next

LEMMA RefusedStops == ASSUME phase = "refused" PROVE ~Next
BY DEF Next, OpenTransactionDay, PlanStockSplit, NoteSource, AddAcquisition, AddDisposal,
       AddTransferToSpouse, AddGift, AddManagementFee, AddRename, PassOver, RefuseOther,
       AddEri, PostRow, Finish, Reading

\* A row refused for a shortfall is a sale on a renamed holding's day, and
\* with it the day's sales come to more than the names can give.
LEMMA RefusedSale ==
  ASSUME Structure, RenameDays, phase = "row", NEW d \in Day, d = row.date,
         NEW s \in Symbol, s = row.symbol, rows[next].action \in Decreasing,
         AvailableUnits < units, RenamedHere(d, s)
  PROVE  SumFunctionOnSet(pool_quantity, SalesOf(d, s)) > CanGive(d, s)
<1>1. /\ Typed /\ phase # "refused" /\ phase \in Opened /\ row = rows[next]
      /\ next \in DOMAIN rows /\ row \in Row /\ next \in Int
      /\ units \in Int /\ (Sign(next) # 0 => units >= 0)
  BY RowRead, RowType DEF Structure, Opened, row, Typed, PlaceTyped
<1>2. /\ CapacityIs(d, s) /\ SalesWithin(d, s) /\ d \in planned /\ Supported(d, s)
      /\ components[d][s].capacity = CanGive(d, s)
  BY <1>1 DEF RenameDays, CapacityIs
<1>3. s \in Class(d, s)
  BY DEF Class
<1>4. rows[next].action = "SELL"
  BY <1>1, <1>2, <1>3 DEF Supported, RowsOn, RENAME_DAY_UNSUPPORTED_ACTIONS
<1>5. next \in SalesOf(d, s) /\ next \notin ReadOf(d, s)
  BY <1>1, <1>3, <1>4 DEF SalesOf, RowsOf, RowsOn, ReadOf, ReadRows
<1>6. /\ IsFiniteSet(ReadOf(d, s)) /\ ReadOf(d, s) \subseteq SalesOf(d, s)
      /\ IsFiniteSet(SalesOf(d, s))
      /\ \A i \in SalesOf(d, s) : pool_quantity[i] \in Int /\ pool_quantity[i] >= 0
      /\ Sold(d, s) \in Int /\ Sold(d, s) >= 0 /\ CanGive(d, s) \in Int
  BY <1>1, SalesType
<1>7. SumFunctionOnSet(pool_quantity, ReadOf(d, s) \cup {next}) = Sold(d, s) + units
  <2>1. SumFunctionOnSet(pool_quantity, ReadOf(d, s) \cup {next})
          = SumFunctionOnSet(pool_quantity, ReadOf(d, s)) + pool_quantity[next]
    BY <1>5, <1>6, SumAdd
  <2> QED
    BY <2>1 DEF Sold, units
<1>8. /\ SumFunctionOnSet(pool_quantity, SalesOf(d, s)) \in Int
      /\ SumFunctionOnSet(pool_quantity, SalesOf(d, s)) >= Sold(d, s) + units
  BY <1>1, <1>5, <1>6, <1>7, SumOfMore
<1>9. CASE components[d][s].capacity # 0
  <2>1. AvailableUnits = Left(d, s) /\ Left(d, s) = CanGive(d, s) - Sold(d, s)
    BY <1>2, <1>9, AvailableRenamed DEF SalesWithin
  <2> QED
    BY <1>1, <1>6, <1>8, <2>1
<1>10. CASE components[d][s].capacity = 0
  <2>1. units > 0
    <3>1. pool_quantity[next] = rows[next].quantity
      BY <1>1, <1>2, SupportedWhole DEF RenameDays, AsStated
    <3>2. Sign(next) = -1
      BY <1>4, SignOf DEF Decreasing, Sales
    <3> QED
      BY <1>1, <3>1, <3>2, RowType DEF units, Typed, PlaceTyped
  <2> QED
    BY <1>1, <1>2, <1>6, <1>8, <1>10, <2>1
<1> QED
  BY <1>9, <1>10

ShortOf(d, s) ==
  RenamedHere(d, s) /\ SumFunctionOnSet(pool_quantity, SalesOf(d, s)) > CanGive(d, s)
\* Every row's refusal, in the words of the sums.
ShortIs ==
  refusal = "shortfall" =>
    /\ phase = "refused" /\ next \in DOMAIN rows
    /\ \A d \in Day, s \in Symbol :
         d = row.date /\ s = row.symbol /\ RenamedHere(d, s) => ShortOf(d, s)

LEMMA ShortSame ==
  ASSUME Typed, UNCHANGED <<rows, next, pool_quantity, renames, components, splits, logs>>,
         NEW d \in Day, NEW s \in Symbol
  PROVE  ShortOf(d, s)' <=> ShortOf(d, s)
<1>1. SalesOf(d, s)' = SalesOf(d, s) /\ RowsOf(d, s)' = RowsOf(d, s) /\ Class(d, s)' = Class(d, s)
  BY DEF SalesOf, RowsOf, RowsOn, Class, EndName
<1>2. RenamedHere(d, s)' <=> RenamedHere(d, s)
  BY DEF RenamedHere
<1>3. /\ IsFiniteSet(RowsOf(d, s)) /\ RowsOf(d, s) \subseteq DOMAIN rows
      /\ IsFiniteSet(Class(d, s)) /\ Class(d, s) \subseteq Symbol
  BY SalesType, FundsType
<1>4. SumFunctionOnSet(Adds', RowsOf(d, s)) = SumFunctionOnSet(Adds, RowsOf(d, s))
  <2>1. \A i \in RowsOf(d, s) : Adds'[i] = Adds[i]
    BY <1>3 DEF Adds, Sign
  <2> QED
    BY <1>3, <2>1, SumSame
<1>5. SumFunctionOnSet(OpenedWith(d)', Class(d, s)) = SumFunctionOnSet(OpenedWith(d), Class(d, s))
  <2>1. \A n \in Symbol : Replay'[d - 1][n] = Replay[d - 1][n]
    BY EarlierReplay DEF EarlierKept
  <2>2. \A n \in Class(d, s) : OpenedWith(d)'[n] = OpenedWith(d)[n]
    BY <1>3, <2>1 DEF OpenedWith
  <2> QED
    BY <1>3, <2>2, SumSame
<1>6. CanGive(d, s)' = CanGive(d, s)
  BY <1>1, <1>4, <1>5 DEF CanGive
<1> QED
  BY <1>1, <1>2, <1>6 DEF ShortOf

LEMMA StepShort == Agreement /\ RenameDays /\ ShortIs /\ [Next]_vars => ShortIs'
<1> SUFFICES ASSUME Agreement, RenameDays, ShortIs, [Next]_vars, refusal' = "shortfall"
             PROVE  /\ phase' = "refused" /\ next' \in DOMAIN rows'
                    /\ \A d \in Day, s \in Symbol :
                         d = row'.date /\ s = row'.symbol /\ RenamedHere(d, s)' => ShortOf(d, s)'
  BY DEF ShortIs
<1>1. Structure /\ Typed
  BY DEF Agreement, Structure
<1>2. CASE refusal = "shortfall"
  <2>1. UNCHANGED vars /\ phase = "refused"
    BY <1>2, RefusedStops DEF ShortIs
  <2>2. UNCHANGED <<rows, next, pool_quantity, renames, components, splits, logs>>
    BY <2>1 DEF vars
  <2>3. \A d \in Day, s \in Symbol : ShortOf(d, s)' <=> ShortOf(d, s)
    BY <1>1, <2>2, ShortSame
  <2>4. UNCHANGED <<phase, rows, next>> /\ row' = row /\ \A d, s : RenamedHere(d, s)' <=> RenamedHere(d, s)
    BY <2>1 DEF vars, row, RenamedHere
  <2> QED
    BY <1>2, <2>1, <2>3, <2>4 DEF ShortIs
<1>3. CASE refusal # "shortfall"
  <2>1. Next
    BY <1>3 DEF vars
  <2>2. /\ phase = "row" /\ rows[next].action \in Decreasing
        /\ AvailableUnits < units /\ Refuse("shortfall")
    BY <1>1, <1>3, <2>1, ShortfallIs
  <2>3. /\ UNCHANGED <<rows, next, pool_quantity, renames, components, splits, logs>>
        /\ phase' = "refused" /\ row' = row /\ next \in DOMAIN rows
    BY <1>1, <2>2, RowRead DEF Refuse, row, Opened
  <2>4. \A d \in Day, s \in Symbol : ShortOf(d, s)' <=> ShortOf(d, s)
    BY <1>1, <2>3, ShortSame
  <2>5. \A d \in Day, s \in Symbol :
          d = row.date /\ s = row.symbol /\ RenamedHere(d, s) => ShortOf(d, s)
    BY <1>1, <2>2, RefusedSale DEF ShortOf
  <2>6. \A d, s : RenamedHere(d, s)' <=> RenamedHere(d, s)
    BY <2>3 DEF RenamedHere
  <2> QED
    BY <2>3, <2>4, <2>5, <2>6
<1> QED
  BY <1>2, <1>3

LEMMA RenamesOrderFree == Agreement /\ RenameDays /\ ShortIs => RenameDayOrderFree
<1> SUFFICES ASSUME Agreement, RenameDays, ShortIs
             PROVE  RenameDayOrderFree
  OBVIOUS
<1>1. Structure /\ Typed /\ EndsMerged
  BY DEF Agreement, Structure
<1>2. \A d \in Day, s \in Symbol :
        /\ SoldTooMuch(d, s) <=> ShortOf(d, s)
        /\ (\A n \in NamesOn(d, s) : Replay[d - 1][n] >= 0) <=> NoneShort(d, s)
  BY <1>1, TooMuchIs DEF ShortOf
<1>3. refusal = "shortfall" /\ components[row.date][row.symbol].names # {} =>
        SoldTooMuch(row.date, row.symbol)
  <2> SUFFICES ASSUME refusal = "shortfall", components[row.date][row.symbol].names # {}
               PROVE  SoldTooMuch(row.date, row.symbol)
    OBVIOUS
  <2>1. row.date \in Day /\ row.symbol \in Symbol
    BY <1>1, RowPlace DEF ShortIs, row
  <2> QED
    BY <1>2, <2>1 DEF ShortIs, RenamedHere
<1>4. ASSUME phase = "ingested", NEW d \in Day, NEW s \in Symbol, NoneShort(d, s), ShortOf(d, s)
      PROVE  FALSE
  <2>1. /\ CapacityIs(d, s) /\ SalesWithin(d, s)
        /\ components[d][s].capacity = CanGive(d, s)
    BY <1>4 DEF RenameDays, ShortOf, CapacityIs
  <2>2. ReadOf(d, s) = SalesOf(d, s)
    <3>1. next > Len(rows) /\ DOMAIN rows = 1 .. Len(rows) /\ Len(rows) \in Nat /\ next \in Int
      BY <1>1, <1>4, RowType DEF Structure, Calendar, Typed, PlaceTyped
    <3> QED
      BY <3>1 DEF ReadOf, SalesOf, RowsOf, RowsOn, ReadRows
  <2>3. Sold(d, s) \in Int /\ CanGive(d, s) \in Int
    BY <1>1, SalesType
  <2>4. Left(d, s) = CanGive(d, s) - Sold(d, s) /\ Left(d, s) >= 0
    BY <1>4, <2>1 DEF SalesWithin
  <2>5. Sold(d, s) > CanGive(d, s)
    BY <1>4, <2>2 DEF ShortOf, Sold
  <2> QED
    BY <2>3, <2>4, <2>5
<1> QED
  BY <1>2, <1>3, <1>4 DEF RenameDayOrderFree

(***************************************************************************)
(* Whether a day that renames its holding sells too much never depends on  *)
(* the name a sale states or on where the rename's row is read.            *)
(***************************************************************************)
THEOREM RenameDayAlwaysOrderFree == Spec => []RenameDayOrderFree
<1>1. Init => Agreement /\ RenameDays /\ ShortIs
  BY InitAgrees, InitRenameDays DEF ShortIs, Init
<1>2. Agreement /\ RenameDays /\ ShortIs /\ [Next]_vars => (Agreement /\ RenameDays /\ ShortIs)'
  BY StepAgrees, StepRename, StepShort
<1>3. Agreement /\ RenameDays /\ ShortIs => RenameDayOrderFree
  BY RenamesOrderFree
<1> QED
  BY <1>1, <1>2, <1>3, PTL DEF Spec
=============================================================================
