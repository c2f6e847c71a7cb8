---------------------------- MODULE IncomeProofs ----------------------------
(***************************************************************************)
(* Proofs about income: what the reports and the summaries of an account's *)
(* years state is what its rows come to, each withholding in one year, and *)
(* relief is within a penny of the tax withheld.                           *)
(***************************************************************************)
EXTENDS IncomeProperties, Induction

-----------------------------------------------------------------------------
(* Amounts and rates. *)

Priced(currency) == \A day \in Days : UnitsOf(currency, day) \in Nat \ {0}
Whole(amount, currency, day) == amount % UnitsOf(currency, day) = 0

LEMMA DivideWhole ==
  ASSUME NEW a \in Int, NEW r \in Nat \ {0}, a % r = 0
  PROVE  /\ a \div r \in Int
         /\ a = r * (a \div r)
  OBVIOUS

LEMMA DivideProduct ==
  ASSUME NEW q \in Int, NEW r \in Nat \ {0}
  PROVE  (r * q) \div r = q /\ (r * q) % r = 0
  OBVIOUS

\* Whole amounts add up in pounds as they do in their currency.
LEMMA DivideSum ==
  ASSUME NEW a \in Int, NEW b \in Int, NEW r \in Nat \ {0}, a % r = 0, b % r = 0
  PROVE  (a + b) \div r = (a \div r) + (b \div r) /\ (a + b) % r = 0
<1>1. a = r * (a \div r) /\ b = r * (b \div r) /\ a \div r \in Int /\ b \div r \in Int
  BY DivideWhole
<1> DEFINE q == (a \div r) + (b \div r)
<1>2. a + b = r * q /\ q \in Int
  BY <1>1
<1> HIDE DEF q
<1>3. (r * q) \div r = q /\ (r * q) % r = 0
  BY <1>2, DivideProduct
<1> QED
  BY <1>2, <1>3 DEF q

LEMMA InPoundsIs ==
  ASSUME NEW a \in Int, NEW currency, NEW day \in Days, Priced(currency)
  PROVE  /\ ToGbp(a, currency, day) = a \div UnitsOf(currency, day)
         /\ ToGbp(a, currency, day) \in Int
  BY DEF ToGbp, UnitsOf, Priced

LEMMA PoundsAddUp ==
  ASSUME NEW a \in Int, NEW b \in Int, NEW currency, NEW day \in Days,
         Priced(currency), Whole(a, currency, day), Whole(b, currency, day)
  PROVE  /\ ToGbp(a + b, currency, day)
              = ToGbp(a, currency, day) + ToGbp(b, currency, day)
         /\ Whole(a + b, currency, day)
<1> DEFINE r == UnitsOf(currency, day)
<1>1. r \in Nat \ {0} /\ a % r = 0 /\ b % r = 0
  BY DEF Priced, Whole
<1>2. ToGbp(a, currency, day) = a \div r /\ ToGbp(b, currency, day) = b \div r
  BY InPoundsIs
<1>3. ToGbp(a + b, currency, day) = (a + b) \div r
  BY InPoundsIs, a + b \in Int
<1> HIDE DEF r
<1>4. (a + b) \div r = (a \div r) + (b \div r) /\ (a + b) % r = 0
  BY <1>1, DivideSum
<1> QED
  BY <1>2, <1>3, <1>4 DEF Whole, r

\* The floor of a quotient of quotients.
LEMMA FloorBelow ==
  ASSUME NEW a \in Int, NEW r \in Nat \ {0}
  PROVE  r * (a \div r) <= a /\ a < r * (a \div r) + r /\ a \div r \in Int
  OBVIOUS

LEMMA TimesKeepsOrder ==
  ASSUME NEW a \in Int, NEW b \in Int, NEW c \in Nat \ {0}
  PROVE  a <= b <=> c * a <= c * b
<1>1. ASSUME a <= b PROVE c * a <= c * b
  <2>1. PICK d \in Nat : b = a + d
    <3>1. b - a \in Nat /\ b = a + (b - a)
      BY <1>1
    <3> QED
      BY <3>1
  <2>2. c * b = c * a + c * d /\ c * d \in Nat /\ c * a \in Int
    BY <2>1
  <2> QED
    BY <2>2
<1>2. ASSUME b < a PROVE c * b < c * a
  <2>1. PICK d \in Nat \ {0} : a = b + d
    <3>1. a - b \in Nat \ {0} /\ a = b + (a - b)
      BY <1>2
    <3> QED
      BY <3>1
  <2>2. c * a = c * b + c * d /\ c * d \in Nat \ {0} /\ c * b \in Int
    BY <2>1
  <2> QED
    BY <2>2
<1>3. c * a \in Int /\ c * b \in Int
  OBVIOUS
<1> QED
  BY <1>1, <1>2, <1>3

\* Relief at a rate no higher than the tax exceeds it by no more than the tax
\* fell short of its rate.
LEMMA ReliefAtTheRate ==
  ASSUME NEW p \in Int, NEW relief \in Nat, NEW tax \in Nat, relief <= tax, relief * p > 0
  PROVE  relief * p <= tax * p
<1>1. p > 0 /\ relief \in Nat \ {0}
  <2>1. relief # 0
    OBVIOUS
  <2>2. ~(p <= 0)
    <3>1. relief * 0 = 0 /\ ~(relief * p <= relief * 0)
      BY <2>1
    <3> QED
      BY <2>1, <3>1, TimesKeepsOrder
  <2> QED
    BY <2>1, <2>2
<1>2. p * relief <= p * tax
  BY <1>1, TimesKeepsOrder
<1> QED
  BY <1>2

\* The same of amounts that are so many times a rate of exchange.
LEMMA ReliefExchanged ==
  ASSUME NEW p \in Int, NEW t \in Int, NEW r \in Nat \ {0}, NEW parts \in Int,
         NEW relief \in Nat, NEW tax \in Nat, relief <= tax, relief * p > 0
  PROVE  (relief * p + (parts * t)) * r <= (tax * (r * p)) + (parts * (r * t))
<1>1. relief * p <= tax * p /\ relief * p \in Int /\ tax * p \in Int /\ parts * t \in Int
  BY ReliefAtTheRate
<1>2. r * (relief * p + (parts * t)) <= r * (tax * p + (parts * t))
  <2> DEFINE a == relief * p + (parts * t)
             b == tax * p + (parts * t)
  <2>1. a \in Int /\ b \in Int /\ a <= b
    BY <1>1
  <2> HIDE DEF a, b
  <2>2. r * a <= r * b
    BY <2>1, TimesKeepsOrder
  <2> QED
    BY <2>2 DEF a, b
<1>3. r * (tax * p + (parts * t)) = (tax * (r * p)) + (parts * (r * t))
  OBVIOUS
<1>4. r * (relief * p + (parts * t)) = (relief * p + (parts * t)) * r
  OBVIOUS
<1> QED
  BY <1>2, <1>3, <1>4

-----------------------------------------------------------------------------
(* Sums. *)

LEMMA SumOfWhole ==
  ASSUME NEW S, IsFiniteSet(S), NEW f, NEW g, NEW r \in Nat \ {0},
         \A x \in S : f[x] \in Int /\ f[x] % r = 0 /\ g[x] = f[x] \div r
  PROVE  /\ SumFunctionOnSet(g, S) = SumFunctionOnSet(f, S) \div r
         /\ SumFunctionOnSet(f, S) % r = 0
         /\ SumFunctionOnSet(f, S) \in Int
<1> DEFINE Sound == {s \in SUBSET S :
              /\ SumFunctionOnSet(g, s) = SumFunctionOnSet(f, s) \div r
              /\ SumFunctionOnSet(f, s) % r = 0
              /\ SumFunctionOnSet(f, s) \in Int}
<1>1. {} \in Sound
  <2>1. 0 \div r = 0 /\ 0 % r = 0
    OBVIOUS
  <2> QED
    BY <2>1, SumOfNone
<1>2. ASSUME NEW s \in SUBSET S, s # {}, \A x \in s : s \ {x} \in Sound
      PROVE  s \in Sound
  <2> DEFINE x == Pick(s)
             rest == s \ {x}
  <2>1. IsFiniteSet(s)
    BY FS_Subset
  <2>2. /\ x \in s
        /\ SumFunctionOnSet(f, s) = f[x] + SumFunctionOnSet(f, rest)
        /\ SumFunctionOnSet(g, s) = g[x] + SumFunctionOnSet(g, rest)
    BY <1>2, <2>1, SumByPick
  <2>3. rest \in Sound
    BY <1>2, <2>2
  <2> DEFINE a == f[x]
             b == SumFunctionOnSet(f, rest)
  <2>4. a \in Int /\ a % r = 0 /\ g[x] = a \div r
    BY <2>2
  <2>5. b \in Int /\ b % r = 0 /\ SumFunctionOnSet(g, rest) = b \div r
    BY <2>3
  <2>6. SumFunctionOnSet(f, s) = a + b /\ SumFunctionOnSet(g, s) = (a \div r) + (b \div r)
    BY <2>2, <2>4, <2>5
  <2> HIDE DEF a, b
  <2>7. (a + b) \div r = (a \div r) + (b \div r) /\ (a + b) % r = 0
    BY <2>4, <2>5, DivideSum
  <2>8. a + b \in Int
    BY <2>4, <2>5
  <2> QED
    BY <2>6, <2>7, <2>8
<1> HIDE DEF Sound
<1>3. \A s \in SUBSET S : s \in Sound
  BY <1>1, <1>2, SubsetsBySteps
<1> QED
  BY <1>3 DEF Sound

\* What the model and its properties add up, as sums of functions.
LEMMA SumOfAmounts ==
  ASSUME NEW log, NEW S, IsFiniteSet(S)
  PROVE  MapThenSumSet(LAMBDA c : log[c].amount, S)
           = SumFunctionOnSet([c \in S |-> log[c].amount], S)
<1> DEFINE f == [c \in S |-> log[c].amount]
           Fold(sum) == sum = [s \in SUBSET S |->
                          IF s = {} THEN 0 ELSE log[Pick(s)].amount + sum[s \ {Pick(s)}]]
           chosen == CHOOSE sum : Fold(sum)
<1>1. \A s \in SUBSET S : s # {} => f[Pick(s)] = log[Pick(s)].amount
  BY DEF Pick
<1>2. PartialSums(f, S) = [s \in SUBSET S |-> Step(f, s, PartialSums(f, S))]
  BY PartialSumsFold
<1>3. Fold(PartialSums(f, S))
  BY <1>1, <1>2 DEF Step
<1>4. Fold(chosen)
  BY <1>3
<1>5. MapThenSumSet(LAMBDA c : log[c].amount, S) = chosen[S]
  BY DEF MapThenSumSet, MapThenFoldSet, Pick
<1> HIDE DEF chosen, f
<1>6. \A s \in SUBSET S : chosen[s] = Step(f, s, chosen)
  BY <1>1, <1>4 DEF Step
<1> QED
  BY <1>5, <1>6, SumIsAnyFold DEF f

LEMMA SumOfEntries ==
  ASSUME NEW S, IsFiniteSet(S)
  PROVE  MapThenSumSet(LAMBDA e : e.amount, S)
           = SumFunctionOnSet([e \in S |-> e.amount], S)
<1> DEFINE f == [e \in S |-> e.amount]
           Fold(sum) == sum = [s \in SUBSET S |->
                          IF s = {} THEN 0 ELSE Pick(s).amount + sum[s \ {Pick(s)}]]
           chosen == CHOOSE sum : Fold(sum)
<1>1. \A s \in SUBSET S : s # {} => f[Pick(s)] = Pick(s).amount
  BY DEF Pick
<1>2. PartialSums(f, S) = [s \in SUBSET S |-> Step(f, s, PartialSums(f, S))]
  BY PartialSumsFold
<1>3. Fold(PartialSums(f, S))
  BY <1>1, <1>2 DEF Step
<1>4. Fold(chosen)
  BY <1>3
<1>5. MapThenSumSet(LAMBDA e : e.amount, S) = chosen[S]
  BY DEF MapThenSumSet, MapThenFoldSet, Pick
<1> HIDE DEF chosen, f
<1>6. \A s \in SUBSET S : chosen[s] = Step(f, s, chosen)
  BY <1>1, <1>4 DEF Step
<1> QED
  BY <1>5, <1>6, SumIsAnyFold DEF f

LEMMA SumOfRelief ==
  ASSUME NEW S, IsFiniteSet(S)
  PROVE  MapThenSumSet(LAMBDA e : e.tax_treaty_amount, S)
           = SumFunctionOnSet([e \in S |-> e.tax_treaty_amount], S)
<1> DEFINE f == [e \in S |-> e.tax_treaty_amount]
           Fold(sum) == sum = [s \in SUBSET S |->
                          IF s = {} THEN 0 ELSE Pick(s).tax_treaty_amount + sum[s \ {Pick(s)}]]
           chosen == CHOOSE sum : Fold(sum)
<1>1. \A s \in SUBSET S : s # {} => f[Pick(s)] = Pick(s).tax_treaty_amount
  BY DEF Pick
<1>2. PartialSums(f, S) = [s \in SUBSET S |-> Step(f, s, PartialSums(f, S))]
  BY PartialSumsFold
<1>3. Fold(PartialSums(f, S))
  BY <1>1, <1>2 DEF Step
<1>4. Fold(chosen)
  BY <1>3
<1>5. MapThenSumSet(LAMBDA e : e.tax_treaty_amount, S) = chosen[S]
  BY DEF MapThenSumSet, MapThenFoldSet, Pick
<1> HIDE DEF chosen, f
<1>6. \A s \in SUBSET S : chosen[s] = Step(f, s, chosen)
  BY <1>1, <1>4 DEF Step
<1> QED
  BY <1>5, <1>6, SumIsAnyFold DEF f

LEMMA SumOfGroups ==
  ASSUME NEW S, IsFiniteSet(S)
  PROVE  MapThenSumSet(LAMBDA g : ToGbp(g.amount, g.key.currency, g.key.day), S)
           = SumFunctionOnSet([g \in S |-> ToGbp(g.amount, g.key.currency, g.key.day)], S)
<1> DEFINE f == [g \in S |-> ToGbp(g.amount, g.key.currency, g.key.day)]
           Fold(sum) == sum = [s \in SUBSET S |->
                          IF s = {} THEN 0
                          ELSE ToGbp(Pick(s).amount, Pick(s).key.currency, Pick(s).key.day)
                                 + sum[s \ {Pick(s)}]]
           chosen == CHOOSE sum : Fold(sum)
<1>1. \A s \in SUBSET S : s # {} =>
        f[Pick(s)] = ToGbp(Pick(s).amount, Pick(s).key.currency, Pick(s).key.day)
  BY DEF Pick
<1>2. PartialSums(f, S) = [s \in SUBSET S |-> Step(f, s, PartialSums(f, S))]
  BY PartialSumsFold
<1>3. Fold(PartialSums(f, S))
  BY <1>1, <1>2 DEF Step
<1>4. Fold(chosen)
  BY <1>3
<1>5. MapThenSumSet(LAMBDA g : ToGbp(g.amount, g.key.currency, g.key.day), S) = chosen[S]
  BY DEF MapThenSumSet, MapThenFoldSet, Pick
<1> HIDE DEF chosen, f
<1>6. \A s \in SUBSET S : chosen[s] = Step(f, s, chosen)
  BY <1>1, <1>4 DEF Step
<1> QED
  BY <1>5, <1>6, SumIsAnyFold DEF f

LEMMA SumOfPoundsOn ==
  ASSUME NEW day, NEW S, IsFiniteSet(S)
  PROVE  MapThenSumSet(LAMBDA i : Pounds(i, day), S)
           = SumFunctionOnSet([i \in S |-> Pounds(i, day)], S)
<1> DEFINE f == [i \in S |-> Pounds(i, day)]
           Fold(sum) == sum = [s \in SUBSET S |->
                          IF s = {} THEN 0 ELSE Pounds(Pick(s), day) + sum[s \ {Pick(s)}]]
           chosen == CHOOSE sum : Fold(sum)
<1>1. \A s \in SUBSET S : s # {} => f[Pick(s)] = Pounds(Pick(s), day)
  BY DEF Pick
<1>2. PartialSums(f, S) = [s \in SUBSET S |-> Step(f, s, PartialSums(f, S))]
  BY PartialSumsFold
<1>3. Fold(PartialSums(f, S))
  BY <1>1, <1>2 DEF Step
<1>4. Fold(chosen)
  BY <1>3
<1>5. MapThenSumSet(LAMBDA i : Pounds(i, day), S) = chosen[S]
  BY DEF MapThenSumSet, MapThenFoldSet, Pick
<1> HIDE DEF chosen, f
<1>6. \A s \in SUBSET S : chosen[s] = Step(f, s, chosen)
  BY <1>1, <1>4 DEF Step
<1> QED
  BY <1>5, <1>6, SumIsAnyFold DEF f

LEMMA SumOfPounds ==
  ASSUME NEW S, IsFiniteSet(S)
  PROVE  MapThenSumSet(LAMBDA i : Pounds(i, rows[i].day), S)
           = SumFunctionOnSet([i \in S |-> Pounds(i, rows[i].day)], S)
<1> DEFINE f == [i \in S |-> Pounds(i, rows[i].day)]
           Fold(sum) == sum = [s \in SUBSET S |->
                          IF s = {} THEN 0
                          ELSE Pounds(Pick(s), rows[Pick(s)].day) + sum[s \ {Pick(s)}]]
           chosen == CHOOSE sum : Fold(sum)
<1>1. \A s \in SUBSET S : s # {} => f[Pick(s)] = Pounds(Pick(s), rows[Pick(s)].day)
  BY DEF Pick
<1>2. PartialSums(f, S) = [s \in SUBSET S |-> Step(f, s, PartialSums(f, S))]
  BY PartialSumsFold
<1>3. Fold(PartialSums(f, S))
  BY <1>1, <1>2 DEF Step
<1>4. Fold(chosen)
  BY <1>3
<1>5. MapThenSumSet(LAMBDA i : Pounds(i, rows[i].day), S) = chosen[S]
  BY DEF MapThenSumSet, MapThenFoldSet, Pick
<1> HIDE DEF chosen, f
<1>6. \A s \in SUBSET S : chosen[s] = Step(f, s, chosen)
  BY <1>1, <1>4 DEF Step
<1> QED
  BY <1>5, <1>6, SumIsAnyFold DEF f

LEMMA SumOfMonthEnds ==
  ASSUME NEW S, IsFiniteSet(S)
  PROVE  MapThenSumSet(LAMBDA i : Pounds(i, MonthEnd(i)), S)
           = SumFunctionOnSet([i \in S |-> Pounds(i, MonthEnd(i))], S)
<1> DEFINE f == [i \in S |-> Pounds(i, MonthEnd(i))]
           Fold(sum) == sum = [s \in SUBSET S |->
                          IF s = {} THEN 0
                          ELSE Pounds(Pick(s), MonthEnd(Pick(s))) + sum[s \ {Pick(s)}]]
           chosen == CHOOSE sum : Fold(sum)
<1>1. \A s \in SUBSET S : s # {} => f[Pick(s)] = Pounds(Pick(s), MonthEnd(Pick(s)))
  BY DEF Pick
<1>2. PartialSums(f, S) = [s \in SUBSET S |-> Step(f, s, PartialSums(f, S))]
  BY PartialSumsFold
<1>3. Fold(PartialSums(f, S))
  BY <1>1, <1>2 DEF Step
<1>4. Fold(chosen)
  BY <1>3
<1>5. MapThenSumSet(LAMBDA i : Pounds(i, MonthEnd(i)), S) = chosen[S]
  BY DEF MapThenSumSet, MapThenFoldSet, Pick
<1> HIDE DEF chosen, f
<1>6. \A s \in SUBSET S : chosen[s] = Step(f, s, chosen)
  BY <1>1, <1>4 DEF Step
<1> QED
  BY <1>5, <1>6, SumIsAnyFold DEF f

LEMMA SumOfRows ==
  ASSUME NEW S, IsFiniteSet(S)
  PROVE  MapThenSumSet(LAMBDA i : rows[i].amount, S)
           = SumFunctionOnSet([i \in S |-> rows[i].amount], S)
<1> DEFINE f == [i \in S |-> rows[i].amount]
           Fold(sum) == sum = [s \in SUBSET S |->
                          IF s = {} THEN 0 ELSE rows[Pick(s)].amount + sum[s \ {Pick(s)}]]
           chosen == CHOOSE sum : Fold(sum)
<1>1. \A s \in SUBSET S : s # {} => f[Pick(s)] = rows[Pick(s)].amount
  BY DEF Pick
<1>2. PartialSums(f, S) = [s \in SUBSET S |-> Step(f, s, PartialSums(f, S))]
  BY PartialSumsFold
<1>3. Fold(PartialSums(f, S))
  BY <1>1, <1>2 DEF Step
<1>4. Fold(chosen)
  BY <1>3
<1>5. MapThenSumSet(LAMBDA i : rows[i].amount, S) = chosen[S]
  BY DEF MapThenSumSet, MapThenFoldSet, Pick
<1> HIDE DEF chosen, f
<1>6. \A s \in SUBSET S : chosen[s] = Step(f, s, chosen)
  BY <1>1, <1>4 DEF Step
<1> QED
  BY <1>5, <1>6, SumIsAnyFold DEF f

-----------------------------------------------------------------------------
(* Rows, and the logs of what was read of them. *)

\* What an account's rows are, by the assumptions on it.
RowsSound ==
  /\ IsFiniteSet(DOMAIN rows)
  /\ Len(rows) \in Nat /\ DOMAIN rows = 1 .. Len(rows)
  /\ autoconvert \in BOOLEAN
  /\ \A i \in DOMAIN rows :
        /\ rows[i].day \in Days /\ rows[i].amount \in Int
        /\ rows[i].currency # NoValue /\ Priced(rows[i].currency)
        /\ \A day \in Days : Whole(rows[i].amount, rows[i].currency, day)

LEMMA AccountRows ==
  ASSUME account \in Accounts
  PROVE  RowsSound
<1>1. /\ account.autoconvert \in BOOLEAN
      /\ Len(rows) \in Nat /\ DOMAIN rows = 1 .. Len(rows)
      /\ \A i \in DOMAIN rows :
            /\ rows[i].day \in Days /\ rows[i].amount \in Int
            /\ rows[i].currency # NoValue
            /\ rows[i].currency # UK_CURRENCY => \A day \in Days :
                /\ Rate[rows[i].currency][day] \in Nat \ {0}
                /\ rows[i].amount % Rate[rows[i].currency][day] = 0
  BY AccountsAssumption DEF rows
<1>2. IsFiniteSet(DOMAIN rows)
  BY <1>1, FS_Interval
<1>3. ASSUME NEW i \in DOMAIN rows
      PROVE  Priced(rows[i].currency)
  BY <1>1 DEF Priced, UnitsOf
<1>4. ASSUME NEW i \in DOMAIN rows, NEW day \in Days
      PROVE  Whole(rows[i].amount, rows[i].currency, day)
  <2>1. rows[i].amount \in Int
    BY <1>1
  <2>2. rows[i].amount % 1 = 0
    BY <2>1
  <2> QED
    BY <1>1, <2>2 DEF Whole, UnitsOf
<1> QED
  BY <1>1, <1>2, <1>3, <1>4 DEF RowsSound, autoconvert

RowAmount == [i \in DOMAIN rows |-> rows[i].amount]
PoundsAt(day) == [i \in DOMAIN rows |-> Pounds(i, day)]

LEMMA RowInPounds ==
  ASSUME RowsSound, NEW i \in DOMAIN rows, NEW day \in Days
  PROVE  Pounds(i, day) \in Int /\ PoundsAt(day)[i] = Pounds(i, day)
  BY InPoundsIs DEF RowsSound, Pounds, PoundsAt

\* A log that adds the amounts of the rows S, each under its key.
Summed(log, S, key) ==
  /\ DOMAIN log = {key[i] : i \in S}
  /\ \A k \in DOMAIN log :
        log[k] = Money(SumFunctionOnSet(RowAmount, {i \in S : key[i] = k}), k.currency)

LEMMA EmptyLog ==
  ASSUME NEW key
  PROVE  Summed(<<>>, {}, key)
<1>1. DOMAIN <<>> = {}
  OBVIOUS
<1> QED
  BY <1>1 DEF Summed

LEMMA LogGrows ==
  ASSUME RowsSound, NEW log, NEW S \in SUBSET DOMAIN rows, NEW key,
         \A j \in DOMAIN rows : key[j].currency = rows[j].currency,
         Summed(log, S, key), NEW i \in DOMAIN rows \ S
  PROVE  Summed(Add(log, key[i], RowMoney(rows[i])), S \cup {i}, key)
<1> DEFINE mine == {j \in S : key[j] = key[i]}
           after == Add(log, key[i], RowMoney(rows[i]))
           a == rows[i].amount
           currency == rows[i].currency
<1>1. IsFiniteSet(mine) /\ i \notin mine /\ \A j \in mine : RowAmount[j] \in Int
  BY FS_Subset DEF RowsSound, RowAmount
<1>2. a \in Int /\ RowAmount[i] = a /\ currency # NoValue /\ key[i].currency = currency
  BY DEF RowsSound, RowAmount
<1>3. SumFunctionOnSet(RowAmount, mine) \in Int
  BY <1>1, SumType
<1>4. SumFunctionOnSet(RowAmount, mine \cup {i}) = SumFunctionOnSet(RowAmount, mine) + a
  BY <1>1, <1>2, SumAdd
<1>5. DOMAIN after = {key[j] : j \in S \cup {i}}
  BY DEF Summed, Add, Put
<1>6. after[key[i]] = Combined(At(log, key[i]), Money(a, currency), 1)
  BY DEF Add, Put, RowMoney
<1>7. /\ At(log, key[i]).amount = SumFunctionOnSet(RowAmount, mine)
      /\ At(log, key[i]).currency \in {currency, NoValue}
  <2>1. CASE key[i] \in DOMAIN log
    <3>1. At(log, key[i]) = Money(SumFunctionOnSet(RowAmount, mine), currency)
      BY <1>2, <2>1 DEF At, Summed
    <3> QED
      BY <3>1 DEF Money
  <2>2. CASE key[i] \notin DOMAIN log
    <3>1. mine = {} /\ At(log, key[i]) = NoMoney
      BY <2>2 DEF At, Summed
    <3>2. SumFunctionOnSet(RowAmount, {}) = 0
      BY SumOfNone
    <3>3. At(log, key[i]).amount = 0 /\ At(log, key[i]).currency = NoValue
      BY <3>1 DEF NoMoney
    <3>4. SumFunctionOnSet(RowAmount, mine) = 0
      BY <3>1, <3>2
    <3> QED
      BY <3>3, <3>4
  <2> QED
    BY <2>1, <2>2
<1>8. after[key[i]] = Money(SumFunctionOnSet(RowAmount, mine) + a, currency)
  BY <1>2, <1>6, <1>7 DEF Combined, Differ, Money
<1> HIDE DEF after
<1>12. ASSUME NEW k \in DOMAIN after
       PROVE  after[k] = Money(SumFunctionOnSet(RowAmount, {j \in S \cup {i} : key[j] = k}),
                               k.currency)
  <2>1. CASE k = key[i]
    <3>1. {j \in S \cup {i} : key[j] = k} = mine \cup {i}
      BY <2>1
    <3> QED
      BY <1>2, <1>4, <1>8, <2>1, <3>1
  <2>2. CASE k # key[i]
    <3>1. {j \in S \cup {i} : key[j] = k} = {j \in S : key[j] = k}
      BY <2>2
    <3>2. k \in DOMAIN log /\ after[k] = log[k]
      BY <1>5, <2>2 DEF after, Add, Put, Summed
    <3> QED
      BY <3>1, <3>2 DEF Summed
  <2> QED
    BY <2>1, <2>2
<1> QED
  BY <1>5, <1>12 DEF Summed, after

-----------------------------------------------------------------------------
(* Payments. *)

\* A sum of money in a currency with rates, and a multiple of the day's.
Sterling(m, day) ==
  /\ m.amount \in Int /\ m.currency # NoValue /\ Priced(m.currency)
  /\ Whole(m.amount, m.currency, day)

LEMMA ForeignAndSterling ==
  ASSUME NEW a \in Int, NEW b \in Int, NEW currency, currency # UK_CURRENCY,
         NEW day \in Days, Priced(currency), Whole(a, currency, day)
  PROVE  /\ a + (b * Rate[currency][day]) \in Int
         /\ Whole(a + (b * Rate[currency][day]), currency, day)
         /\ ToGbp(a + (b * Rate[currency][day]), currency, day)
              = ToGbp(a, currency, day) + b
<1> DEFINE r == UnitsOf(currency, day)
           c == b * Rate[currency][day]
<1>1. r = Rate[currency][day] /\ r \in Nat \ {0}
  BY DEF Priced, UnitsOf
<1>2. c = r * b /\ c \in Int
  BY <1>1
<1> HIDE DEF r
<1>3. (r * b) \div r = b /\ (r * b) % r = 0
  BY <1>1, DivideProduct
<1> HIDE DEF c
<1>4. Whole(c, currency, day)
  BY <1>2, <1>3 DEF Whole, r
<1>5. ToGbp(c, currency, day) = b
  BY <1>2, <1>3, InPoundsIs DEF r
<1>6. /\ ToGbp(a + c, currency, day) = ToGbp(a, currency, day) + ToGbp(c, currency, day)
      /\ Whole(a + c, currency, day) /\ a + c \in Int
  BY <1>2, <1>4, PoundsAddUp
<1> QED
  BY <1>5, <1>6 DEF c

LEMMA PaidTogether ==
  ASSUME NEW a, NEW b, NEW day \in Days, Sterling(a, day), Sterling(b, day),
         Combinable(a, b)
  PROVE  /\ Sterling(Combined(a, b, day), day)
         /\ ToGbp(Combined(a, b, day).amount, Combined(a, b, day).currency, day)
              = ToGbp(a.amount, a.currency, day) + ToGbp(b.amount, b.currency, day)
<1>1. CASE a.currency = b.currency
  <2>1. Combined(a, b, day) = Money(a.amount + b.amount, a.currency)
    BY <1>1 DEF Combined, Differ, Sterling
  <2> DEFINE x == a.amount
             y == b.amount
             currency == a.currency
  <2>3. /\ x \in Int /\ y \in Int /\ Priced(currency)
        /\ Whole(x, currency, day) /\ Whole(y, currency, day)
    BY <1>1 DEF Sterling
  <2> HIDE DEF x, y, currency
  <2>4. /\ x + y \in Int
        /\ ToGbp(x + y, currency, day) = ToGbp(x, currency, day) + ToGbp(y, currency, day)
        /\ Whole(x + y, currency, day)
    BY <2>3, PoundsAddUp
  <2>2. /\ a.amount + b.amount \in Int
        /\ ToGbp(a.amount + b.amount, a.currency, day)
             = ToGbp(a.amount, a.currency, day) + ToGbp(b.amount, a.currency, day)
        /\ Whole(a.amount + b.amount, a.currency, day)
    BY <2>4 DEF x, y, currency
  <2> QED
    BY <1>1, <2>1, <2>2 DEF Money, Sterling
<1>2. CASE a.currency # b.currency
  <2>1. Differ(a, b) /\ UK_CURRENCY \in {a.currency, b.currency}
    BY <1>2 DEF Differ, Combinable, Sterling
  <2>2. PICK f \in {a, b}, s \in {a, b} :
           /\ s.currency = UK_CURRENCY /\ f.currency # UK_CURRENCY
           /\ Combined(a, b, day)
                = Money(f.amount + (s.amount * Rate[f.currency][day]), f.currency)
           /\ <<f, s>> \in {<<a, b>>, <<b, a>>}
    <3>1. CASE a.currency = UK_CURRENCY
      BY <1>2, <2>1, <3>1 DEF Combined
    <3>2. CASE a.currency # UK_CURRENCY
      BY <1>2, <2>1, <3>2 DEF Combined
    <3> QED
      BY <3>1, <3>2
  <2>3. Sterling(f, day) /\ Sterling(s, day)
    BY <2>2
  <2>4. /\ f.amount + (s.amount * Rate[f.currency][day]) \in Int
        /\ Whole(f.amount + (s.amount * Rate[f.currency][day]), f.currency, day)
        /\ ToGbp(f.amount + (s.amount * Rate[f.currency][day]), f.currency, day)
             = ToGbp(f.amount, f.currency, day) + s.amount
    BY <2>2, <2>3, ForeignAndSterling DEF Sterling
  <2>5. ToGbp(s.amount, s.currency, day) = s.amount
    BY <2>2 DEF ToGbp
  <2>6. ToGbp(f.amount, f.currency, day) \in Int /\ s.amount \in Int
    BY <2>3, InPoundsIs DEF Sterling
  <2>7. Sterling(Combined(a, b, day), day)
    BY <2>2, <2>3, <2>4 DEF Sterling, Money
  <2>8. ToGbp(Combined(a, b, day).amount, Combined(a, b, day).currency, day)
          = ToGbp(f.amount, f.currency, day) + ToGbp(s.amount, s.currency, day)
    BY <2>2, <2>4, <2>5 DEF Money
  <2>9. ToGbp(s.amount, s.currency, day) \in Int
    BY <2>5, <2>6
  <2>10. CASE f = a /\ s = b
    BY <2>7, <2>8, <2>10
  <2>11. CASE f = b /\ s = a
    BY <2>6, <2>7, <2>8, <2>9, <2>11
  <2> QED
    BY <2>2, <2>10, <2>11
<1> QED
  BY <1>1, <1>2

PaymentKey == [i \in DOMAIN rows |-> DividendKey(rows[i])]
Under(S, key, k) == {i \in S : key[i] = k}

\* The payments of the rows S, by security and day, at what they are in pounds.
PaymentsSummed(log, S) ==
  /\ DOMAIN log = {PaymentKey[i] : i \in S}
  /\ \A k \in DOMAIN log :
        /\ Sterling(log[k], k.day)
        /\ ToGbp(log[k].amount, log[k].currency, k.day)
             = SumFunctionOnSet(PoundsAt(k.day), Under(S, PaymentKey, k))
        /\ log[k].currency \in CurrenciesIn(Under(S, PaymentKey, k))

LEMMA PaymentsGrow ==
  ASSUME RowsSound, NEW log, NEW S \in SUBSET DOMAIN rows, PaymentsSummed(log, S),
         NEW i \in DOMAIN rows \ S,
         Combinable(At(log, PaymentKey[i]), RowMoney(rows[i]))
  PROVE  PaymentsSummed(Put(log, PaymentKey[i],
              Combined(At(log, PaymentKey[i]), RowMoney(rows[i]), rows[i].day)), S \cup {i})
<1> DEFINE key == PaymentKey[i]
           day == rows[i].day
           m == RowMoney(rows[i])
           sum == Combined(At(log, key), m, day)
           after == Put(log, key, sum)
           mine == Under(S, PaymentKey, key)
<1>1. key.day = day /\ day \in Days
  BY DEF PaymentKey, DividendKey, RowsSound
<1>2. Sterling(m, day) /\ ToGbp(m.amount, m.currency, day) = Pounds(i, day)
  BY <1>1 DEF Sterling, RowMoney, Money, RowsSound, Pounds
<1>3. /\ IsFiniteSet(mine) /\ i \notin mine
      /\ \A j \in mine : PoundsAt(day)[j] \in Int
      /\ PoundsAt(day)[i] = Pounds(i, day) /\ Pounds(i, day) \in Int
  <2>1. mine \in SUBSET S
    BY DEF Under
  <2> QED
    BY <1>1, <2>1, RowInPounds, FS_Subset DEF RowsSound
<1>4. SumFunctionOnSet(PoundsAt(day), mine \cup {i})
        = SumFunctionOnSet(PoundsAt(day), mine) + Pounds(i, day)
  BY <1>3, SumAdd
<1>5. Sterling(sum, day) /\ ToGbp(sum.amount, sum.currency, day)
        = SumFunctionOnSet(PoundsAt(day), mine) + Pounds(i, day)
  <2>1. CASE key \in DOMAIN log
    <3>1. At(log, key) = log[key]
      BY <2>1 DEF At
    <3>2. /\ Sterling(At(log, key), day)
          /\ ToGbp(At(log, key).amount, At(log, key).currency, day)
               = SumFunctionOnSet(PoundsAt(day), mine)
      BY <1>1, <2>1, <3>1 DEF PaymentsSummed
    <3> QED
      BY <1>1, <1>2, <3>2, PaidTogether
  <2>2. CASE key \notin DOMAIN log
    <3>1. mine = {} /\ At(log, key) = NoMoney
      BY <2>2 DEF PaymentsSummed, Under, At
    <3>2. SumFunctionOnSet(PoundsAt(day), mine) = 0
      BY <3>1, SumOfNone
    <3>3. sum = Money(0 + m.amount, m.currency)
      BY <3>1 DEF Combined, Differ, NoMoney
    <3>4. sum = Money(m.amount, m.currency) /\ m = Money(m.amount, m.currency)
      BY <1>2, <3>3 DEF Sterling, RowMoney, Money
    <3> QED
      BY <1>2, <1>3, <3>2, <3>4
  <2> QED
    BY <2>1, <2>2
<1>6. sum.currency \in CurrenciesIn(mine \cup {i})
  <2>1. m.currency = rows[i].currency /\ m.currency # NoValue
    BY DEF m, RowMoney, Money, RowsSound
  <2>2. CASE key \in DOMAIN log
    <3>1. At(log, key) = log[key] /\ log[key].currency \in CurrenciesIn(mine)
      BY <2>2 DEF At, PaymentsSummed, mine
    <3>2. sum.currency \in {At(log, key).currency, m.currency}
      BY DEF sum, Combined, Money
    <3> QED
      BY <2>1, <3>1, <3>2 DEF CurrenciesIn
  <2>3. CASE key \notin DOMAIN log
    <3>1. At(log, key) = NoMoney
      BY <2>3 DEF At
    <3>2. sum.currency = m.currency
      BY <3>1 DEF sum, Combined, Differ, Money, NoMoney
    <3> QED
      BY <2>1, <3>2 DEF CurrenciesIn
  <2> QED
    BY <2>2, <2>3
<1>7. DOMAIN after = {PaymentKey[j] : j \in S \cup {i}}
  BY DEF PaymentsSummed, Put
<1>8. after[key] = sum
  BY DEF Put
<1>9. \A k \in DOMAIN after : k # key => k \in DOMAIN log /\ after[k] = log[k]
  BY DEF Put
<1> HIDE DEF after, sum, mine, m
<1>10. ASSUME NEW k \in DOMAIN after
      PROVE  /\ Sterling(after[k], k.day)
             /\ ToGbp(after[k].amount, after[k].currency, k.day)
                  = SumFunctionOnSet(PoundsAt(k.day), Under(S \cup {i}, PaymentKey, k))
             /\ after[k].currency \in CurrenciesIn(Under(S \cup {i}, PaymentKey, k))
  <2>1. CASE k = key
    <3>1. Under(S \cup {i}, PaymentKey, k) = mine \cup {i}
      BY <2>1 DEF Under, mine
    <3> QED
      BY <1>1, <1>4, <1>5, <1>6, <1>8, <2>1, <3>1
  <2>2. CASE k # key
    <3>1. Under(S \cup {i}, PaymentKey, k) = Under(S, PaymentKey, k)
      BY <2>2 DEF Under
    <3> QED
      BY <1>9, <2>2, <3>1 DEF PaymentsSummed
  <2> QED
    BY <2>1, <2>2
<1>11. PaymentsSummed(after, S \cup {i})
  BY <1>7, <1>10 DEF PaymentsSummed
<1> QED
  BY <1>11 DEF after, sum, m

-----------------------------------------------------------------------------
(* What the first pass has recorded of the rows R it has read. *)

TaxKeys == [i \in DOMAIN rows |-> TaxKey(rows[i])]
InterestKeys == [i \in DOMAIN rows |-> InterestKey(rows[i])]
OfKind(R, kind) == {i \in R : rows[i].kind = kind}
PaymentDates(S) ==
  {[broker |-> rows[i].broker, symbol |-> rows[i].symbol, day |-> rows[i].day] : i \in S}

Recorded(h, R) ==
  /\ h = [dividend_list |-> h.dividend_list, dividend_dates |-> h.dividend_dates,
          dividend_tax_list |-> h.dividend_tax_list, interest_list |-> h.interest_list,
          interest_tax_list |-> h.interest_tax_list]
  /\ PaymentsSummed(h.dividend_list, OfKind(R, "dividend"))
  /\ h.dividend_dates = PaymentDates(OfKind(R, "dividend"))
  /\ Summed(h.dividend_tax_list, OfKind(R, "dividend_tax"), TaxKeys)
  /\ Summed(h.interest_list, OfKind(R, "interest"), InterestKeys)
  /\ Summed(h.interest_tax_list, OfKind(R, "interest_tax"), InterestKeys)
  /\ OfKind(R, "refused") = {}

LEMMA RecordedKept ==
  ASSUME account' = account
  PROVE  \A h, R : Recorded(h, R)' <=> Recorded(h, R)
<1>1. rows' = rows
  BY DEF rows
<1>2. /\ RowAmount' = RowAmount /\ PaymentKey' = PaymentKey /\ TaxKeys' = TaxKeys
      /\ InterestKeys' = InterestKeys /\ \A day : PoundsAt(day)' = PoundsAt(day)
  BY <1>1 DEF RowAmount, PaymentKey, TaxKeys, InterestKeys, PoundsAt, Pounds
<1>3. \A log, S, key : Summed(log, S, key)' <=> Summed(log, S, key)
  BY <1>2 DEF Summed
<1>4. \A S, key, k : Under(S, key, k)' = Under(S, key, k)
  BY DEF Under
<1>5. \A m, day : Sterling(m, day)' <=> Sterling(m, day)
  BY DEF Sterling, Priced, Whole
<1>6. \A log, S : PaymentsSummed(log, S)' <=> PaymentsSummed(log, S)
  <2> SUFFICES ASSUME NEW log, NEW S
               PROVE  PaymentsSummed(log, S)' <=> PaymentsSummed(log, S)
    OBVIOUS
  <2>1. \A T : CurrenciesIn(T)' = CurrenciesIn(T)
    BY <1>1 DEF CurrenciesIn
  <2>2. \A k : CurrenciesIn(Under(S, PaymentKey, k))' = CurrenciesIn(Under(S, PaymentKey, k))
    BY <1>2, <1>4, <2>1
  <2> QED
    BY <1>2, <1>4, <1>5, <2>2 DEF PaymentsSummed
<1>7. \A R, kind : OfKind(R, kind)' = OfKind(R, kind)
  BY <1>1 DEF OfKind
<1>8. \A S : PaymentDates(S)' = PaymentDates(S)
  BY <1>1 DEF PaymentDates
<1> QED
  <2> SUFFICES ASSUME NEW h, NEW R
               PROVE  Recorded(h, R)' <=> Recorded(h, R)
    OBVIOUS
  <2> QED
    BY <1>2, <1>3, <1>6, <1>7, <1>8 DEF Recorded

ReadSoFar == next # 0 => Recorded(history, 1 .. (next - 1))

-----------------------------------------------------------------------------
(* Withholding, by broker, security, day and currency. *)

TaxRows == OfKind(DOMAIN rows, "dividend_tax")
TaxInPounds(day) ==
  [key \in DOMAIN history.dividend_tax_list |->
     ToGbp(history.dividend_tax_list[key].amount, key.currency, day)]
TaxAmount == [key \in DOMAIN history.dividend_tax_list |-> history.dividend_tax_list[key].amount]

LEMMA SomeDay == Days # {}
<1>1. LastYear \in Nat \ {0} /\ DaysInYear \in Nat \ {0}
  BY IncomeAssumption
<1>2. LastYear * 1 <= LastYear * DaysInYear
  BY <1>1, 1 <= DaysInYear, TimesKeepsOrder
<1>3. 1 <= LastYear * DaysInYear /\ LastYear * DaysInYear \in Int
  BY <1>1, <1>2
<1>4. 1 \in Days
  BY <1>3 DEF Days
<1> QED
  BY <1>4

LEMMA TaxListFinite ==
  ASSUME RowsSound, Recorded(history, DOMAIN rows)
  PROVE  /\ IsFiniteSet(TaxRows) /\ TaxRows \in SUBSET DOMAIN rows
         /\ DOMAIN history.dividend_tax_list = {TaxKeys[i] : i \in TaxRows}
         /\ IsFiniteSet(DOMAIN history.dividend_tax_list)
         /\ Summed(history.dividend_tax_list, TaxRows, TaxKeys)
<1>1. IsFiniteSet(TaxRows) /\ TaxRows \in SUBSET DOMAIN rows
  BY FS_Subset DEF TaxRows, OfKind, RowsSound
<1>2. /\ DOMAIN history.dividend_tax_list = {TaxKeys[i] : i \in TaxRows}
      /\ Summed(history.dividend_tax_list, TaxRows, TaxKeys)
  BY DEF Recorded, Summed, TaxRows
<1>3. IsFiniteSet({TaxKeys[i] : i \in TaxRows})
  <2> DEFINE f == [i \in TaxRows |-> TaxKeys[i]]
  <2>1. f \in Surjection(TaxRows, {TaxKeys[i] : i \in TaxRows})
    BY DEF Surjection
  <2> QED
    BY <1>1, <2>1, FS_Surjection
<1> QED
  BY <1>1, <1>2, <1>3

LEMMA TaxOfOneKey ==
  ASSUME RowsSound, Recorded(history, DOMAIN rows),
         NEW key \in DOMAIN history.dividend_tax_list, NEW day \in Days
  PROVE  /\ history.dividend_tax_list[key].amount
              = SumFunctionOnSet(RowAmount, Under(TaxRows, TaxKeys, key))
         /\ history.dividend_tax_list[key].amount \in Int
         /\ key.currency # NoValue /\ Priced(key.currency)
         /\ Whole(history.dividend_tax_list[key].amount, key.currency, day)
         /\ TaxInPounds(day)[key]
              = SumFunctionOnSet(PoundsAt(day), Under(TaxRows, TaxKeys, key))
         /\ TaxInPounds(day)[key] \in Int
<1> DEFINE S == Under(TaxRows, TaxKeys, key)
           r == UnitsOf(key.currency, day)
<1>1. IsFiniteSet(S) /\ S \in SUBSET DOMAIN rows
  BY TaxListFinite, FS_Subset DEF Under
<1>2. PICK i \in TaxRows : key = TaxKeys[i]
  BY TaxListFinite
<1>3. i \in DOMAIN rows
  BY TaxListFinite
<1>4. key.currency = rows[i].currency
  BY <1>2, <1>3 DEF TaxKeys, TaxKey
<1>5. key.currency # NoValue /\ Priced(key.currency)
  BY <1>3, <1>4 DEF RowsSound
<1>6. \A j \in S : rows[j].currency = key.currency
  <2> SUFFICES ASSUME NEW j \in S PROVE rows[j].currency = key.currency
    OBVIOUS
  <2>1. j \in DOMAIN rows /\ TaxKeys[j] = key
    BY <1>1 DEF Under
  <2> QED
    BY <2>1 DEF TaxKeys, TaxKey
<1>7. r \in Nat \ {0}
  BY <1>5 DEF Priced
<1>8. \A j \in S : /\ RowAmount[j] \in Int /\ RowAmount[j] % r = 0
                   /\ PoundsAt(day)[j] = RowAmount[j] \div r
  <2> SUFFICES ASSUME NEW j \in S
               PROVE  /\ RowAmount[j] \in Int /\ RowAmount[j] % r = 0
                      /\ PoundsAt(day)[j] = RowAmount[j] \div r
    OBVIOUS
  <2>1. j \in DOMAIN rows /\ rows[j].currency = key.currency
    BY <1>1, <1>6
  <2>2. rows[j].amount \in Int /\ Whole(rows[j].amount, key.currency, day)
    BY <2>1 DEF RowsSound
  <2>3. PoundsAt(day)[j] = ToGbp(rows[j].amount, key.currency, day)
    BY <2>1 DEF PoundsAt, Pounds
  <2>4. ToGbp(rows[j].amount, key.currency, day) = rows[j].amount \div r
    BY <1>5, <2>2, InPoundsIs
  <2> QED
    BY <2>1, <2>2, <2>3, <2>4 DEF RowAmount, Whole
<1> HIDE DEF S, r
<1>9. /\ SumFunctionOnSet(PoundsAt(day), S) = SumFunctionOnSet(RowAmount, S) \div r
      /\ SumFunctionOnSet(RowAmount, S) % r = 0
      /\ SumFunctionOnSet(RowAmount, S) \in Int
  BY <1>1, <1>7, <1>8, SumOfWhole
<1>10. history.dividend_tax_list[key].amount = SumFunctionOnSet(RowAmount, S)
  <2>1. history.dividend_tax_list[key]
          = Money(SumFunctionOnSet(RowAmount, {j \in TaxRows : TaxKeys[j] = key}), key.currency)
    BY TaxListFinite DEF Summed
  <2>2. S = {j \in TaxRows : TaxKeys[j] = key}
    BY DEF S, Under
  <2> QED
    BY <2>1, <2>2 DEF Money
<1>11. /\ ToGbp(SumFunctionOnSet(RowAmount, S), key.currency, day)
            = SumFunctionOnSet(RowAmount, S) \div r
       /\ ToGbp(SumFunctionOnSet(RowAmount, S), key.currency, day) \in Int
  BY <1>5, <1>9, InPoundsIs DEF r
<1>12. TaxInPounds(day)[key] = ToGbp(SumFunctionOnSet(RowAmount, S), key.currency, day)
  BY <1>10 DEF TaxInPounds
<1>13. Whole(SumFunctionOnSet(RowAmount, S), key.currency, day)
  BY <1>9 DEF Whole, r
<1> QED
  BY <1>5, <1>9, <1>10, <1>11, <1>12, <1>13 DEF S

\* A withholding in the currency its carrier is counted in.
Converted(key, currency, carrier) ==
  LET amount == history.dividend_tax_list[key].amount IN
  IF key.currency = currency THEN amount ELSE amount * Rate[currency][carrier.day]
CarrierCurrency(here) ==
  LET foreign == CurrenciesOf(here) \ {UK_CURRENCY} IN
  IF foreign = {} THEN UK_CURRENCY ELSE CHOOSE c \in foreign : TRUE

LEMMA SumOnOneCarrier ==
  ASSUME NEW currency, NEW carrier, NEW S, IsFiniteSet(S)
  PROVE  MapThenSumSet(LAMBDA key : Converted(key, currency, carrier), S)
           = SumFunctionOnSet([key \in S |-> Converted(key, currency, carrier)], S)
<1> DEFINE f == [key \in S |-> Converted(key, currency, carrier)]
           Fold(sum) == sum = [s \in SUBSET S |->
                          IF s = {} THEN 0
                          ELSE Converted(Pick(s), currency, carrier) + sum[s \ {Pick(s)}]]
           chosen == CHOOSE sum : Fold(sum)
<1>1. \A s \in SUBSET S : s # {} => f[Pick(s)] = Converted(Pick(s), currency, carrier)
  BY DEF Pick
<1>2. PartialSums(f, S) = [s \in SUBSET S |-> Step(f, s, PartialSums(f, S))]
  BY PartialSumsFold
<1>3. Fold(PartialSums(f, S))
  BY <1>1, <1>2 DEF Step
<1>4. Fold(chosen)
  BY <1>3
<1>5. MapThenSumSet(LAMBDA key : Converted(key, currency, carrier), S) = chosen[S]
  BY DEF MapThenSumSet, MapThenFoldSet, Pick
<1> HIDE DEF chosen, f
<1>6. \A s \in SUBSET S : chosen[s] = Step(f, s, chosen)
  BY <1>1, <1>4 DEF Step
<1> QED
  BY <1>5, <1>6, SumIsAnyFold DEF f

LEMMA SumOnIs ==
  ASSUME NEW keys, IsFiniteSet(keys), NEW carrier \in {Carrier(key) : key \in keys}
  PROVE  LET here == OnCarrier(keys, carrier)
             currency == CarrierCurrency(here)
         IN  SumOn(keys)[carrier]
               = Money(SumFunctionOnSet([key \in here |-> Converted(key, currency, carrier)],
                                        here), currency)
<1> DEFINE here == OnCarrier(keys, carrier)
           currency == CarrierCurrency(here)
<1>1. IsFiniteSet(here)
  BY FS_Subset DEF OnCarrier
<1>2. SumOn(keys)[carrier]
        = Money(MapThenSumSet(LAMBDA key : Converted(key, currency, carrier), here), currency)
  BY DEF SumOn, Converted, CarrierCurrency
<1> HIDE DEF here, currency
<1>3. MapThenSumSet(LAMBDA key : Converted(key, currency, carrier), here)
        = SumFunctionOnSet([key \in here |-> Converted(key, currency, carrier)], here)
  BY <1>1, SumOnOneCarrier
<1> QED
  BY <1>2, <1>3 DEF here, currency

\* On one carrier there is one currency, and pounds beside it if they may be.
LEMMA OneCurrency ==
  ASSUME RowsSound, NEW keys, IsFiniteSet(keys), Attributable(keys),
         NEW carrier \in {Carrier(key) : key \in keys}
  PROVE  /\ \A key \in OnCarrier(keys, carrier) :
               key.currency \in {CarrierCurrency(OnCarrier(keys, carrier)), UK_CURRENCY}
         /\ ~autoconvert => \A a, b \in OnCarrier(keys, carrier) : a.currency = b.currency
<1> DEFINE here == OnCarrier(keys, carrier)
           foreign == CurrenciesOf(here) \ {UK_CURRENCY}
           rest == CurrenciesOf(here) \ (IF autoconvert THEN {UK_CURRENCY} ELSE {})
<1>1. Cardinality(rest) <= 1 /\ foreign \in SUBSET rest
  BY DEF Attributable
<1>2. IsFiniteSet(rest)
  <2>1. IsFiniteSet(here)
    BY FS_Subset DEF OnCarrier
  <2> DEFINE f == [key \in here |-> key.currency]
  <2>2. f \in Surjection(here, CurrenciesOf(here))
    BY DEF Surjection, CurrenciesOf
  <2>3. IsFiniteSet(CurrenciesOf(here))
    BY <2>1, <2>2, FS_Surjection
  <2> QED
    BY <2>3, FS_Subset
<1>3. \A c, d \in rest : c = d
  <2>1. Cardinality(rest) = 0 \/ Cardinality(rest) = 1
    BY <1>1, <1>2, FS_CardinalityType
  <2>2. CASE Cardinality(rest) = 0
    BY <1>2, <2>2, FS_EmptySet
  <2>3. CASE Cardinality(rest) = 1
    BY <1>2, <2>3, FS_Singleton
  <2> QED
    BY <2>1, <2>2, <2>3
<1>7. ~autoconvert => \A a, b \in here : a.currency = b.currency
  BY <1>3 DEF CurrenciesOf
<1> HIDE DEF here, rest
<1>4. \A key \in here : key.currency = UK_CURRENCY \/ key.currency \in foreign
  BY DEF CurrenciesOf
<1>5. foreign # {} => CarrierCurrency(here) \in foreign
  BY DEF CarrierCurrency
<1> HIDE DEF foreign
<1>6. \A key \in here : key.currency \in {CarrierCurrency(here), UK_CURRENCY}
  BY <1>1, <1>3, <1>4, <1>5
<1> QED
  BY <1>6, <1>7 DEF here

LEMMA CarrierPriced ==
  ASSUME RowsSound, Recorded(history, DOMAIN rows),
         NEW keys \in SUBSET DOMAIN history.dividend_tax_list
  PROVE  \/ Priced(CarrierCurrency(keys)) /\ CarrierCurrency(keys) # NoValue
         \/ CarrierCurrency(keys) = UK_CURRENCY
<1> DEFINE foreign == CurrenciesOf(keys) \ {UK_CURRENCY}
<1>1. CASE foreign = {}
  BY <1>1 DEF CarrierCurrency
<1>2. CASE foreign # {}
  <2>1. CarrierCurrency(keys) \in foreign
    BY <1>2 DEF CarrierCurrency
  <2>2. PICK key \in keys : key.currency = CarrierCurrency(keys)
    BY <2>1 DEF CurrenciesOf
  <2>3. PICK i \in TaxRows : key = TaxKeys[i]
    BY TaxListFinite
  <2>4. i \in DOMAIN rows
    BY TaxListFinite
  <2>5. key.currency = rows[i].currency
    BY <2>3, <2>4 DEF TaxKeys, TaxKey
  <2> QED
    BY <2>2, <2>4, <2>5 DEF RowsSound
<1> QED
  BY <1>1, <1>2

\* What is withheld on one carrier is in pounds the sum of what it is made of.
LEMMA CarriedInPounds ==
  ASSUME RowsSound, UK_CURRENCY # NoValue, Recorded(history, DOMAIN rows),
         NEW keys \in SUBSET DOMAIN history.dividend_tax_list, Attributable(keys),
         NEW carrier \in {Carrier(key) : key \in keys}, carrier.day \in Days
  PROVE  LET sum == SumOn(keys)[carrier] IN
         /\ Sterling(sum, carrier.day)
         /\ ToGbp(sum.amount, sum.currency, carrier.day)
              = SumFunctionOnSet(TaxInPounds(carrier.day), OnCarrier(keys, carrier))
<1> DEFINE day == carrier.day
           here == OnCarrier(keys, carrier)
           currency == CarrierCurrency(here)
           r == UnitsOf(currency, day)
           f == [key \in here |-> Converted(key, currency, carrier)]
           g == TaxInPounds(day)
<1>1. IsFiniteSet(keys) /\ IsFiniteSet(here) /\ here \in SUBSET DOMAIN history.dividend_tax_list
  BY TaxListFinite, FS_Subset DEF OnCarrier
<1>2. Priced(currency) /\ currency # NoValue
  <2>1. Priced(UK_CURRENCY)
    BY DEF Priced, UnitsOf
  <2> QED
    BY <1>1, <2>1, CarrierPriced
<1>3. r \in Nat \ {0}
  BY <1>2 DEF Priced
<1>4. \A key \in here : key.currency \in {currency, UK_CURRENCY}
  BY <1>1, OneCurrency
<1>5. ASSUME NEW key \in here
      PROVE  f[key] \in Int /\ f[key] % r = 0 /\ g[key] = f[key] \div r
  <2> DEFINE a == history.dividend_tax_list[key].amount
  <2>1. /\ a \in Int /\ Priced(key.currency) /\ Whole(a, key.currency, day)
        /\ g[key] = ToGbp(a, key.currency, day)
    <3>1. key \in DOMAIN history.dividend_tax_list
      BY <1>1
    <3>2. g[key] = ToGbp(a, key.currency, day)
      BY <3>1 DEF TaxInPounds
    <3> QED
      BY <3>1, <3>2, TaxOfOneKey
  <2>2. CASE key.currency = currency
    <3>1. f[key] = a
      BY <2>2 DEF Converted
    <3>2. a % r = 0
      BY <2>1, <2>2 DEF Whole
    <3>3. g[key] = a \div r
      BY <2>1, <2>2, InPoundsIs
    <3> QED
      BY <2>1, <3>1, <3>2, <3>3
  <2>3. CASE key.currency # currency
    <3>1. key.currency = UK_CURRENCY /\ currency # UK_CURRENCY
      BY <1>4, <2>3
    <3>2. f[key] = a * Rate[currency][day] /\ r = Rate[currency][day]
      BY <2>3, <3>1 DEF Converted, UnitsOf
    <3>3. g[key] = a
      BY <2>1, <3>1 DEF ToGbp
    <3> HIDE DEF f, g, a, r, day
    <3>4. f[key] = r * a /\ f[key] \in Int
      BY <1>3, <2>1, <3>2
    <3>5. (r * a) \div r = a /\ (r * a) % r = 0
      BY <1>3, <2>1, DivideProduct
    <3> QED
      BY <3>3, <3>4, <3>5
  <2> QED
    BY <2>2, <2>3
<1> HIDE DEF f, g, r
<1>6. /\ SumFunctionOnSet(g, here) = SumFunctionOnSet(f, here) \div r
      /\ SumFunctionOnSet(f, here) % r = 0
      /\ SumFunctionOnSet(f, here) \in Int
  BY <1>1, <1>3, <1>5, SumOfWhole
<1>7. SumOn(keys)[carrier] = Money(SumFunctionOnSet(f, here), currency)
  BY <1>1, SumOnIs DEF f
<1> HIDE DEF here, currency
<1>8. SumOn(keys)[carrier].amount = SumFunctionOnSet(f, here)
      /\ SumOn(keys)[carrier].currency = currency
  BY <1>7 DEF Money
<1>9. ToGbp(SumFunctionOnSet(f, here), currency, day) = SumFunctionOnSet(f, here) \div r
  BY <1>2, <1>6, InPoundsIs DEF r
<1>10. Sterling(SumOn(keys)[carrier], day)
  BY <1>2, <1>6, <1>8 DEF Sterling, Whole, r
<1> QED
  BY <1>6, <1>8, <1>9, <1>10 DEF g, here

LEMMA CandidatesAre ==
  ASSUME RowsSound, Recorded(history, DOMAIN rows), NEW i \in TaxRows
  PROVE  /\ DividendsForTax(TaxKeys[i]) = PaymentDays(i)
         /\ IsFiniteSet(PaymentDays(i)) /\ PaymentDays(i) \in SUBSET Days
<1> DEFINE t == rows[i]
           paid == {j \in RowsOf({"dividend"}) : /\ rows[j].broker = t.broker
                                                 /\ rows[j].symbol = t.symbol}
           days == {rows[j].day : j \in paid}
           dates == {d.day : d \in {d \in history.dividend_dates :
                                      d.broker = t.broker /\ d.symbol = t.symbol}}
<1>1. i \in DOMAIN rows
  BY TaxListFinite
<1>2. TaxKeys[i].broker = t.broker /\ TaxKeys[i].symbol = t.symbol /\ TaxKeys[i].day = t.day
  BY <1>1 DEF TaxKeys, TaxKey
<1>3. history.dividend_dates = PaymentDates(RowsOf({"dividend"}))
  <2>1. OfKind(DOMAIN rows, "dividend") = RowsOf({"dividend"})
    BY DEF OfKind, RowsOf
  <2> QED
    BY <2>1 DEF Recorded
<1>4. dates = days
  <2>1. ASSUME NEW x \in dates PROVE x \in days
    <3>1. PICK d \in history.dividend_dates :
             d.broker = t.broker /\ d.symbol = t.symbol /\ x = d.day
      OBVIOUS
    <3>2. PICK j \in RowsOf({"dividend"}) :
             d = [broker |-> rows[j].broker, symbol |-> rows[j].symbol, day |-> rows[j].day]
      BY <1>3 DEF PaymentDates
    <3> QED
      BY <3>1, <3>2
  <2>2. ASSUME NEW x \in days PROVE x \in dates
    <3>1. PICK j \in paid : x = rows[j].day
      OBVIOUS
    <3> DEFINE d == [broker |-> rows[j].broker, symbol |-> rows[j].symbol, day |-> rows[j].day]
    <3>2. d \in history.dividend_dates
      BY <1>3 DEF PaymentDates
    <3> QED
      BY <3>1, <3>2
  <2> QED
    BY <2>1, <2>2
<1>5. days \in SUBSET Days /\ t.day \in Days /\ Days \in SUBSET Int
  BY <1>1 DEF RowsSound, RowsOf, Days
<1> HIDE DEF dates, days
<1>6. DividendsForTax(TaxKeys[i])
        = IF t.day \in dates THEN {t.day}
          ELSE {d \in dates : d \in (t.day - DIVIDEND_TAX_MATCH_DAYS)..
                                    (t.day + DIVIDEND_TAX_LEAD_DAYS)}
  BY <1>2 DEF DividendsForTax, dates
<1>7. PaymentDays(i)
        = IF t.day \in days THEN {t.day}
          ELSE {d \in days : d - t.day \in (-DIVIDEND_TAX_MATCH_DAYS)..DIVIDEND_TAX_LEAD_DAYS}
  BY DEF PaymentDays, days
<1>8. \A d \in days : d \in (t.day - DIVIDEND_TAX_MATCH_DAYS)..(t.day + DIVIDEND_TAX_LEAD_DAYS)
        <=> d - t.day \in (-DIVIDEND_TAX_MATCH_DAYS)..DIVIDEND_TAX_LEAD_DAYS
  <2>1. \A a, b \in Int, m, n \in Nat : a \in (b - m)..(b + n) <=> a - b \in (-m)..n
    OBVIOUS
  <2> QED
    BY <1>5, <2>1, IncomeAssumption
<1>9. DividendsForTax(TaxKeys[i]) = PaymentDays(i)
  BY <1>4, <1>6, <1>7, <1>8
<1>10. PaymentDays(i) \in SUBSET Days
  BY <1>5, <1>7
<1>11. IsFiniteSet(Days)
  <2>1. LastYear * DaysInYear \in Int
    BY IncomeAssumption
  <2> QED
    BY <2>1, FS_Interval DEF Days
<1> QED
  BY <1>9, <1>10, <1>11, FS_Subset

\* The keys whose withholding has one payment, on the day, it was taken from.
TakenKeys(symbol, day) == {TaxKeys[i] : i \in TakenFrom(symbol, day)}

LEMMA TakenKeysAre ==
  ASSUME RowsSound, Recorded(history, DOMAIN rows), NEW symbol, NEW day
  PROVE  /\ TakenFrom(symbol, day)
              = {i \in TaxRows : TaxKeys[i] \in TakenKeys(symbol, day)}
         /\ OnCarrier(Matched, [symbol |-> symbol, day |-> day])
              = {key \in TakenKeys(symbol, day) : history.dividend_tax_list[key].amount # 0}
         /\ TakenKeys(symbol, day) \in SUBSET DOMAIN history.dividend_tax_list
<1> DEFINE carrier == [symbol |-> symbol, day |-> day]
<1>1. /\ DOMAIN history.dividend_tax_list = {TaxKeys[i] : i \in TaxRows}
      /\ TaxRows = RowsOf({"dividend_tax"}) /\ TaxRows \in SUBSET DOMAIN rows
  BY TaxListFinite DEF RowsOf, TaxRows, OfKind
<1>2. \A i \in TaxRows : TaxKeys[i].symbol = rows[i].symbol /\ TaxKeys[i].day = rows[i].day
  BY <1>1 DEF TaxKeys, TaxKey
<1>3. \A i \in TaxRows :
        i \in TakenFrom(symbol, day)
          <=> TaxKeys[i].symbol = symbol /\ DividendsForTax(TaxKeys[i]) = {day}
  BY <1>1, <1>2, CandidatesAre DEF TakenFrom
<1>4. TakenFrom(symbol, day) \in SUBSET TaxRows
  BY <1>1 DEF TakenFrom
<1>5. \A key \in DOMAIN history.dividend_tax_list :
        key \in TakenKeys(symbol, day)
          <=> key.symbol = symbol /\ DividendsForTax(key) = {day}
  BY <1>1, <1>3, <1>4 DEF TakenKeys
<1>6. TakenKeys(symbol, day) \in SUBSET DOMAIN history.dividend_tax_list
  BY <1>1, <1>4 DEF TakenKeys
<1>7. ASSUME NEW key \in DOMAIN history.dividend_tax_list
      PROVE  Cardinality(DividendsForTax(key)) = 1 /\ Carrier(key) = carrier
               <=> key.symbol = symbol /\ DividendsForTax(key) = {day}
  <2>1. IsFiniteSet(DividendsForTax(key))
    BY <1>1, CandidatesAre
  <2>2. ASSUME Cardinality(DividendsForTax(key)) = 1, Carrier(key) = carrier
        PROVE  key.symbol = symbol /\ DividendsForTax(key) = {day}
    <3>1. PICK d : DividendsForTax(key) = {d}
      BY <2>1, <2>2, FS_Singleton
    <3>2. (CHOOSE x \in DividendsForTax(key) : TRUE) = d
      BY <3>1
    <3>3. Carrier(key) = [symbol |-> key.symbol, day |-> d]
      BY <2>2, <3>2 DEF Carrier
    <3>4. Carrier(key).symbol = key.symbol /\ Carrier(key).day = d
      BY <3>3
    <3> QED
      BY <2>2, <3>1, <3>4
  <2>3. ASSUME key.symbol = symbol, DividendsForTax(key) = {day}
        PROVE  Cardinality(DividendsForTax(key)) = 1 /\ Carrier(key) = carrier
    <3>1. Cardinality({day}) = 1
      BY FS_Singleton
    <3>2. (CHOOSE x \in {day} : TRUE) = day
      OBVIOUS
    <3> QED
      BY <2>3, <3>1, <3>2 DEF Carrier
  <2> QED
    BY <2>2, <2>3
<1>8. OnCarrier(Matched, carrier)
        = {key \in TakenKeys(symbol, day) : history.dividend_tax_list[key].amount # 0}
  BY <1>5, <1>6, <1>7 DEF OnCarrier, Matched, Withheld
<1>9. TakenFrom(symbol, day) = {i \in TaxRows : TaxKeys[i] \in TakenKeys(symbol, day)}
  BY <1>1, <1>3, <1>4, <1>5 DEF TakenKeys
<1> QED
  BY <1>6, <1>8, <1>9

LEMMA TakenInPounds ==
  ASSUME RowsSound, Recorded(history, DOMAIN rows), NEW symbol, NEW day \in Days
  PROVE  SumFunctionOnSet(PoundsAt(day), TakenFrom(symbol, day))
           = SumFunctionOnSet(TaxInPounds(day),
                              OnCarrier(Matched, [symbol |-> symbol, day |-> day]))
<1> DEFINE S == TakenFrom(symbol, day)
           T == TakenKeys(symbol, day)
           here == OnCarrier(Matched, [symbol |-> symbol, day |-> day])
           byKey == [t \in T |-> SumFunctionOnSet(PoundsAt(day), {x \in S : TaxKeys[x] = t})]
<1>1. /\ IsFiniteSet(S) /\ S \in SUBSET DOMAIN rows /\ IsFiniteSet(T)
      /\ T \in SUBSET DOMAIN history.dividend_tax_list
  <2>1. S \in SUBSET TaxRows /\ T \in SUBSET DOMAIN history.dividend_tax_list
    BY TakenKeysAre
  <2> QED
    BY <2>1, TaxListFinite, FS_Subset
<1>2. \A x \in S : PoundsAt(day)[x] \in Int /\ TaxKeys[x] \in T
  BY <1>1, RowInPounds DEF TakenKeys
<1>3. SumFunctionOnSet(byKey, T) = SumFunctionOnSet(PoundsAt(day), S)
  BY <1>1, <1>2, SumByParts
<1>4. \A t \in T : byKey[t] = TaxInPounds(day)[t]
  <2> SUFFICES ASSUME NEW t \in T PROVE byKey[t] = TaxInPounds(day)[t]
    OBVIOUS
  <2>1. {x \in S : TaxKeys[x] = t} = Under(TaxRows, TaxKeys, t)
    <3>1. S = {i \in TaxRows : TaxKeys[i] \in T}
      BY TakenKeysAre
    <3> HIDE DEF S, T
    <3> QED
      BY <3>1 DEF Under
  <2>2. TaxInPounds(day)[t]
          = SumFunctionOnSet(PoundsAt(day), Under(TaxRows, TaxKeys, t))
    BY <1>1, TaxOfOneKey
  <2> QED
    BY <2>1, <2>2
<1> HIDE DEF byKey
<1>5. SumFunctionOnSet(byKey, T) = SumFunctionOnSet(TaxInPounds(day), T)
  BY <1>1, <1>4, SumSame
<1>6. here \in SUBSET T /\ \A t \in T \ here : TaxInPounds(day)[t] = 0
  <2>1. here = {key \in T : history.dividend_tax_list[key].amount # 0}
    BY TakenKeysAre
  <2>2. ASSUME NEW t \in T \ here
        PROVE  TaxInPounds(day)[t] = 0
    <3>1. history.dividend_tax_list[t].amount = 0 /\ t \in DOMAIN history.dividend_tax_list
      BY <1>1, <2>1
    <3>2. TaxInPounds(day)[t] = ToGbp(0, t.currency, day) /\ Priced(t.currency)
      BY <3>1, TaxOfOneKey DEF TaxInPounds
    <3>3. ToGbp(0, t.currency, day) = 0 \div UnitsOf(t.currency, day)
      BY <3>2, InPoundsIs
    <3>4. UnitsOf(t.currency, day) \in Nat \ {0}
      BY <3>2 DEF Priced
    <3>5. \A r \in Nat \ {0} : 0 \div r = 0
      OBVIOUS
    <3> QED
      BY <3>2, <3>3, <3>4, <3>5
  <2> QED
    BY <2>1, <2>2
<1>7. \A t \in T : TaxInPounds(day)[t] \in Int
  BY <1>1, TaxOfOneKey
<1> HIDE DEF S, T, here
<1>8. SumFunctionOnSet(TaxInPounds(day), T) = SumFunctionOnSet(TaxInPounds(day), here)
  BY <1>1, <1>6, <1>7, SumOfSupport
<1> QED
  BY <1>3, <1>5, <1>8 DEF S, here

\* What each payment is charged is what its withholdings come to in pounds, in
\* a currency of theirs.
TaxSound(attributed) ==
  \A symbol, day : day \in Days =>
    LET t == At(attributed, [symbol |-> symbol, day |-> day])
        taken == SumFunctionOnSet(PoundsAt(day), TakenFrom(symbol, day))
    IN \/ t = NoMoney /\ taken = 0
       \/ /\ Sterling(t, day) /\ ToGbp(t.amount, t.currency, day) = taken
          /\ t.currency \in CurrenciesIn(TakenFrom(symbol, day))

LEMMA MatchedSound ==
  ASSUME RowsSound, Recorded(history, DOMAIN rows), Attributable(Matched)
  PROVE  TaxSound(SumOn(Matched))
<1> SUFFICES ASSUME NEW symbol, NEW day \in Days
             PROVE  LET t == At(SumOn(Matched), [symbol |-> symbol, day |-> day])
                        taken == SumFunctionOnSet(PoundsAt(day), TakenFrom(symbol, day))
                    IN \/ t = NoMoney /\ taken = 0
                       \/ /\ Sterling(t, day)
                          /\ ToGbp(t.amount, t.currency, day) = taken
                          /\ t.currency \in CurrenciesIn(TakenFrom(symbol, day))
  BY DEF TaxSound
<1> DEFINE carrier == [symbol |-> symbol, day |-> day]
           here == OnCarrier(Matched, carrier)
<1>1. SumFunctionOnSet(PoundsAt(day), TakenFrom(symbol, day))
        = SumFunctionOnSet(TaxInPounds(day), here)
  BY TakenInPounds
<1>2. DOMAIN SumOn(Matched) = {Carrier(key) : key \in Matched}
  BY DEF SumOn
<1>3. CASE carrier \in {Carrier(key) : key \in Matched}
  <2>1. At(SumOn(Matched), carrier) = SumOn(Matched)[carrier]
    BY <1>2, <1>3 DEF At
  <2>2. Matched \in SUBSET DOMAIN history.dividend_tax_list /\ carrier.day = day
    BY DEF Matched, Withheld
  <2>3. /\ Sterling(SumOn(Matched)[carrier], day)
        /\ ToGbp(SumOn(Matched)[carrier].amount, SumOn(Matched)[carrier].currency, day)
             = SumFunctionOnSet(TaxInPounds(day), here)
    BY <1>3, <2>2, CarriedInPounds, NoValueAssumption
  <2>4. SumOn(Matched)[carrier].currency \in CurrenciesOf(here)
    <3>1. SumOn(Matched)[carrier].currency = CarrierCurrency(here)
      BY <1>3 DEF SumOn, CarrierCurrency, Money
    <3>2. here # {}
      BY <1>3 DEF OnCarrier
    <3> QED
      BY <3>1, <3>2 DEF CarrierCurrency, CurrenciesOf
  <2>5. CurrenciesOf(here) \in SUBSET CurrenciesIn(TakenFrom(symbol, day))
    <3>1. here \in SUBSET TakenKeys(symbol, day)
      BY TakenKeysAre
    <3>2. TakenFrom(symbol, day) \in SUBSET DOMAIN rows
      BY DEF TakenFrom, RowsOf
    <3>3. \A i \in TakenFrom(symbol, day) : TaxKeys[i].currency = rows[i].currency
      BY <3>2 DEF TaxKeys, TaxKey
    <3> HIDE DEF here
    <3> QED
      BY <3>1, <3>3 DEF CurrenciesOf, CurrenciesIn, TakenKeys
  <2> QED
    BY <1>1, <2>1, <2>3, <2>4, <2>5
<1>4. CASE carrier \notin {Carrier(key) : key \in Matched}
  <2>1. At(SumOn(Matched), carrier) = NoMoney
    BY <1>2, <1>4 DEF At
  <2>2. here = {}
    BY <1>4 DEF OnCarrier
  <2> QED
    BY <1>1, <2>1, <2>2, SumOfNone
<1> QED
  BY <1>3, <1>4

-----------------------------------------------------------------------------
(* A payment as the calculation enters it. *)

PaidRows == OfKind(DOMAIN rows, "dividend")
ReliefWithin(e) ==
  e.tax_treaty_amount > 0 =>
      /\ \/ IsinCountry[e.symbol] \in TreatyCountries
         \/ /\ IsinCountry[e.symbol] = NoValue
            /\ \E c \in CurrenciesIn(PaidOn(e.symbol, e.day)) :
                  CurrencyCountry[c] \in TreatyCountries
      /\ \E c \in CurrenciesIn(PaidOn(e.symbol, e.day) \cup TakenFrom(e.symbol, e.day)) :
            (e.tax_treaty_amount - (Parts * (-e.tax_at_source))) * UnitsOf(c, e.day)
              < Parts * Penny

LEMMA PaymentKeys ==
  ASSUME RowsSound, Recorded(history, DOMAIN rows)
  PROVE  /\ IsFiniteSet(PaidRows) /\ PaidRows \in SUBSET DOMAIN rows
         /\ DOMAIN history.dividend_list = {PaymentKey[i] : i \in PaidRows}
         /\ IsFiniteSet(DOMAIN history.dividend_list)
         /\ \A k \in DOMAIN history.dividend_list :
               k.day \in Days /\ k = [symbol |-> k.symbol, day |-> k.day]
<1>1. IsFiniteSet(PaidRows) /\ PaidRows \in SUBSET DOMAIN rows
  BY FS_Subset DEF PaidRows, OfKind, RowsSound
<1>2. DOMAIN history.dividend_list = {PaymentKey[i] : i \in PaidRows}
  BY DEF Recorded, PaymentsSummed, PaidRows
<1>3. IsFiniteSet({PaymentKey[i] : i \in PaidRows})
  <2> DEFINE f == [i \in PaidRows |-> PaymentKey[i]]
  <2>1. f \in Surjection(PaidRows, {PaymentKey[i] : i \in PaidRows})
    BY DEF Surjection
  <2> QED
    BY <1>1, <2>1, FS_Surjection
<1>4. ASSUME NEW k \in DOMAIN history.dividend_list
      PROVE  k.day \in Days /\ k = [symbol |-> k.symbol, day |-> k.day]
  <2>1. PICK i \in PaidRows : k = PaymentKey[i]
    BY <1>2
  <2>2. k = [symbol |-> rows[i].symbol, day |-> rows[i].day] /\ rows[i].day \in Days
    BY <1>1, <2>1 DEF PaymentKey, DividendKey, RowsSound
  <2> QED
    BY <2>2
<1> QED
  BY <1>1, <1>2, <1>3, <1>4

LEMMA EntryIs ==
  ASSUME RowsSound, Recorded(history, DOMAIN rows), TaxSound(attribution.matched),
         NEW key \in DOMAIN history.dividend_list
  PROVE  LET e == DividendEntry(key) IN
         /\ e.symbol = key.symbol /\ e.day = key.day
         /\ e.is_interest <=> key.symbol \in InterestFunds
         /\ e.amount = SumFunctionOnSet(PoundsAt(key.day), Under(PaidRows, PaymentKey, key))
         /\ e.amount \in Int
         /\ e.tax_at_source
              = SumFunctionOnSet(PoundsAt(key.day), TakenFrom(key.symbol, key.day))
<1> DEFINE e == DividendEntry(key)
           payment == history.dividend_list[key]
<1>1. key.day \in Days /\ key = [symbol |-> key.symbol, day |-> key.day]
  BY PaymentKeys
<1>2. e.symbol = key.symbol /\ e.day = key.day /\ (e.is_interest <=> key.symbol \in InterestFunds)
  BY DEF DividendEntry
<1>3. /\ Sterling(payment, key.day)
      /\ ToGbp(payment.amount, payment.currency, key.day)
           = SumFunctionOnSet(PoundsAt(key.day), Under(PaidRows, PaymentKey, key))
  BY DEF Recorded, PaymentsSummed, PaidRows
<1>4. e.amount = ToGbp(payment.amount, payment.currency, key.day)
  BY DEF DividendEntry
<1>5. e.amount \in Int
  BY <1>1, <1>3, <1>4, InPoundsIs DEF Sterling
<1>6. e.tax_at_source
        = SumFunctionOnSet(PoundsAt(key.day), TakenFrom(key.symbol, key.day))
  <2>1. e.tax_at_source = ToGbp(TaxOn(key).amount, TaxCurrency(key), key.day)
    BY DEF DividendEntry
  <2>2. CASE TaxOn(key) = NoMoney
    <3>1. SumFunctionOnSet(PoundsAt(key.day), TakenFrom(key.symbol, key.day)) = 0
      <4>1. ~Sterling(TaxOn(key), key.day)
        BY <2>2 DEF Sterling, NoMoney
      <4> QED
        BY <1>1, <4>1 DEF TaxSound, TaxOn
    <3>2. TaxOn(key).amount = 0 /\ TaxCurrency(key) = payment.currency
      BY <2>2 DEF NoMoney, TaxCurrency
    <3>3. Priced(payment.currency)
      BY <1>3 DEF Sterling
    <3>4. ToGbp(0, payment.currency, key.day) = 0 \div UnitsOf(payment.currency, key.day)
      BY <1>1, <3>3, InPoundsIs
    <3>5. UnitsOf(payment.currency, key.day) \in Nat \ {0}
      BY <1>1, <3>3 DEF Priced
    <3>6. \A r \in Nat \ {0} : 0 \div r = 0
      OBVIOUS
    <3> QED
      BY <2>1, <3>1, <3>2, <3>4, <3>5, <3>6
  <2>3. CASE TaxOn(key) # NoMoney
    <3>1. /\ Sterling(TaxOn(key), key.day)
          /\ ToGbp(TaxOn(key).amount, TaxOn(key).currency, key.day)
               = SumFunctionOnSet(PoundsAt(key.day), TakenFrom(key.symbol, key.day))
      BY <1>1, <2>3 DEF TaxSound, TaxOn
    <3>2. TaxCurrency(key) = TaxOn(key).currency
      BY <3>1 DEF TaxCurrency, Sterling
    <3> QED
      BY <2>1, <3>1, <3>2
  <2> QED
    BY <2>2, <2>3
<1> QED
  BY <1>2, <1>3, <1>4, <1>5, <1>6

\* Relief is a treaty's, and a penny at most more than the tax, if the calculation
\* went on past the payment's currencies.
LEMMA TreatyRelief ==
  ASSUME RowsSound, Recorded(history, DOMAIN rows), TaxSound(attribution.matched),
         NEW key \in DOMAIN history.dividend_list, CurrenciesMatch(key)
  PROVE  ReliefWithin(DividendEntry(key))
<1> DEFINE e == DividendEntry(key)
           payment == history.dividend_list[key]
           tax == TaxOn(key)
           treaty == TreatyFor(key)
           day == key.day
           P == payment.amount
           pc == payment.currency
           T == tax.amount
           tc == TaxCurrency(key)
           r == UnitsOf(pc, day)
           p == ToGbp(P, pc, day)
           t == ToGbp(T, tc, day)
           paid == PaidOn(key.symbol, day)
           taken == TakenFrom(key.symbol, day)
<1>1. /\ e.symbol = key.symbol /\ e.day = day /\ e.amount = p /\ e.tax_at_source = t
      /\ e.tax_treaty_amount = IF UnderTreaty(key) THEN treaty.treaty_rate * p ELSE 0
  BY DEF DividendEntry
<1>2. day \in Days /\ key = [symbol |-> key.symbol, day |-> day]
  BY PaymentKeys
<1> HIDE DEF e
<1> SUFFICES ASSUME e.tax_treaty_amount > 0 PROVE ReliefWithin(e)
  BY DEF ReliefWithin, e
<1>3. UnderTreaty(key) /\ e.tax_treaty_amount = treaty.treaty_rate * p
  BY <1>1
<1>4. Sterling(payment, day) /\ pc \in CurrenciesIn(paid)
  <2>1. Sterling(payment, day) /\ pc \in CurrenciesIn(Under(PaidRows, PaymentKey, key))
    BY DEF Recorded, PaymentsSummed, PaidRows
  <2>2. Under(PaidRows, PaymentKey, key) = paid
    <3>1. PaidRows = RowsOf({"dividend"}) /\ PaidRows \in SUBSET DOMAIN rows
      BY DEF PaidRows, OfKind, RowsOf
    <3>2. \A i \in DOMAIN rows :
            PaymentKey[i] = key <=> rows[i].symbol = key.symbol /\ rows[i].day = day
      BY <1>2 DEF PaymentKey, DividendKey
    <3> QED
      BY <3>1, <3>2 DEF Under, PaidOn
  <2> QED
    BY <2>1, <2>2
<1>5. /\ T < 0 /\ SourceCountry(key.symbol, pc) \in TreatyCountries
      /\ IF tc # pc THEN approx_equal(treaty.country_rate * ToGbp(-P, pc, day), Parts * t)
         ELSE approx_equal(treaty.country_rate * (-P), Parts * T)
  BY <1>3 DEF UnderTreaty
<1>6. Sterling(tax, day) /\ tax.currency \in CurrenciesIn(taken) /\ tc = tax.currency
  <2>1. tax # NoMoney
    BY <1>5 DEF NoMoney
  <2>2. Sterling(tax, day) /\ tax.currency \in CurrenciesIn(taken)
    BY <1>2, <2>1 DEF TaxSound, TaxOn
  <2> QED
    BY <2>2 DEF Sterling, TaxCurrency
<1>7. /\ P \in Int /\ T \in Int /\ r \in Nat \ {0}
      /\ Priced(pc) /\ Priced(tc) /\ P % r = 0 /\ Whole(T, tc, day)
  BY <1>2, <1>4, <1>6 DEF Sterling, Priced, Whole
<1>8. p = P \div r /\ p \in Int /\ t \in Int
  BY <1>2, <1>7, InPoundsIs
<1>9. P = r * p
  <2> HIDE DEF P, r, p
  <2>1. P = r * (P \div r)
    BY <1>7, DivideWhole
  <2> QED
    BY <1>8, <2>1
<1>10. /\ treaty.treaty_rate \in Nat /\ treaty.country_rate \in Nat
      /\ treaty.treaty_rate <= treaty.country_rate
      /\ Parts \in Nat \ {0} /\ Penny \in Nat \ {0}
  BY <1>5, TreatyAssumption DEF TreatyFor
<1>11. \/ IsinCountry[key.symbol] \in TreatyCountries
       \/ /\ IsinCountry[key.symbol] = NoValue
          /\ \E c \in CurrenciesIn(paid) : CurrencyCountry[c] \in TreatyCountries
  BY <1>4, <1>5 DEF SourceCountry
<1>12. \A a, b \in Int : approx_equal(a, b) => -a + b < Parts * Penny
  <2>1. Parts * Penny \in Int
    BY <1>10
  <2> QED
    BY <2>1 DEF approx_equal
<1> DEFINE excess == treaty.treaty_rate * p + (Parts * t)
<1>13. excess = e.tax_treaty_amount - (Parts * (-e.tax_at_source))
  BY <1>1, <1>8, <1>10, <1>3
<1>14. CASE tc = pc
  <2>1. T = r * t
    <3>1. T % r = 0 /\ t = T \div r
      BY <1>2, <1>7, <1>14, InPoundsIs DEF Whole
    <3> HIDE DEF T, r, t
    <3> QED
      BY <1>7, <3>1, DivideWhole
  <2> DEFINE cr == treaty.country_rate
             tr == treaty.treaty_rate
  <2>2. approx_equal(cr * (-P), Parts * T)
    BY <1>5, <1>14
  <2>3. tr * p > 0 /\ tr \in Nat /\ cr \in Nat /\ tr <= cr
    BY <1>10, <1>3
  <2> HIDE DEF T, P, r, t, p, cr, tr, treaty, tc, pc
  <2>4. -(cr * (-P)) + Parts * T < Parts * Penny
    <3>1. cr * (-P) \in Int /\ Parts * T \in Int
      BY <1>7, <1>10, <2>3
    <3> QED
      BY <1>12, <2>2, <3>1
  <2>5. -(cr * (-P)) = cr * P
    BY <1>7, <2>3
  <2>6. cr * (r * p) + (Parts * (r * t)) < Parts * Penny
    BY <1>9, <2>1, <2>4, <2>5
  <2>7. (tr * p + (Parts * t)) * r <= cr * (r * p) + (Parts * (r * t))
    BY <1>7, <1>8, <1>10, <2>3, ReliefExchanged
  <2>8. (tr * p + (Parts * t)) * r < Parts * Penny
    <3> DEFINE a == (tr * p + (Parts * t)) * r
               b == cr * (r * p) + (Parts * (r * t))
               c == Parts * Penny
    <3>1. a \in Int /\ b \in Int /\ c \in Int /\ a <= b /\ b < c
      BY <1>7, <1>8, <1>10, <2>3, <2>6, <2>7
    <3> HIDE DEF a, b, c
    <3>2. a < c
      BY <3>1
    <3> QED
      BY <3>2 DEF a, c
  <2>9. excess * UnitsOf(pc, day) < Parts * Penny
    BY <2>8 DEF tr, r
  <2> QED
    BY <1>1, <1>4, <1>11, <1>13, <2>9 DEF ReliefWithin, CurrenciesIn
<1>15. CASE tc # pc
  <2>1. UK_CURRENCY \in {pc, tc}
    BY <1>5, <1>15 DEF CurrenciesMatch
  <2>2. UK_CURRENCY \in CurrenciesIn(paid \cup taken)
    BY <1>4, <1>6, <2>1 DEF CurrenciesIn
  <2>3. ToGbp(-P, pc, day) = -p
    <3>1. -P \in Int
      BY <1>7
    <3>2. ToGbp(-P, pc, day) = (-P) \div r
      BY <1>2, <1>7, <3>1, InPoundsIs
    <3>3. (r * (-p)) \div r = -p
      BY <1>7, <1>8, DivideProduct, -p \in Int
    <3>4. -P = r * (-p)
      BY <1>7, <1>8, <1>9
    <3> QED
      BY <3>2, <3>3, <3>4
  <2> DEFINE cr == treaty.country_rate
             tr == treaty.treaty_rate
  <2>4. approx_equal(cr * (-p), Parts * t)
    BY <1>5, <1>15, <2>3
  <2>5. tr * p > 0 /\ tr \in Nat /\ cr \in Nat /\ tr <= cr
    BY <1>10, <1>3
  <2> HIDE DEF T, P, r, t, p, cr, tr, treaty, tc, pc
  <2>6. -(cr * (-p)) + Parts * t < Parts * Penny
    <3>1. cr * (-p) \in Int /\ Parts * t \in Int
      BY <1>8, <1>10, <2>5
    <3> QED
      BY <1>12, <2>4, <3>1
  <2>7. tr * p <= cr * p
    BY <1>8, <2>5, ReliefAtTheRate
  <2>8. tr * p + (Parts * t) < Parts * Penny
    <3>1. -(cr * (-p)) = cr * p /\ cr * p \in Int /\ tr * p \in Int
          /\ Parts * t \in Int /\ Parts * Penny \in Int
      BY <1>8, <1>10, <2>5
    <3> QED
      BY <2>6, <2>7, <3>1
  <2>9. excess * UnitsOf(UK_CURRENCY, day) < Parts * Penny
    <3>1. UnitsOf(UK_CURRENCY, day) = 1 /\ tr * p + (Parts * t) \in Int
      BY <1>8, <1>10, <2>5 DEF UnitsOf
    <3> QED
      BY <2>8, <3>1 DEF tr
  <2> QED
    BY <1>1, <1>11, <1>13, <2>2, <2>9 DEF ReliefWithin
<1> QED
  BY <1>14, <1>15

OwnPounds == [i \in DOMAIN rows |-> Pounds(i, rows[i].day)]
RowsUnder(keys) == {i \in PaidRows : PaymentKey[i] \in keys}
EntriesOf(keys) == {DividendEntry(k) : k \in keys}

\* The entries of some payments add up to the rows those payments are of.
LEMMA EntriesAddUp ==
  ASSUME RowsSound, Recorded(history, DOMAIN rows), TaxSound(attribution.matched),
         NEW keys \in SUBSET DOMAIN history.dividend_list
  PROVE  /\ IsFiniteSet(EntriesOf(keys))
         /\ SumFunctionOnSet([e \in EntriesOf(keys) |-> e.amount], EntriesOf(keys))
              = SumFunctionOnSet(OwnPounds, RowsUnder(keys))
<1> DEFINE S == RowsUnder(keys)
           T == EntriesOf(keys)
           part == [i \in S |-> DividendEntry(PaymentKey[i])]
           amounts == [e \in T |-> e.amount]
           byEntry == [t \in T |-> SumFunctionOnSet(OwnPounds, {x \in S : part[x] = t})]
<1>1. IsFiniteSet(S) /\ S \in SUBSET DOMAIN rows
  <2>1. S \in SUBSET PaidRows
    BY DEF RowsUnder
  <2> QED
    BY <2>1, PaymentKeys, FS_Subset
<1>2. IsFiniteSet(T)
  <2> DEFINE f == [k \in keys |-> DividendEntry(k)]
  <2>1. f \in Surjection(keys, T)
    BY DEF Surjection, EntriesOf
  <2>2. IsFiniteSet(keys)
    BY PaymentKeys, FS_Subset
  <2> QED
    BY <2>1, <2>2, FS_Surjection
<1>3. \A x \in S : OwnPounds[x] \in Int /\ part[x] \in T
  <2> SUFFICES ASSUME NEW x \in S PROVE OwnPounds[x] \in Int /\ part[x] \in T
    OBVIOUS
  <2>1. x \in DOMAIN rows /\ PaymentKey[x] \in keys /\ rows[x].day \in Days
    BY <1>1 DEF RowsUnder, RowsSound
  <2> QED
    BY <2>1, RowInPounds DEF OwnPounds, EntriesOf
<1>4. ASSUME NEW t \in T PROVE byEntry[t] = amounts[t]
  <2>1. PICK k \in keys : t = DividendEntry(k)
    BY DEF EntriesOf
  <2> DEFINE mine == Under(PaidRows, PaymentKey, k)
  <2>2. k = [symbol |-> k.symbol, day |-> k.day] /\ k.day \in Days
    BY PaymentKeys
  <2>3. {x \in S : part[x] = t} = mine
    <3>1. ASSUME NEW x \in S, part[x] = t PROVE PaymentKey[x] = k
      <4>1. x \in PaidRows /\ PaymentKey[x] \in DOMAIN history.dividend_list
        BY DEF RowsUnder
      <4>2. /\ DividendEntry(PaymentKey[x]).symbol = PaymentKey[x].symbol
            /\ DividendEntry(PaymentKey[x]).day = PaymentKey[x].day
        BY <4>1, EntryIs
      <4>3. DividendEntry(k).symbol = k.symbol /\ DividendEntry(k).day = k.day
        BY EntryIs
      <4>4. DividendEntry(PaymentKey[x]) = DividendEntry(k)
        BY <2>1, <3>1
      <4>5. PaymentKey[x].symbol = k.symbol /\ PaymentKey[x].day = k.day
        BY <4>2, <4>3, <4>4
      <4>6. PaymentKey[x] = [symbol |-> PaymentKey[x].symbol, day |-> PaymentKey[x].day]
        BY <4>1, PaymentKeys
      <4> QED
        BY <2>2, <4>5, <4>6
    <3>2. ASSUME NEW x \in mine PROVE x \in S /\ part[x] = t
      BY <2>1, <3>2 DEF Under, RowsUnder
    <3>3. S \in SUBSET PaidRows
      BY DEF RowsUnder
    <3> HIDE DEF S, part
    <3> QED
      BY <3>1, <3>2, <3>3 DEF Under
  <2>4. \A x \in mine : OwnPounds[x] = PoundsAt(k.day)[x]
    <3> SUFFICES ASSUME NEW x \in mine PROVE OwnPounds[x] = PoundsAt(k.day)[x]
      OBVIOUS
    <3>1. x \in DOMAIN rows /\ PaymentKey[x] = k
      BY PaymentKeys DEF Under
    <3>2. rows[x].day = k.day
      BY <3>1 DEF PaymentKey, DividendKey
    <3> QED
      BY <3>1, <3>2 DEF OwnPounds, PoundsAt
  <2>5. IsFiniteSet(mine)
    BY PaymentKeys, FS_Subset DEF Under
  <2>6. amounts[t] = SumFunctionOnSet(PoundsAt(k.day), mine)
    BY <2>1, EntryIs
  <2>7. byEntry[t] = SumFunctionOnSet(OwnPounds, mine)
    BY <2>3
  <2> HIDE DEF mine, amounts, byEntry
  <2> QED
    BY <2>4, <2>5, <2>6, <2>7, SumSame
<1>5. SumFunctionOnSet(byEntry, T) = SumFunctionOnSet(OwnPounds, S)
  <2> HIDE DEF S, T, part
  <2> QED
    BY <1>1, <1>2, <1>3, SumByParts
<1> HIDE DEF byEntry, amounts
<1>6. SumFunctionOnSet(byEntry, T) = SumFunctionOnSet(amounts, T)
  BY <1>2, <1>4, SumSame
<1> QED
  BY <1>2, <1>5, <1>6 DEF amounts

\* A sum over two sets apart.
LEMMA SumOfBoth ==
  ASSUME NEW S, IsFiniteSet(S), NEW T, IsFiniteSet(T), S \cap T = {}, NEW f,
         \A x \in S \cup T : f[x] \in Int
  PROVE  SumFunctionOnSet(f, S \cup T) = SumFunctionOnSet(f, S) + SumFunctionOnSet(f, T)
<1> DEFINE both == S \cup T
           inS == [x \in both |-> IF x \in S THEN f[x] ELSE 0]
           inT == [x \in both |-> IF x \in T THEN f[x] ELSE 0]
<1>1. IsFiniteSet(both)
  BY FS_Union
<1>2. \A x \in both : inS[x] \in Int /\ inT[x] \in Int /\ f[x] = inS[x] + inT[x]
  OBVIOUS
<1>3. S \in SUBSET both /\ \A x \in both \ S : inS[x] = 0
  OBVIOUS
<1>4. T \in SUBSET both /\ \A x \in both \ T : inT[x] = 0
  OBVIOUS
<1>5. (\A x \in S : inS[x] = f[x]) /\ (\A x \in T : inT[x] = f[x])
  OBVIOUS
<1> HIDE DEF both, inS, inT
<1>6. SumFunctionOnSet(f, both) = SumFunctionOnSet(inS, both) + SumFunctionOnSet(inT, both)
  BY <1>1, <1>2, SumPlus
<1>7. SumFunctionOnSet(inS, both) = SumFunctionOnSet(inS, S)
  BY <1>1, <1>2, <1>3, SumOfSupport
<1>8. SumFunctionOnSet(inT, both) = SumFunctionOnSet(inT, T)
  BY <1>1, <1>2, <1>4, SumOfSupport
<1>9. /\ SumFunctionOnSet(inS, S) = SumFunctionOnSet(f, S)
      /\ SumFunctionOnSet(inT, T) = SumFunctionOnSet(f, T)
  BY <1>5, SumSame
<1> QED
  BY <1>6, <1>7, <1>8, <1>9 DEF both

-----------------------------------------------------------------------------
(* Interest, by month. *)

\* The rows of one kind and year, and the log that sums them up.
InYear(S) == {i \in S : InTaxYear(rows[i].day)}
AtMonthEnds == [i \in DOMAIN rows |-> Pounds(i, MonthEnd(i))]
SamePayer(i, S) ==
  {j \in S : /\ rows[j].broker = rows[i].broker /\ rows[j].currency = rows[i].currency
             /\ InterestMonth(rows[j].day) = InterestMonth(rows[i].day)
             /\ YearOf(rows[j].day) = YearOf(rows[i].day)}

LEMMA MonthEndIs ==
  ASSUME RowsSound, NEW i \in DOMAIN rows
  PROVE  LET mates == SamePayer(i, OfKind(DOMAIN rows, rows[i].kind)) IN
         /\ \E j \in mates : rows[j].day = MonthEnd(i)
         /\ \A j \in mates : rows[j].day <= MonthEnd(i)
         /\ MonthEnd(i) \in Days
<1> DEFINE mates == SamePayer(i, OfKind(DOMAIN rows, rows[i].kind))
           days == {rows[j].day : j \in mates}
<1>1. i \in mates /\ mates \in SUBSET DOMAIN rows
  BY DEF SamePayer, OfKind
<1>2. days \in SUBSET Days /\ days # {}
  BY <1>1 DEF RowsSound
<1>3. MonthEnd(i) = Max(days)
  BY DEF MonthEnd, RowsOf, SamePayer, OfKind
<1>4. Days = 1..(LastYear * DaysInYear) /\ LastYear * DaysInYear \in Nat
  BY IncomeAssumption DEF Days
<1> HIDE DEF days
<1>5. \E d \in days : \A x \in days : x <= d
  <2>1. days \in SUBSET (0 .. (LastYear * DaysInYear))
    BY <1>2, <1>4
  <2> QED
    BY <1>2, <1>4, <2>1, GreatestNatural
<1>6. Max(days) \in days /\ \A x \in days : x <= Max(days)
  <2>1. \E d \in days : \A x \in days : d >= x
    BY <1>2, <1>4, <1>5
  <2> QED
    BY <1>2, <1>4, <2>1 DEF Max
<1> QED
  BY <1>1, <1>2, <1>3, <1>6 DEF days

OfTheYear(log) == {key \in DOMAIN log : InTaxYear(key.day)}
SameMonthOf(log, key) ==
  {o \in OfTheYear(log) : /\ o.broker = key.broker /\ o.currency = key.currency
                          /\ InterestMonth(o.day) = InterestMonth(key.day)}
Lasts(log) == {key \in OfTheYear(log) : \A o \in SameMonthOf(log, key) : o.day <= key.day}
GroupOf(log, key) ==
  [key |-> key,
   amount |-> SumFunctionOnSet([o \in SameMonthOf(log, key) |-> log[o].amount],
                               SameMonthOf(log, key))]
LastKey(i) ==
  [broker |-> rows[i].broker, day |-> MonthEnd(i), currency |-> rows[i].currency]

LEMMA InterestKeysAre ==
  ASSUME RowsSound, NEW log, NEW kind,
         Summed(log, OfKind(DOMAIN rows, kind), InterestKeys)
  PROVE  /\ IsFiniteSet(DOMAIN log)
         /\ DOMAIN log = {InterestKeys[i] : i \in OfKind(DOMAIN rows, kind)}
         /\ IsFiniteSet(OfKind(DOMAIN rows, kind))
         /\ OfKind(DOMAIN rows, kind) \in SUBSET DOMAIN rows
         /\ \A i \in DOMAIN rows :
              /\ InterestKeys[i] = [broker |-> rows[i].broker, day |-> rows[i].day,
                                    currency |-> rows[i].currency]
              /\ InterestKeys[i].broker = rows[i].broker
              /\ InterestKeys[i].day = rows[i].day
              /\ InterestKeys[i].currency = rows[i].currency
<1> DEFINE K == OfKind(DOMAIN rows, kind)
           f == [i \in K |-> InterestKeys[i]]
<1>1. IsFiniteSet(K) /\ K \in SUBSET DOMAIN rows
  BY FS_Subset DEF OfKind, RowsSound
<1>2. DOMAIN log = {InterestKeys[i] : i \in K}
  BY DEF Summed
<1>3. f \in Surjection(K, {InterestKeys[i] : i \in K})
  BY DEF Surjection
<1>4. \A i \in DOMAIN rows :
        /\ InterestKeys[i] = [broker |-> rows[i].broker, day |-> rows[i].day,
                              currency |-> rows[i].currency]
        /\ InterestKeys[i].broker = rows[i].broker
        /\ InterestKeys[i].day = rows[i].day
        /\ InterestKeys[i].currency = rows[i].currency
  BY DEF InterestKeys, InterestKey
<1> HIDE DEF f, K
<1>5. IsFiniteSet(DOMAIN log)
  BY <1>1, <1>2, <1>3, FS_Surjection
<1> QED
  BY <1>1, <1>2, <1>4, <1>5 DEF K

LEMMA GroupsAre ==
  ASSUME NEW log, IsFiniteSet(DOMAIN log)
  PROVE  GroupByMonth(log) = {GroupOf(log, key) : key \in Lasts(log)}
<1>1. GroupByMonth(log)
        = {[key |-> key,
            amount |-> MapThenSumSet(LAMBDA c : log[c].amount, SameMonthOf(log, key))] :
              key \in Lasts(log)}
  BY DEF GroupByMonth, Lasts, SameMonthOf, OfTheYear
<1>2. ASSUME NEW key
      PROVE  [key |-> key,
              amount |-> MapThenSumSet(LAMBDA c : log[c].amount, SameMonthOf(log, key))]
               = GroupOf(log, key)
  <2>1. IsFiniteSet(SameMonthOf(log, key))
    BY FS_Subset DEF SameMonthOf, OfTheYear
  <2>2. MapThenSumSet(LAMBDA c : log[c].amount, SameMonthOf(log, key))
          = SumFunctionOnSet([c \in SameMonthOf(log, key) |-> log[c].amount],
                             SameMonthOf(log, key))
    BY <2>1, SumOfAmounts
  <2> QED
    BY <2>2 DEF GroupOf
<1> QED
  BY <1>1, <1>2

LEMMA LastKeyIs ==
  ASSUME RowsSound, NEW log, NEW kind,
         Summed(log, OfKind(DOMAIN rows, kind), InterestKeys),
         NEW i \in InYear(OfKind(DOMAIN rows, kind))
  PROVE  /\ LastKey(i) \in Lasts(log)
         /\ InterestKeys[i] \in SameMonthOf(log, LastKey(i))
         /\ \A key \in Lasts(log) :
              InterestKeys[i] \in SameMonthOf(log, key) => key = LastKey(i)
<1> DEFINE K == OfKind(DOMAIN rows, kind)
           mates == SamePayer(i, K)
           last == LastKey(i)
<1>1. /\ DOMAIN log = {InterestKeys[j] : j \in K} /\ K \in SUBSET DOMAIN rows
      /\ \A j \in DOMAIN rows :
           /\ InterestKeys[j] = [broker |-> rows[j].broker, day |-> rows[j].day,
                                 currency |-> rows[j].currency]
           /\ InterestKeys[j].broker = rows[j].broker
           /\ InterestKeys[j].day = rows[j].day
           /\ InterestKeys[j].currency = rows[j].currency
  BY InterestKeysAre
<1>2. i \in K /\ InTaxYear(rows[i].day) /\ rows[i].kind = kind /\ i \in DOMAIN rows
  BY <1>1 DEF InYear, OfKind
<1>3. (\E j \in mates : rows[j].day = MonthEnd(i)) /\ \A j \in mates : rows[j].day <= MonthEnd(i)
  BY <1>2, MonthEndIs
<1>4. \A j \in K : InTaxYear(rows[j].day) <=> YearOf(rows[j].day) = YearOf(rows[i].day)
  BY <1>2 DEF InTaxYear
<1>5. \A j \in mates : /\ j \in K /\ InTaxYear(rows[j].day)
                       /\ rows[j].broker = rows[i].broker
                       /\ rows[j].currency = rows[i].currency
                       /\ InterestMonth(rows[j].day) = InterestMonth(rows[i].day)
  BY <1>4 DEF SamePayer
<1> HIDE DEF K
<1>6. PICK j \in mates : rows[j].day = MonthEnd(i)
  BY <1>3
<1>7. InterestKeys[j] = last
  BY <1>1, <1>5, <1>6 DEF LastKey
<1>8. last \in OfTheYear(log)
  BY <1>1, <1>5, <1>6, <1>7 DEF OfTheYear, LastKey
<1>9. /\ last.broker = rows[i].broker /\ last.currency = rows[i].currency
      /\ last.day = MonthEnd(i)
      /\ InterestMonth(last.day) = InterestMonth(rows[i].day)
  BY <1>5, <1>6 DEF LastKey
<1>10. ASSUME NEW o \in OfTheYear(log), o.broker = rows[i].broker, o.currency = rows[i].currency,
              InterestMonth(o.day) = InterestMonth(rows[i].day)
       PROVE  /\ o.day <= MonthEnd(i)
              /\ o = [broker |-> o.broker, day |-> o.day, currency |-> o.currency]
  <2>1. PICK k \in K : o = InterestKeys[k]
    BY <1>1 DEF OfTheYear
  <2>2. o = [broker |-> rows[k].broker, day |-> rows[k].day, currency |-> rows[k].currency]
    BY <1>1, <2>1
  <2>3. rows[k].broker = rows[i].broker /\ rows[k].currency = rows[i].currency
        /\ rows[k].day = o.day
    BY <1>10, <2>2
  <2>4. InTaxYear(rows[k].day)
    BY <2>3 DEF OfTheYear
  <2>5. k \in mates
    BY <1>4, <1>10, <2>3, <2>4 DEF SamePayer
  <2> QED
    BY <1>3, <2>2, <2>3, <2>5
<1>11. last \in Lasts(log)
  BY <1>8, <1>9, <1>10 DEF Lasts, SameMonthOf
<1>12. InterestKeys[i] \in SameMonthOf(log, last)
  BY <1>1, <1>2, <1>9 DEF SameMonthOf, OfTheYear
<1>13. ASSUME NEW key \in Lasts(log), InterestKeys[i] \in SameMonthOf(log, key)
       PROVE  key = last
  <2>1. /\ key.broker = rows[i].broker /\ key.currency = rows[i].currency
        /\ InterestMonth(key.day) = InterestMonth(rows[i].day) /\ key \in OfTheYear(log)
    BY <1>1, <1>2, <1>13 DEF SameMonthOf, Lasts
  <2>2. /\ key.day <= MonthEnd(i)
        /\ key = [broker |-> key.broker, day |-> key.day, currency |-> key.currency]
    BY <1>10, <2>1
  <2>3. last \in SameMonthOf(log, key)
    BY <1>8, <1>9, <2>1 DEF SameMonthOf
  <2>4. MonthEnd(i) <= key.day
    BY <1>9, <2>3 DEF Lasts
  <2>5. MonthEnd(i) \in Int /\ key.day \in Int
    <3>1. PICK k \in K : key = InterestKeys[k]
      BY <1>1, <2>1 DEF OfTheYear
    <3>2. key.day = rows[k].day /\ k \in DOMAIN rows
      BY <1>1, <3>1
    <3> QED
      BY <1>2, <3>2, MonthEndIs DEF RowsSound, Days
  <2>6. key.day = MonthEnd(i)
    BY <2>2, <2>4, <2>5
  <2> QED
    BY <2>1, <2>2, <2>6 DEF LastKey
<1> QED
  BY <1>11, <1>12, <1>13

LEMMA GroupInPounds ==
  ASSUME RowsSound, NEW log, NEW kind,
         Summed(log, OfKind(DOMAIN rows, kind), InterestKeys), NEW key \in Lasts(log)
  PROVE  ToGbp(GroupOf(log, key).amount, key.currency, key.day)
           = SumFunctionOnSet(AtMonthEnds,
               {i \in InYear(OfKind(DOMAIN rows, kind)) : LastKey(i) = key})
<1> DEFINE K == OfKind(DOMAIN rows, kind)
           SM == SameMonthOf(log, key)
           mine == {i \in InYear(K) : LastKey(i) = key}
           amounts == [o \in SM |-> log[o].amount]
           byKey == [o \in SM |-> SumFunctionOnSet(RowAmount, {x \in mine : InterestKeys[x] = o})]
           r == UnitsOf(key.currency, key.day)
<1>1. /\ DOMAIN log = {InterestKeys[j] : j \in K} /\ K \in SUBSET DOMAIN rows
      /\ IsFiniteSet(K) /\ IsFiniteSet(DOMAIN log)
      /\ \A j \in DOMAIN rows :
           /\ InterestKeys[j] = [broker |-> rows[j].broker, day |-> rows[j].day,
                                 currency |-> rows[j].currency]
           /\ InterestKeys[j].broker = rows[j].broker
           /\ InterestKeys[j].day = rows[j].day
           /\ InterestKeys[j].currency = rows[j].currency
  BY InterestKeysAre
<1>2. IsFiniteSet(SM) /\ IsFiniteSet(mine) /\ mine \in SUBSET DOMAIN rows
      /\ SM \in SUBSET DOMAIN log
  <2>1. SM \in SUBSET DOMAIN log /\ mine \in SUBSET K
    BY DEF SameMonthOf, OfTheYear, InYear
  <2> QED
    BY <1>1, <2>1, FS_Subset
<1>3. mine = {i \in K : InterestKeys[i] \in SM}
  <2>1. ASSUME NEW i \in K, InterestKeys[i] \in SM PROVE i \in mine
    <3>1. InTaxYear(rows[i].day)
      BY <1>1, <2>1 DEF SameMonthOf, OfTheYear
    <3>2. i \in InYear(K)
      BY <3>1 DEF InYear
    <3> QED
      BY <2>1, <3>2, LastKeyIs
  <2>2. ASSUME NEW i \in mine PROVE i \in K /\ InterestKeys[i] \in SM
    <3>1. i \in InYear(K) /\ LastKey(i) = key
      OBVIOUS
    <3> QED
      BY <3>1, LastKeyIs DEF InYear
  <2> HIDE DEF mine, SM, K
  <2> QED
    BY <2>1, <2>2, <1>1, mine \in SUBSET K DEF mine, InYear
<1>4. \A x \in mine : RowAmount[x] \in Int /\ InterestKeys[x] \in SM
  BY <1>2, <1>3 DEF RowAmount, RowsSound
<1>5. SumFunctionOnSet(byKey, SM) = SumFunctionOnSet(RowAmount, mine)
  <2> HIDE DEF mine, SM
  <2> QED
    BY <1>2, <1>4, SumByParts
<1>6. \A o \in SM : byKey[o] = amounts[o]
  <2> SUFFICES ASSUME NEW o \in SM PROVE byKey[o] = amounts[o]
    OBVIOUS
  <2>1. {x \in mine : InterestKeys[x] = o} = {i \in K : InterestKeys[i] = o}
    BY <1>3
  <2>2. log[o] = Money(SumFunctionOnSet(RowAmount, {i \in K : InterestKeys[i] = o}), o.currency)
    BY <1>2 DEF Summed
  <2>3. log[o].amount = SumFunctionOnSet(RowAmount, {i \in K : InterestKeys[i] = o})
    BY <2>2 DEF Money
  <2> QED
    BY <2>1, <2>3
<1> HIDE DEF byKey, amounts
<1>7. GroupOf(log, key).amount = SumFunctionOnSet(RowAmount, mine)
  <2>1. SumFunctionOnSet(byKey, SM) = SumFunctionOnSet(amounts, SM)
    BY <1>2, <1>6, SumSame
  <2> QED
    BY <1>5, <2>1 DEF GroupOf, amounts
<1>8. Priced(key.currency) /\ key.day \in Days
  <2>1. PICK k \in K : key = InterestKeys[k]
    BY <1>1 DEF Lasts, OfTheYear
  <2>2. k \in DOMAIN rows /\ key.currency = rows[k].currency /\ key.day = rows[k].day
    BY <1>1, <2>1
  <2> QED
    BY <2>2 DEF RowsSound
<1>9. r \in Nat \ {0}
  BY <1>8 DEF Priced
<1>10. \A x \in mine : /\ RowAmount[x] \in Int /\ RowAmount[x] % r = 0
                       /\ AtMonthEnds[x] = RowAmount[x] \div r
  <2> SUFFICES ASSUME NEW x \in mine
               PROVE  /\ RowAmount[x] \in Int /\ RowAmount[x] % r = 0
                      /\ AtMonthEnds[x] = RowAmount[x] \div r
    OBVIOUS
  <2>1. x \in DOMAIN rows /\ LastKey(x) = key
    BY <1>2
  <2>2. rows[x].currency = key.currency /\ MonthEnd(x) = key.day
    BY <2>1 DEF LastKey
  <2>3. rows[x].amount \in Int /\ Whole(rows[x].amount, key.currency, key.day)
    BY <1>8, <2>1, <2>2 DEF RowsSound
  <2>4. AtMonthEnds[x] = ToGbp(rows[x].amount, key.currency, key.day)
    BY <2>1, <2>2 DEF AtMonthEnds, Pounds
  <2>5. AtMonthEnds[x] = rows[x].amount \div r
    BY <1>8, <2>3, <2>4, InPoundsIs
  <2> QED
    BY <2>1, <2>3, <2>5 DEF RowAmount, Whole
<1> HIDE DEF mine, r
<1>11. /\ SumFunctionOnSet(AtMonthEnds, mine) = SumFunctionOnSet(RowAmount, mine) \div r
       /\ SumFunctionOnSet(RowAmount, mine) \in Int
  BY <1>2, <1>9, <1>10, SumOfWhole
<1>12. ToGbp(SumFunctionOnSet(RowAmount, mine), key.currency, key.day)
         = SumFunctionOnSet(RowAmount, mine) \div r
  BY <1>8, <1>11, InPoundsIs DEF r
<1> QED
  BY <1>7, <1>11, <1>12 DEF mine

\* Some of the months, in pounds, come to their rows at their month's last rate.
LEMMA GroupsInPounds ==
  ASSUME RowsSound, NEW log, NEW kind,
         Summed(log, OfKind(DOMAIN rows, kind), InterestKeys),
         NEW some \in SUBSET GroupByMonth(log)
  PROVE  InPounds(some)
           = SumFunctionOnSet(AtMonthEnds,
               {i \in InYear(OfKind(DOMAIN rows, kind)) : GroupOf(log, LastKey(i)) \in some})
<1> DEFINE Y == InYear(OfKind(DOMAIN rows, kind))
           S == {i \in Y : GroupOf(log, LastKey(i)) \in some}
           part == [i \in S |-> GroupOf(log, LastKey(i))]
           pounds == [g \in some |-> ToGbp(g.amount, g.key.currency, g.key.day)]
           byGroup == [g \in some |-> SumFunctionOnSet(AtMonthEnds, {x \in S : part[x] = g})]
<1>1. /\ IsFiniteSet(DOMAIN log) /\ GroupByMonth(log) = {GroupOf(log, key) : key \in Lasts(log)}
  BY InterestKeysAre, GroupsAre
<1>2. IsFiniteSet(some)
  <2> DEFINE f == [key \in Lasts(log) |-> GroupOf(log, key)]
  <2>1. f \in Surjection(Lasts(log), GroupByMonth(log))
    BY <1>1 DEF Surjection
  <2>2. IsFiniteSet(Lasts(log))
    <3>1. Lasts(log) \in SUBSET DOMAIN log
      BY DEF Lasts, OfTheYear
    <3> QED
      BY <1>1, <3>1, FS_Subset
  <2> HIDE DEF f
  <2>3. IsFiniteSet(GroupByMonth(log))
    BY <2>1, <2>2, FS_Surjection
  <2> QED
    BY <2>3, FS_Subset
<1>3. IsFiniteSet(S) /\ S \in SUBSET DOMAIN rows
  <2>1. S \in SUBSET OfKind(DOMAIN rows, kind)
    BY DEF InYear
  <2> QED
    BY <2>1, InterestKeysAre, FS_Subset
<1>4. InPounds(some) = SumFunctionOnSet(pounds, some)
  <2>1. InPounds(some) = MapThenSumSet(LAMBDA g : ToGbp(g.amount, g.key.currency, g.key.day), some)
    BY DEF InPounds
  <2> QED
    BY <1>2, <2>1, SumOfGroups
<1>5. \A x \in S : AtMonthEnds[x] \in Int /\ part[x] \in some
  <2> SUFFICES ASSUME NEW x \in S PROVE AtMonthEnds[x] \in Int /\ part[x] \in some
    OBVIOUS
  <2>1. x \in DOMAIN rows
    BY <1>3
  <2>2. AtMonthEnds[x] = Pounds(x, MonthEnd(x)) /\ MonthEnd(x) \in Days
    BY <2>1, MonthEndIs DEF AtMonthEnds
  <2> QED
    BY <2>1, <2>2, RowInPounds
<1>6. ASSUME NEW g \in some PROVE byGroup[g] = pounds[g]
  <2>1. PICK key \in Lasts(log) : g = GroupOf(log, key)
    BY <1>1
  <2>2. {x \in S : part[x] = g} = {i \in Y : LastKey(i) = key}
    <3>1. g.key = key
      BY <2>1 DEF GroupOf
    <3>2. ASSUME NEW x \in S, part[x] = g PROVE LastKey(x) = key
      <4>1. GroupOf(log, LastKey(x)).key = LastKey(x)
        BY DEF GroupOf
      <4> QED
        BY <3>1, <3>2, <4>1
    <3>3. ASSUME NEW x \in Y, LastKey(x) = key PROVE x \in S /\ part[x] = g
      BY <2>1, <3>3
    <3>4. S \in SUBSET Y
      OBVIOUS
    <3> HIDE DEF S, Y, part
    <3> QED
      BY <3>2, <3>3, <3>4
  <2>3. ToGbp(GroupOf(log, key).amount, key.currency, key.day)
          = SumFunctionOnSet(AtMonthEnds, {i \in Y : LastKey(i) = key})
    BY <2>1, GroupInPounds
  <2>4. g.key = key
    BY <2>1 DEF GroupOf
  <2>5. pounds[g] = ToGbp(GroupOf(log, key).amount, key.currency, key.day)
    BY <2>1, <2>4
  <2> QED
    BY <2>2, <2>3, <2>5
<1>7. SumFunctionOnSet(byGroup, some) = SumFunctionOnSet(AtMonthEnds, S)
  <2> HIDE DEF S, part
  <2> QED
    BY <1>2, <1>3, <1>5, SumByParts
<1> HIDE DEF byGroup, pounds
<1>8. SumFunctionOnSet(byGroup, some) = SumFunctionOnSet(pounds, some)
  BY <1>2, <1>6, SumSame
<1> QED
  BY <1>4, <1>7, <1>8

\* What the months of a year add to a calculation's totals.
LEMMA InterestTotals ==
  ASSUME RowsSound, Recorded(history, DOMAIN rows)
  PROVE  LET monthly == GroupByMonth(history.interest_list)
             taxes == GroupByMonth(history.interest_tax_list)
             uk == {g \in monthly : g.key.currency = UK_CURRENCY}
             earned == InYear(OfKind(DOMAIN rows, "interest"))
             inPounds == {i \in earned : rows[i].currency = UK_CURRENCY}
         IN /\ InPounds(uk) = SumFunctionOnSet(AtMonthEnds, inPounds)
            /\ InPounds(monthly \ uk) = SumFunctionOnSet(AtMonthEnds, earned \ inPounds)
            /\ InPounds(taxes)
                 = SumFunctionOnSet(AtMonthEnds, InYear(OfKind(DOMAIN rows, "interest_tax")))
            /\ InPounds(uk) \in Int /\ InPounds(monthly \ uk) \in Int /\ InPounds(taxes) \in Int
<1> DEFINE list == history.interest_list
           monthly == GroupByMonth(history.interest_list)
           taxes == GroupByMonth(history.interest_tax_list)
           uk == {g \in monthly : g.key.currency = UK_CURRENCY}
           earned == InYear(OfKind(DOMAIN rows, "interest"))
           taxed == InYear(OfKind(DOMAIN rows, "interest_tax"))
           inPounds == {i \in earned : rows[i].currency = UK_CURRENCY}
<1>1. /\ Summed(list, OfKind(DOMAIN rows, "interest"), InterestKeys)
      /\ Summed(history.interest_tax_list, OfKind(DOMAIN rows, "interest_tax"), InterestKeys)
  BY DEF Recorded
<1>2. monthly = {GroupOf(list, key) : key \in Lasts(list)}
  <2>1. IsFiniteSet(DOMAIN list)
    BY <1>1, InterestKeysAre
  <2> QED
    BY <2>1, GroupsAre
<1>3. taxes = {GroupOf(history.interest_tax_list, key) : key \in Lasts(history.interest_tax_list)}
  <2>1. IsFiniteSet(DOMAIN history.interest_tax_list)
    BY <1>1, InterestKeysAre
  <2> QED
    BY <2>1, GroupsAre
<1>4. \A i \in earned : /\ GroupOf(list, LastKey(i)) \in monthly
                        /\ GroupOf(list, LastKey(i)).key.currency = rows[i].currency
  BY <1>1, <1>2, LastKeyIs DEF GroupOf, LastKey
<1>5. \A i \in taxed : GroupOf(history.interest_tax_list, LastKey(i)) \in taxes
  BY <1>1, <1>3, LastKeyIs
<1>6. InPounds(uk)
        = SumFunctionOnSet(AtMonthEnds, {i \in earned : GroupOf(list, LastKey(i)) \in uk})
  BY <1>1, GroupsInPounds
<1>7. InPounds(monthly \ uk)
        = SumFunctionOnSet(AtMonthEnds, {i \in earned : GroupOf(list, LastKey(i)) \in monthly \ uk})
  BY <1>1, GroupsInPounds
<1>8. InPounds(taxes)
        = SumFunctionOnSet(AtMonthEnds,
            {i \in taxed : GroupOf(history.interest_tax_list, LastKey(i)) \in taxes})
  BY <1>1, GroupsInPounds
<1>9. {i \in earned : GroupOf(list, LastKey(i)) \in uk} = inPounds
  BY <1>4
<1>10. {i \in earned : GroupOf(list, LastKey(i)) \in monthly \ uk} = earned \ inPounds
  BY <1>4
<1>11. {i \in taxed : GroupOf(history.interest_tax_list, LastKey(i)) \in taxes} = taxed
  BY <1>5
<1>12. \A S \in SUBSET DOMAIN rows : SumFunctionOnSet(AtMonthEnds, S) \in Int
  <2> SUFFICES ASSUME NEW S \in SUBSET DOMAIN rows
               PROVE  SumFunctionOnSet(AtMonthEnds, S) \in Int
    OBVIOUS
  <2>1. IsFiniteSet(S)
    BY FS_Subset DEF RowsSound
  <2>2. \A x \in S : AtMonthEnds[x] \in Int
    BY MonthEndIs, RowInPounds DEF AtMonthEnds
  <2> QED
    BY <2>1, <2>2, SumType
<1>13. earned \in SUBSET DOMAIN rows /\ taxed \in SUBSET DOMAIN rows
       /\ inPounds \in SUBSET DOMAIN rows
  BY DEF InYear, OfKind
<1> HIDE DEF monthly, taxes, uk, earned, taxed, inPounds
<1>14. InPounds(uk) = SumFunctionOnSet(AtMonthEnds, inPounds)
  BY <1>6, <1>9
<1>15. InPounds(monthly \ uk) = SumFunctionOnSet(AtMonthEnds, earned \ inPounds)
  BY <1>7, <1>10
<1>16. InPounds(taxes) = SumFunctionOnSet(AtMonthEnds, taxed)
  BY <1>8, <1>11
<1>17. InPounds(uk) \in Int /\ InPounds(monthly \ uk) \in Int /\ InPounds(taxes) \in Int
  BY <1>12, <1>13, <1>14, <1>15, <1>16
<1> QED
  BY <1>14, <1>15, <1>16, <1>17 DEF monthly, taxes, uk, earned, taxed, inPounds

-----------------------------------------------------------------------------
(* The summary of a year's withholding. *)

\* The day a withholding is counted on: its one payment's, or its own.
CountedOn(i) ==
  IF Cardinality(PaymentDays(i)) = 1 THEN CHOOSE d \in PaymentDays(i) : TRUE
  ELSE rows[i].day
CountedIn(y, symbol, currency) ==
  {i \in TaxRows : /\ rows[i].symbol = symbol /\ rows[i].currency = currency
                   /\ YearOf(CountedOn(i)) = y}
\* A converted account withholds in one currency from the security.
NotMixed(symbol) ==
  autoconvert => \A i, j \in TaxRows :
      rows[i].symbol = symbol /\ rows[j].symbol = symbol
        => rows[i].currency = rows[j].currency
Stated(lines, symbol, currency) ==
  LET k == [symbol |-> symbol, currency |-> currency] IN
  IF k \in DOMAIN lines THEN lines[k] ELSE 0
SummarySound(y, lines) ==
  \A symbol, currency : NotMixed(symbol) =>
    Stated(lines, symbol, currency)
      = SumFunctionOnSet(RowAmount, CountedIn(y, symbol, currency))

LEMMA TaxKeysAre ==
  ASSUME RowsSound, Recorded(history, DOMAIN rows), NEW i \in TaxRows
  PROVE  /\ TaxKeys[i] \in DOMAIN history.dividend_tax_list
         /\ TaxKeys[i].symbol = rows[i].symbol /\ TaxKeys[i].day = rows[i].day
         /\ TaxKeys[i].currency = rows[i].currency
         /\ TaxKeys[i] = TaxKey(rows[i])
         /\ Carrier(TaxKeys[i]).day = CountedOn(i)
<1>1. i \in DOMAIN rows /\ TaxKeys[i] \in DOMAIN history.dividend_tax_list
  BY TaxListFinite
<1>2. TaxKeys[i] = TaxKey(rows[i])
  BY <1>1 DEF TaxKeys
<1>3. /\ TaxKeys[i].symbol = rows[i].symbol /\ TaxKeys[i].day = rows[i].day
      /\ TaxKeys[i].currency = rows[i].currency
  BY <1>2 DEF TaxKey
<1>4. DividendsForTax(TaxKeys[i]) = PaymentDays(i)
  BY CandidatesAre
<1>5. Carrier(TaxKeys[i])
        = [symbol |-> TaxKeys[i].symbol,
           day |-> IF Cardinality(PaymentDays(i)) = 1 THEN CHOOSE d \in PaymentDays(i) : TRUE
                   ELSE TaxKeys[i].day]
  BY <1>4 DEF Carrier
<1>6. Carrier(TaxKeys[i]).day = CountedOn(i)
  BY <1>3, <1>5 DEF CountedOn
<1> QED
  BY <1>1, <1>2, <1>3, <1>6

LEMMA PlainCarrier ==
  ASSUME RowsSound, Recorded(history, DOMAIN rows),
         NEW keys \in SUBSET DOMAIN history.dividend_tax_list, Attributable(keys),
         NEW carrier \in {Carrier(key) : key \in keys}, NotMixed(carrier.symbol)
  PROVE  /\ SumOn(keys)[carrier].amount = SumFunctionOnSet(TaxAmount, OnCarrier(keys, carrier))
         /\ \A key \in OnCarrier(keys, carrier) : key.currency = SumOn(keys)[carrier].currency
<1> DEFINE here == OnCarrier(keys, carrier)
           currency == CarrierCurrency(here)
           f == [key \in here |-> Converted(key, currency, carrier)]
<1>1. IsFiniteSet(keys) /\ IsFiniteSet(here) /\ here \in SUBSET DOMAIN history.dividend_tax_list
  BY TaxListFinite, FS_Subset DEF OnCarrier
<1>2. PICK first \in here : TRUE
  BY DEF OnCarrier
<1>3. \A key \in here : key.symbol = carrier.symbol
  BY DEF OnCarrier, Carrier
<1>4. \A a, b \in here : a.currency = b.currency
  <2>1. CASE autoconvert
    <3> SUFFICES ASSUME NEW a \in here, NEW b \in here PROVE a.currency = b.currency
      OBVIOUS
    <3>1. PICK i \in TaxRows : a = TaxKeys[i]
      BY <1>1, TaxListFinite
    <3>2. PICK j \in TaxRows : b = TaxKeys[j]
      BY <1>1, TaxListFinite
    <3>3. /\ a.symbol = rows[i].symbol /\ a.currency = rows[i].currency
          /\ b.symbol = rows[j].symbol /\ b.currency = rows[j].currency
      BY <3>1, <3>2, TaxKeysAre
    <3>4. rows[i].symbol = carrier.symbol /\ rows[j].symbol = carrier.symbol
      BY <1>3, <3>3
    <3> QED
      BY <2>1, <3>3, <3>4 DEF NotMixed
  <2>2. CASE ~autoconvert
    BY <1>1, <2>2, OneCurrency
  <2> QED
    BY <2>1, <2>2
<1>5. currency = first.currency
  <2>1. CurrenciesOf(here) = {first.currency}
    BY <1>2, <1>4 DEF CurrenciesOf
  <2> HIDE DEF here
  <2> QED
    BY <2>1 DEF CarrierCurrency
<1>6. \A key \in here : key.currency = currency /\ f[key] = TaxAmount[key]
  BY <1>1, <1>2, <1>4, <1>5 DEF Converted, TaxAmount
<1>7. SumOn(keys)[carrier] = Money(SumFunctionOnSet(f, here), currency)
  BY <1>1, SumOnIs
<1> HIDE DEF f
<1>8. SumFunctionOnSet(f, here) = SumFunctionOnSet(TaxAmount, here)
  BY <1>1, <1>6, SumSame
<1>9. SumOn(keys)[carrier].amount = SumFunctionOnSet(f, here)
      /\ SumOn(keys)[carrier].currency = currency
  BY <1>7 DEF Money
<1> QED
  BY <1>6, <1>8, <1>9

\* The carriers of a year, of one security and currency, and what they carry.
LinesOf(log, symbol, currency) ==
  {c \in DOMAIN log : InTaxYear(c.day) /\ c.symbol = symbol /\ log[c].currency = currency}
CarriedKeys(keys, symbol, currency) ==
  {key \in keys : /\ key.symbol = symbol /\ key.currency = currency
                  /\ InTaxYear(Carrier(key).day)}

LEMMA LinesAddUp ==
  ASSUME RowsSound, Recorded(history, DOMAIN rows),
         NEW keys \in SUBSET DOMAIN history.dividend_tax_list, Attributable(keys),
         NEW symbol, NotMixed(symbol), NEW currency
  PROVE  LET log == SumOn(keys)
             lines == LinesOf(log, symbol, currency)
         IN  /\ IsFiniteSet(lines)
             /\ SumFunctionOnSet([c \in lines |-> log[c].amount], lines)
                  = SumFunctionOnSet(TaxAmount, CarriedKeys(keys, symbol, currency))
<1> DEFINE log == SumOn(keys)
           T == LinesOf(log, symbol, currency)
           S == CarriedKeys(keys, symbol, currency)
           part == [key \in S |-> Carrier(key)]
           amounts == [c \in T |-> log[c].amount]
           byLine == [c \in T |-> SumFunctionOnSet(TaxAmount, {x \in S : part[x] = c})]
<1>1. DOMAIN log = {Carrier(key) : key \in keys}
  BY DEF SumOn
<1> HIDE DEF log
<1>2. IsFiniteSet(S) /\ S \in SUBSET keys /\ IsFiniteSet(keys)
  <2>1. S \in SUBSET keys
    BY DEF CarriedKeys
  <2> QED
    BY <2>1, TaxListFinite, FS_Subset
<1>3. IsFiniteSet(T)
  <2> DEFINE f == [key \in keys |-> Carrier(key)]
  <2>1. f \in Surjection(keys, DOMAIN log)
    BY <1>1 DEF Surjection
  <2> HIDE DEF f
  <2>2. IsFiniteSet(DOMAIN log)
    BY <1>2, <2>1, FS_Surjection
  <2> QED
    BY <2>2, FS_Subset DEF LinesOf
<1>4. ASSUME NEW c \in DOMAIN log, c.symbol = symbol
      PROVE  /\ log[c].amount = SumFunctionOnSet(TaxAmount, OnCarrier(keys, c))
             /\ \A key \in OnCarrier(keys, c) : key.currency = log[c].currency
  BY <1>1, <1>4, PlainCarrier DEF log
<1>5. \A key \in keys : Carrier(key).symbol = key.symbol
  BY DEF Carrier
<1>6. \A x \in S : TaxAmount[x] \in Int /\ part[x] \in T
  <2> SUFFICES ASSUME NEW x \in S PROVE TaxAmount[x] \in Int /\ part[x] \in T
    OBVIOUS
  <2>1. x \in keys /\ x.symbol = symbol /\ x.currency = currency /\ InTaxYear(Carrier(x).day)
    BY DEF CarriedKeys
  <2>2. Carrier(x) \in DOMAIN log /\ Carrier(x).symbol = symbol
    BY <1>1, <1>5, <2>1
  <2>3. x \in OnCarrier(keys, Carrier(x))
    BY <2>1 DEF OnCarrier
  <2>4. log[Carrier(x)].currency = currency
    BY <1>4, <2>1, <2>2, <2>3
  <2>5. part[x] \in T
    BY <2>1, <2>2, <2>4 DEF LinesOf
  <2>6. Days # {}
    BY SomeDay
  <2>7. TaxAmount[x] \in Int
    BY <2>1, <2>6, TaxOfOneKey DEF TaxAmount
  <2> QED
    BY <2>5, <2>7
<1>7. \A c \in T : byLine[c] = amounts[c]
  <2> SUFFICES ASSUME NEW c \in T PROVE byLine[c] = amounts[c]
    OBVIOUS
  <2>1. c \in DOMAIN log /\ c.symbol = symbol /\ log[c].currency = currency /\ InTaxYear(c.day)
    BY DEF LinesOf
  <2>2. {x \in S : part[x] = c} = OnCarrier(keys, c)
    <3>1. ASSUME NEW x \in OnCarrier(keys, c) PROVE x \in S /\ part[x] = c
      BY <1>4, <1>5, <2>1, <3>1 DEF OnCarrier, CarriedKeys
    <3>2. ASSUME NEW x \in S, part[x] = c PROVE x \in OnCarrier(keys, c)
      BY <1>2, <3>2 DEF OnCarrier
    <3>3. {x \in S : part[x] = c} \in SUBSET OnCarrier(keys, c)
      BY <3>2
    <3> HIDE DEF S, part
    <3> QED
      BY <3>1, <3>3
  <2>3. amounts[c] = SumFunctionOnSet(TaxAmount, OnCarrier(keys, c))
    BY <1>4, <2>1
  <2> QED
    BY <2>2, <2>3
<1>8. SumFunctionOnSet(byLine, T) = SumFunctionOnSet(TaxAmount, S)
  <2> HIDE DEF S, T, part
  <2> QED
    BY <1>2, <1>3, <1>6, SumByParts
<1> HIDE DEF byLine, amounts
<1>9. SumFunctionOnSet(byLine, T) = SumFunctionOnSet(amounts, T)
  BY <1>3, <1>7, SumSame
<1> QED
  BY <1>3, <1>8, <1>9 DEF amounts, log

LEMMA CountedKeys ==
  ASSUME RowsSound, Recorded(history, DOMAIN rows), NEW symbol, NEW currency
  PROVE  SumFunctionOnSet(TaxAmount,
             CarriedKeys(DOMAIN history.dividend_tax_list, symbol, currency))
           = SumFunctionOnSet(RowAmount, CountedIn(year, symbol, currency))
<1> DEFINE S == CountedIn(year, symbol, currency)
           T == CarriedKeys(DOMAIN history.dividend_tax_list, symbol, currency)
           byKey == [key \in T |-> SumFunctionOnSet(RowAmount, {x \in S : TaxKeys[x] = key})]
<1>1. IsFiniteSet(S) /\ IsFiniteSet(T) /\ S \in SUBSET TaxRows
      /\ T \in SUBSET DOMAIN history.dividend_tax_list
  <2>1. S \in SUBSET TaxRows /\ T \in SUBSET DOMAIN history.dividend_tax_list
    BY DEF CountedIn, CarriedKeys
  <2> QED
    BY <2>1, TaxListFinite, FS_Subset
<1>2. \A i \in TaxRows : i \in S <=> TaxKeys[i] \in T
  BY TaxKeysAre DEF CountedIn, CarriedKeys, InTaxYear
<1>3. \A x \in S : RowAmount[x] \in Int /\ TaxKeys[x] \in T
  BY <1>1, <1>2, TaxListFinite DEF RowAmount, RowsSound
<1>4. \A key \in T : byKey[key] = TaxAmount[key]
  <2> SUFFICES ASSUME NEW key \in T PROVE byKey[key] = TaxAmount[key]
    OBVIOUS
  <2>1. {x \in S : TaxKeys[x] = key} = Under(TaxRows, TaxKeys, key)
    <3> HIDE DEF S, T
    <3> QED
      BY <1>1, <1>2 DEF Under
  <2>2. Days # {}
    BY SomeDay
  <2>3. TaxAmount[key] = SumFunctionOnSet(RowAmount, Under(TaxRows, TaxKeys, key))
    BY <1>1, <2>2, TaxOfOneKey DEF TaxAmount
  <2> QED
    BY <2>1, <2>3
<1>5. SumFunctionOnSet(byKey, T) = SumFunctionOnSet(RowAmount, S)
  <2> HIDE DEF S, T
  <2> QED
    BY <1>1, <1>3, SumByParts
<1> HIDE DEF byKey
<1>6. SumFunctionOnSet(byKey, T) = SumFunctionOnSet(TaxAmount, T)
  BY <1>1, <1>4, SumSame
<1> QED
  BY <1>5, <1>6

LEMMA SummaryIs ==
  ASSUME RowsSound, Recorded(history, DOMAIN rows),
         Attributable(Matched), Attributable(Withheld \ Matched)
  PROVE  SummarySound(year, TaxOfTheYear(AttributionOf))
<1> SUFFICES ASSUME NEW symbol, NEW currency, NotMixed(symbol)
             PROVE  Stated(TaxOfTheYear(AttributionOf), symbol, currency)
                      = SumFunctionOnSet(RowAmount, CountedIn(year, symbol, currency))
  BY DEF SummarySound
<1> DEFINE unmatched == Withheld \ Matched
           here == SumOn(Matched)
           there == SumOn(unmatched)
           Total(log) == SumFunctionOnSet(
                           [c \in LinesOf(log, symbol, currency) |-> log[c].amount],
                           LinesOf(log, symbol, currency))
           k == [symbol |-> symbol, currency |-> currency]
           lines(log) == {c \in DOMAIN log : InTaxYear(c.day)}
           keys == UNION {{[symbol |-> c.symbol, currency |-> log[c].currency] : c \in lines(log)} :
                            log \in {here, there}}
           All == CarriedKeys(DOMAIN history.dividend_tax_list, symbol, currency)
<1>1. /\ Matched \in SUBSET DOMAIN history.dividend_tax_list
      /\ unmatched \in SUBSET DOMAIN history.dividend_tax_list
      /\ Withheld \in SUBSET DOMAIN history.dividend_tax_list
      /\ Matched \in SUBSET Withheld
  BY DEF Matched, Withheld
<1>2. /\ IsFiniteSet(LinesOf(here, symbol, currency))
      /\ Total(here) = SumFunctionOnSet(TaxAmount, CarriedKeys(Matched, symbol, currency))
  BY <1>1, LinesAddUp
<1>3. /\ IsFiniteSet(LinesOf(there, symbol, currency))
      /\ Total(there) = SumFunctionOnSet(TaxAmount, CarriedKeys(unmatched, symbol, currency))
  BY <1>1, LinesAddUp
<1>4. AttributionOf.matched = here /\ AttributionOf.unmatched = there
  BY DEF AttributionOf
<1> HIDE DEF here, there
<1>5. TaxOfTheYear(AttributionOf)
        = [q \in keys |->
             MapThenSumSet(LAMBDA c : here[c].amount, LinesOf(here, q.symbol, q.currency))
               + MapThenSumSet(LAMBDA c : there[c].amount, LinesOf(there, q.symbol, q.currency))]
  <2>1. \A log, s, cur : {c \in lines(log) : c.symbol = s /\ log[c].currency = cur}
                           = LinesOf(log, s, cur)
    BY DEF LinesOf
  <2>2. TaxOfTheYear(AttributionOf)
        = [q \in keys |->
             MapThenSumSet(LAMBDA c : here[c].amount,
               {c \in lines(here) : c.symbol = q.symbol /\ here[c].currency = q.currency})
               + MapThenSumSet(LAMBDA c : there[c].amount,
                   {c \in lines(there) : c.symbol = q.symbol /\ there[c].currency = q.currency})]
    BY <1>4 DEF TaxOfTheYear
  <2> HIDE DEF keys, lines
  <2> QED
    BY <2>1, <2>2
<1>6. /\ MapThenSumSet(LAMBDA c : here[c].amount, LinesOf(here, symbol, currency)) = Total(here)
      /\ MapThenSumSet(LAMBDA c : there[c].amount, LinesOf(there, symbol, currency)) = Total(there)
  BY <1>2, <1>3, SumOfAmounts
<1>7. Stated(TaxOfTheYear(AttributionOf), symbol, currency) = Total(here) + Total(there)
  <2>1. CASE k \in keys
    <3>1. k.symbol = symbol /\ k.currency = currency
      OBVIOUS
    <3>2. TaxOfTheYear(AttributionOf)[k]
            = MapThenSumSet(LAMBDA c : here[c].amount, LinesOf(here, symbol, currency))
                + MapThenSumSet(LAMBDA c : there[c].amount, LinesOf(there, symbol, currency))
      BY <1>5, <2>1, <3>1
    <3>3. k \in DOMAIN TaxOfTheYear(AttributionOf)
      BY <1>5, <2>1
    <3> QED
      BY <1>6, <3>2, <3>3 DEF Stated
  <2>2. CASE k \notin keys
    <3>1. LinesOf(here, symbol, currency) = {} /\ LinesOf(there, symbol, currency) = {}
      <4>1. ASSUME NEW log \in {here, there}, NEW c \in LinesOf(log, symbol, currency)
            PROVE  k \in keys
        <5> DEFINE mine == {[symbol |-> x.symbol, currency |-> log[x].currency] : x \in lines(log)}
        <5>1. k \in mine
          BY DEF LinesOf
        <5>2. mine \in {{[symbol |-> x.symbol, currency |-> l[x].currency] : x \in lines(l)} :
                            l \in {here, there}}
          OBVIOUS
        <5> HIDE DEF mine, lines
        <5> QED
          BY <5>1, <5>2
      <4> QED
        BY <2>2, <4>1
    <3>2. Total(here) = 0 /\ Total(there) = 0
      BY <3>1, SumOfNone
    <3>3. k \notin DOMAIN TaxOfTheYear(AttributionOf)
      BY <1>5, <2>2
    <3> QED
      BY <3>2, <3>3 DEF Stated
  <2> QED
    BY <2>1, <2>2
<1>8. Total(here) + Total(there)
        = SumFunctionOnSet(TaxAmount, CarriedKeys(Withheld, symbol, currency))
  <2> DEFINE A == CarriedKeys(Matched, symbol, currency)
             B == CarriedKeys(unmatched, symbol, currency)
  <2>1. A \cap B = {} /\ A \cup B = CarriedKeys(Withheld, symbol, currency)
    BY <1>1 DEF CarriedKeys
  <2>2. /\ A \in SUBSET DOMAIN history.dividend_tax_list
        /\ B \in SUBSET DOMAIN history.dividend_tax_list
    BY <1>1 DEF CarriedKeys
  <2>3. IsFiniteSet(A) /\ IsFiniteSet(B)
    BY <2>2, TaxListFinite, FS_Subset
  <2>4. \A key \in DOMAIN history.dividend_tax_list : TaxAmount[key] \in Int
    <3>1. Days # {}
      BY SomeDay
    <3> QED
      BY <3>1, TaxOfOneKey DEF TaxAmount
  <2> HIDE DEF A, B
  <2>5. SumFunctionOnSet(TaxAmount, A \cup B)
          = SumFunctionOnSet(TaxAmount, A) + SumFunctionOnSet(TaxAmount, B)
    BY <2>1, <2>2, <2>3, <2>4, SumOfBoth
  <2> QED
    BY <1>2, <1>3, <2>1, <2>5 DEF A, B
<1>9. SumFunctionOnSet(TaxAmount, CarriedKeys(Withheld, symbol, currency))
        = SumFunctionOnSet(TaxAmount, All)
  <2> DEFINE W == CarriedKeys(Withheld, symbol, currency)
  <2>1. W \in SUBSET All /\ All \in SUBSET DOMAIN history.dividend_tax_list
    BY <1>1 DEF CarriedKeys
  <2>2. \A key \in All \ W : TaxAmount[key] = 0
    BY DEF CarriedKeys, Withheld, TaxAmount
  <2>3. IsFiniteSet(All)
    BY <2>1, TaxListFinite, FS_Subset
  <2>4. \A key \in All : TaxAmount[key] \in Int
    <3>1. Days # {}
      BY SomeDay
    <3> QED
      BY <2>1, <3>1, TaxOfOneKey DEF TaxAmount
  <2> HIDE DEF All, W
  <2>5. SumFunctionOnSet(TaxAmount, All) = SumFunctionOnSet(TaxAmount, W)
    BY <2>1, <2>2, <2>3, <2>4, SumOfSupport
  <2> QED
    BY <2>5 DEF W
<1> QED
  BY <1>7, <1>8, <1>9, CountedKeys

\* Whoever reads the year hears of each withholding left out of it.
Told(y, keys) ==
  \A i \in TaxRows :
    (Cardinality(PaymentDays(i)) # 1
     /\ SumFunctionOnSet(RowAmount, Under(TaxRows, TaxKeys, TaxKeys[i])) # 0)
      => \A day \in {rows[i].day} \cup PaymentDays(i) :
            YearOf(day) = y => TaxKeys[i] \in keys

LEMMA LeftOutTold ==
  ASSUME RowsSound, Recorded(history, DOMAIN rows)
  PROVE  Told(year, LeftOut)
<1> SUFFICES ASSUME NEW i \in TaxRows, Cardinality(PaymentDays(i)) # 1,
                    SumFunctionOnSet(RowAmount, Under(TaxRows, TaxKeys, TaxKeys[i])) # 0,
                    NEW day \in {rows[i].day} \cup PaymentDays(i), YearOf(day) = year
             PROVE  TaxKeys[i] \in LeftOut
  BY DEF Told
<1>1. /\ TaxKeys[i] \in DOMAIN history.dividend_tax_list
      /\ TaxKeys[i].day = rows[i].day
      /\ DividendsForTax(TaxKeys[i]) = PaymentDays(i)
  BY TaxKeysAre, CandidatesAre
<1>2. Days # {}
  BY SomeDay
<1>3. history.dividend_tax_list[TaxKeys[i]].amount # 0
  BY <1>1, <1>2, TaxOfOneKey
<1> QED
  BY <1>1, <1>3 DEF LeftOut, Withheld, Matched, InTaxYear

-----------------------------------------------------------------------------
(* The inductive invariant. *)

PaidIn(y) == {i \in PaidRows : YearOf(rows[i].day) = y}
FundsIn(y) == {i \in PaidIn(y) : rows[i].symbol \in InterestFunds}
EarnedIn(y) == {i \in OfKind(DOMAIN rows, "interest") : YearOf(rows[i].day) = y}
SterlingIn(y) == {i \in EarnedIn(y) : rows[i].currency = UK_CURRENCY}
TaxedIn(y) == {i \in OfKind(DOMAIN rows, "interest_tax") : YearOf(rows[i].day) = y}

\* What a report states of a year, in terms of the account's rows.
EntriesSound(y, entries) ==
  /\ {<<e.symbol, e.day>> : e \in entries}
       = {<<rows[i].symbol, rows[i].day>> : i \in PaidIn(y)}
  /\ \A e \in entries :
       /\ ReliefWithin(e)
       /\ e.day \in Days
       /\ e.tax_at_source = SumFunctionOnSet(PoundsAt(e.day), TakenFrom(e.symbol, e.day))
ReportSound(y, r) ==
  /\ OfKind(DOMAIN rows, "refused") = {}
  /\ EntriesSound(y, r.entries)
  /\ r.dividends = SumFunctionOnSet(OwnPounds, PaidIn(y) \ FundsIn(y))
  /\ r.uk_interest = SumFunctionOnSet(AtMonthEnds, SterlingIn(y))
  /\ r.foreign_interest = SumFunctionOnSet(AtMonthEnds, EarnedIn(y) \ SterlingIn(y))
                          + SumFunctionOnSet(OwnPounds, FundsIn(y))
  /\ r.interest_tax = -SumFunctionOnSet(AtMonthEnds, TaxedIn(y))

Stages ==
  /\ account \in Accounts
  /\ year \in Years
  /\ next \in Nat /\ next <= Len(rows) + 1
  /\ ReadSoFar
  /\ run = [ingestion_started |-> run.ingestion_started, ingested |-> run.ingested,
            total_uk_interest |-> run.total_uk_interest,
            total_foreign_interest |-> run.total_foreign_interest,
            total_interest_tax |-> run.total_interest_tax,
            calculation_log_yields |-> run.calculation_log_yields]
  /\ run.ingestion_started \in BOOLEAN /\ run.ingested \in BOOLEAN
  /\ ~run.ingestion_started => next = 0 /\ history = EmptyHistory /\ ~run.ingested
  /\ run.ingested => next = Len(rows) + 1 /\ TaxSound(attribution.matched)
  /\ pending # NoValue =>
        run.ingested /\ pending \in SUBSET DOMAIN history.dividend_list

\* The payments of the year a calculation has entered, and those it counts as
\* interest.
Done == {k \in DOMAIN history.dividend_list \ pending : InTaxYear(k.day)}
FundsAmong(keys) == {k \in keys : k.symbol \in InterestFunds}

Calculated ==
  pending # NoValue =>
    /\ run.calculation_log_yields = EntriesOf(Done)
    /\ run.total_foreign_interest = SumFunctionOnSet(OwnPounds, RowsUnder(FundsAmong(Done)))
    /\ run.total_uk_interest = 0 /\ run.total_interest_tax = 0
    /\ \A k \in Done : CurrenciesMatch(k)

Results ==
  /\ reports = [y \in Years |-> reports[y]]
  /\ summary = [y \in Years |-> summary[y]]
  /\ warned = [y \in Years |-> warned[y]]
  /\ \A y \in Years :
       /\ reports[y] # NoValue => ReportSound(y, reports[y])
       /\ summary[y] # NoValue => SummarySound(y, summary[y]) /\ Told(y, warned[y])

IncomeInv == Stages /\ Calculated /\ Results

LEMMA ResultsKept ==
  ASSUME account' = account
  PROVE  /\ \A y, r : ReportSound(y, r)' <=> ReportSound(y, r)
         /\ \A y, r : SummarySound(y, r)' <=> SummarySound(y, r)
         /\ \A y, r : Told(y, r)' <=> Told(y, r)
         /\ \A r : TaxSound(r)' <=> TaxSound(r)
<1>1. rows' = rows /\ autoconvert' = autoconvert
  BY DEF rows, autoconvert
<1>2. /\ RowAmount' = RowAmount /\ TaxKeys' = TaxKeys /\ TaxRows' = TaxRows
      /\ PaidRows' = PaidRows
      /\ \A kind : OfKind(DOMAIN rows, kind)' = OfKind(DOMAIN rows, kind)
      /\ \A kinds : RowsOf(kinds)' = RowsOf(kinds)
  BY <1>1 DEF RowAmount, TaxKeys, TaxRows, PaidRows, OfKind, RowsOf
<1>3. /\ \A i, day : Pounds(i, day)' = Pounds(i, day)
      /\ \A day : PoundsAt(day)' = PoundsAt(day)
      /\ OwnPounds' = OwnPounds
  BY <1>1 DEF Pounds, PoundsAt, OwnPounds
<1>4. \A i : MonthEnd(i)' = MonthEnd(i)
  BY <1>1, <1>2 DEF MonthEnd
<1>5. AtMonthEnds' = AtMonthEnds
  BY <1>1, <1>3, <1>4 DEF AtMonthEnds
<1>6. \A i : PaymentDays(i)' = PaymentDays(i)
  BY <1>1, <1>2 DEF PaymentDays
<1>7. \A symbol, day : TakenFrom(symbol, day)' = TakenFrom(symbol, day)
  BY <1>1, <1>2, <1>6 DEF TakenFrom
<1>8. \A i : CountedOn(i)' = CountedOn(i)
  <2> SUFFICES ASSUME NEW i PROVE CountedOn(i)' = CountedOn(i)
    OBVIOUS
  <2>1. PaymentDays(i)' = PaymentDays(i)
    BY <1>6
  <2> QED
    BY <1>1, <2>1 DEF CountedOn
<1>9. \A y, symbol, currency : CountedIn(y, symbol, currency)' = CountedIn(y, symbol, currency)
  BY <1>1, <1>2, <1>8 DEF CountedIn
<1>10. \A symbol : NotMixed(symbol)' <=> NotMixed(symbol)
  BY <1>1, <1>2 DEF NotMixed
<1>11. \A y : /\ PaidIn(y)' = PaidIn(y) /\ FundsIn(y)' = FundsIn(y)
              /\ EarnedIn(y)' = EarnedIn(y) /\ SterlingIn(y)' = SterlingIn(y)
              /\ TaxedIn(y)' = TaxedIn(y)
  BY <1>1, <1>2 DEF PaidIn, FundsIn, EarnedIn, SterlingIn, TaxedIn
<1>12. \A S : CurrenciesIn(S)' = CurrenciesIn(S)
  BY <1>1 DEF CurrenciesIn
<1>13. \A e : ReliefWithin(e)' <=> ReliefWithin(e)
  <2> SUFFICES ASSUME NEW e PROVE ReliefWithin(e)' <=> ReliefWithin(e)
    OBVIOUS
  <2>1. \A symbol, day : PaidOn(symbol, day)' = PaidOn(symbol, day)
    BY <1>1, <1>2 DEF PaidOn
  <2>2. /\ CurrenciesIn(PaidOn(e.symbol, e.day))' = CurrenciesIn(PaidOn(e.symbol, e.day))
        /\ CurrenciesIn(PaidOn(e.symbol, e.day) \cup TakenFrom(e.symbol, e.day))'
             = CurrenciesIn(PaidOn(e.symbol, e.day) \cup TakenFrom(e.symbol, e.day))
    BY <1>7, <1>12, <2>1
  <2> QED
    BY <2>2 DEF ReliefWithin
<1>14. \A y, r : ReportSound(y, r)' <=> ReportSound(y, r)
  <2> SUFFICES ASSUME NEW y, NEW r PROVE ReportSound(y, r)' <=> ReportSound(y, r)
    OBVIOUS
  <2>1. \A entries : EntriesSound(y, entries)' <=> EntriesSound(y, entries)
    BY <1>1, <1>3, <1>7, <1>11, <1>13 DEF EntriesSound
  <2> QED
    BY <1>1, <1>2, <1>3, <1>5, <1>11, <2>1 DEF ReportSound
<1>15. \A y, r : SummarySound(y, r)' <=> SummarySound(y, r)
  <2> SUFFICES ASSUME NEW y, NEW r PROVE SummarySound(y, r)' <=> SummarySound(y, r)
    OBVIOUS
  <2> QED
    BY <1>2, <1>9, <1>10 DEF SummarySound, Stated
<1>16. \A y, r : Told(y, r)' <=> Told(y, r)
  <2> SUFFICES ASSUME NEW y, NEW r PROVE Told(y, r)' <=> Told(y, r)
    OBVIOUS
  <2>1. \A key : Under(TaxRows, TaxKeys, key)' = Under(TaxRows, TaxKeys, key)
    BY <1>2 DEF Under
  <2> QED
    BY <1>1, <1>2, <1>6, <2>1 DEF Told
<1>17. \A r : TaxSound(r)' <=> TaxSound(r)
  <2> SUFFICES ASSUME NEW r PROVE TaxSound(r)' <=> TaxSound(r)
    OBVIOUS
  <2> QED
    BY <1>3, <1>7, <1>12 DEF TaxSound, Sterling, Priced, Whole
<1> QED
  BY <1>14, <1>15, <1>16, <1>17

LEMMA ResultsStand ==
  ASSUME Results, account' = account, UNCHANGED <<reports, summary, warned>>
  PROVE  Results'
<1> SUFFICES ASSUME NEW y \in Years
             PROVE  /\ reports'[y] # NoValue => ReportSound(y, reports[y])'
                    /\ summary'[y] # NoValue =>
                          SummarySound(y, summary[y])' /\ Told(y, warned[y])'
  BY DEF Results, Years
<1>1. /\ reports'[y] # NoValue => ReportSound(y, reports'[y])
      /\ summary'[y] # NoValue => SummarySound(y, summary'[y]) /\ Told(y, warned'[y])
  BY DEF Results
<1> QED
  BY <1>1, ResultsKept

LEMMA IncomeInitial ==
  ASSUME IncomeInit
  PROVE  IncomeInv
<1>1. account \in Accounts /\ RowsSound
  BY AccountRows DEF IncomeInit
<1>2. Stages
  BY <1>1, IncomeAssumption DEF IncomeInit, Stages, ReadSoFar, EmptyRun, RowsSound, Years
<1>3. Calculated
  BY DEF IncomeInit, Calculated
<1>4. Results
  BY DEF IncomeInit, Results
<1> QED
  BY <1>2, <1>3, <1>4 DEF IncomeInv

LEMMA NothingRead ==
  ASSUME RowsSound
  PROVE  Recorded(EmptyHistory, {})
<1>1. \A kind : OfKind({}, kind) = {}
  BY DEF OfKind
<1>2. DOMAIN <<>> = {}
  OBVIOUS
<1>3. PaymentsSummed(<<>>, {})
  BY <1>2 DEF PaymentsSummed
<1>4. Summed(<<>>, {}, TaxKeys) /\ Summed(<<>>, {}, InterestKeys)
  BY EmptyLog
<1>5. PaymentDates({}) = {}
  BY DEF PaymentDates
<1> QED
  BY <1>1, <1>3, <1>4, <1>5 DEF Recorded, EmptyHistory

LEMMA BeginKeeps ==
  ASSUME IncomeInv, BeginFirstPass
  PROVE  IncomeInv'
<1>1. Stages /\ Results /\ account' = account
  BY DEF IncomeInv, BeginFirstPass
<1>2. RowsSound
  BY <1>1, AccountRows DEF Stages
<1>3. history = EmptyHistory /\ ~run.ingested /\ pending = NoValue
  BY <1>1 DEF BeginFirstPass, Stages
<1>4. rows' = rows
  BY <1>1 DEF rows
<1>5. ReadSoFar'
  <2>1. 1 .. (next' - 1) = {}
    BY DEF BeginFirstPass
  <2>2. Recorded(history', 1 .. (next' - 1))
    BY <1>2, <1>3, <2>1, NothingRead DEF BeginFirstPass
  <2>3. Recorded(history, 1 .. (next - 1))'
    BY <1>1, <2>2, RecordedKept
  <2> QED
    BY <2>3 DEF ReadSoFar
<1>6. /\ run' = [ingestion_started |-> run'.ingestion_started, ingested |-> run'.ingested,
                 total_uk_interest |-> run'.total_uk_interest,
                 total_foreign_interest |-> run'.total_foreign_interest,
                 total_interest_tax |-> run'.total_interest_tax,
                 calculation_log_yields |-> run'.calculation_log_yields]
      /\ run'.ingestion_started = TRUE /\ run'.ingested = FALSE
  <2>1. run' = [ingestion_started |-> TRUE, ingested |-> run.ingested,
                total_uk_interest |-> run.total_uk_interest,
                total_foreign_interest |-> run.total_foreign_interest,
                total_interest_tax |-> run.total_interest_tax,
                calculation_log_yields |-> run.calculation_log_yields]
    BY <1>1 DEF BeginFirstPass, Stages
  <2> QED
    BY <1>1, <1>3, <2>1 DEF Stages
<1>7. Stages'
  <2>1. next' = 1 /\ 1 <= Len(rows) + 1 /\ UNCHANGED <<year, history, pending>>
    BY <1>2 DEF BeginFirstPass, RowsSound
  <2> QED
    BY <1>1, <1>3, <1>4, <1>5, <1>6, <2>1 DEF Stages
<1>8. Calculated'
  BY <1>3 DEF Calculated, BeginFirstPass
<1>9. Results'
  BY <1>1, ResultsStand DEF BeginFirstPass
<1> QED
  BY <1>7, <1>8, <1>9 DEF IncomeInv

LEMMA ReadingKeeps ==
  ASSUME IncomeInv, next \in DOMAIN rows, NEW h, RecordedAs(h),
         RowsSound /\ Recorded(history, 1 .. (next - 1)) => Recorded(h, 1 .. next)
  PROVE  IncomeInv'
<1>1. Stages /\ Results /\ account' = account
  BY DEF IncomeInv, RecordedAs
<1>2. RowsSound
  BY <1>1, AccountRows DEF Stages
<1>3. next \in Nat /\ next # 0 /\ next <= Len(rows) /\ next' = next + 1 /\ history' = h
  BY <1>2 DEF RowsSound, RecordedAs
<1>4. run.ingestion_started /\ ~run.ingested /\ pending = NoValue
  BY <1>1, <1>2, <1>3 DEF Stages, RowsSound
<1>5. rows' = rows
  BY <1>1 DEF rows
<1>6. ReadSoFar'
  <2>1. Recorded(history, 1 .. (next - 1))
    BY <1>1, <1>3 DEF Stages, ReadSoFar
  <2>2. 1 .. (next' - 1) = 1 .. next
    BY <1>3
  <2>3. Recorded(history', 1 .. (next' - 1))
    BY <1>2, <1>3, <2>1, <2>2
  <2>4. Recorded(history, 1 .. (next - 1))'
    BY <1>1, <2>3, RecordedKept
  <2> QED
    BY <2>4 DEF ReadSoFar
<1>7. Stages'
  <2>1. next' \in Nat /\ next' <= Len(rows) + 1 /\ UNCHANGED <<year, run, pending>>
    BY <1>2, <1>3 DEF RecordedAs, RowsSound
  <2> QED
    BY <1>1, <1>4, <1>5, <1>6, <2>1 DEF Stages
<1>8. Calculated'
  BY <1>4 DEF Calculated, RecordedAs
<1>9. Results'
  BY <1>1, ResultsStand DEF RecordedAs
<1> QED
  BY <1>7, <1>8, <1>9 DEF IncomeInv

\* One more row read.
LEMMA OneMore ==
  ASSUME RowsSound, next \in DOMAIN rows
  PROVE  /\ OfKind(1 .. next, rows[next].kind)
              = OfKind(1 .. (next - 1), rows[next].kind) \cup {next}
         /\ \A kind : kind # rows[next].kind =>
               OfKind(1 .. next, kind) = OfKind(1 .. (next - 1), kind)
         /\ \A kind : /\ OfKind(1 .. (next - 1), kind) \in SUBSET DOMAIN rows
                      /\ next \notin OfKind(1 .. (next - 1), kind)
<1>1. next \in Nat /\ next # 0 /\ next <= Len(rows) /\ DOMAIN rows = 1 .. Len(rows)
      /\ Len(rows) \in Nat
  BY DEF RowsSound
<1>2. 1 .. next = (1 .. (next - 1)) \cup {next} /\ next \notin 1 .. (next - 1)
  BY <1>1
<1>3. 1 .. (next - 1) \in SUBSET DOMAIN rows
  BY <1>1
<1> QED
  BY <1>2, <1>3 DEF OfKind

\* Two fields of the history replaced.
LEMMA PaymentsReplaced ==
  ASSUME NEW h, NEW list, NEW dates,
         h = [dividend_list |-> h.dividend_list, dividend_dates |-> h.dividend_dates,
              dividend_tax_list |-> h.dividend_tax_list, interest_list |-> h.interest_list,
              interest_tax_list |-> h.interest_tax_list]
  PROVE  [h EXCEPT !.dividend_list = list, !.dividend_dates = dates]
           = [dividend_list |-> list, dividend_dates |-> dates,
              dividend_tax_list |-> h.dividend_tax_list, interest_list |-> h.interest_list,
              interest_tax_list |-> h.interest_tax_list]
<1>1. DOMAIN h = {"dividend_list", "dividend_dates", "dividend_tax_list", "interest_list",
                  "interest_tax_list"}
  OBVIOUS
<1>2. [h EXCEPT !.dividend_list = list, !.dividend_dates = dates]
        = [f \in DOMAIN h |-> IF f = "dividend_dates" THEN dates
                              ELSE IF f = "dividend_list" THEN list ELSE h[f]]
  OBVIOUS
<1> QED
  BY <1>1, <1>2

LEMMA RecordDividendKeeps ==
  ASSUME IncomeInv, RecordDividend
  PROVE  IncomeInv'
<1> DEFINE r == rows[next]
           S == OfKind(1 .. (next - 1), "dividend")
           list == Put(history.dividend_list, DividendKey(r),
                       Combined(PaidBefore(r), RowMoney(r), r.day))
           dates == history.dividend_dates
                      \cup {[broker |-> r.broker, symbol |-> r.symbol, day |-> r.day]}
           h == [history EXCEPT !.dividend_list = list, !.dividend_dates = dates]
<1>1. /\ next \in DOMAIN rows /\ r.kind = "dividend"
      /\ Combinable(PaidBefore(r), RowMoney(r)) /\ RecordedAs(h)
  BY DEF RecordDividend, Reading
<1>2. ASSUME RowsSound, Recorded(history, 1 .. (next - 1))
      PROVE  Recorded(h, 1 .. next)
  <2>1. /\ OfKind(1 .. next, "dividend") = S \cup {next}
        /\ S \in SUBSET DOMAIN rows /\ next \notin S
        /\ \A kind \in {"dividend_tax", "interest", "interest_tax", "refused"} :
              OfKind(1 .. next, kind) = OfKind(1 .. (next - 1), kind)
    BY <1>1, <1>2, OneMore
  <2>2. h = [dividend_list |-> list, dividend_dates |-> dates,
             dividend_tax_list |-> history.dividend_tax_list,
             interest_list |-> history.interest_list,
             interest_tax_list |-> history.interest_tax_list]
    <3>1. history = [dividend_list |-> history.dividend_list,
                     dividend_dates |-> history.dividend_dates,
                     dividend_tax_list |-> history.dividend_tax_list,
                     interest_list |-> history.interest_list,
                     interest_tax_list |-> history.interest_tax_list]
      BY <1>2 DEF Recorded
    <3> HIDE DEF list, dates
    <3> QED
      BY <3>1, PaymentsReplaced
  <2>3. /\ DividendKey(r) = PaymentKey[next]
        /\ PaidBefore(r) = At(history.dividend_list, PaymentKey[next])
    BY <1>1 DEF PaymentKey, PaidBefore
  <2>4. PaymentsSummed(list, S \cup {next})
    <3>1. PaymentsSummed(history.dividend_list, S)
      BY <1>2 DEF Recorded
    <3>2. next \in DOMAIN rows \ S
      BY <1>1, <2>1
    <3> HIDE DEF S
    <3> QED
      BY <1>1, <1>2, <2>1, <2>3, <3>1, <3>2, PaymentsGrow
  <2>5. dates = PaymentDates(S \cup {next})
    BY <1>2 DEF Recorded, PaymentDates
  <2> HIDE DEF list, dates, S
  <2> QED
    BY <1>2, <2>1, <2>2, <2>4, <2>5 DEF Recorded
<1> HIDE DEF h
<1> QED
  BY <1>1, <1>2, ReadingKeeps

LEMMA RecordDividendTaxKeeps ==
  ASSUME IncomeInv, RecordDividendTax
  PROVE  IncomeInv'
<1> DEFINE r == rows[next]
           S == OfKind(1 .. (next - 1), "dividend_tax")
           list == Add(history.dividend_tax_list, TaxKey(r), RowMoney(r))
           h == [history EXCEPT !.dividend_tax_list = list]
<1>1. next \in DOMAIN rows /\ r.kind = "dividend_tax" /\ RecordedAs(h)
  BY DEF RecordDividendTax, Reading
<1>2. ASSUME RowsSound, Recorded(history, 1 .. (next - 1))
      PROVE  Recorded(h, 1 .. next)
  <2>1. /\ OfKind(1 .. next, "dividend_tax") = S \cup {next}
        /\ S \in SUBSET DOMAIN rows /\ next \notin S
        /\ \A kind \in {"dividend", "interest", "interest_tax", "refused"} :
              OfKind(1 .. next, kind) = OfKind(1 .. (next - 1), kind)
    BY <1>1, <1>2, OneMore
  <2>2. h = [dividend_list |-> history.dividend_list,
             dividend_dates |-> history.dividend_dates, dividend_tax_list |-> list,
             interest_list |-> history.interest_list,
             interest_tax_list |-> history.interest_tax_list]
    BY <1>2 DEF Recorded
  <2>3. TaxKey(r) = TaxKeys[next] /\ \A j \in DOMAIN rows : TaxKeys[j].currency = rows[j].currency
    BY <1>1 DEF TaxKeys, TaxKey
  <2>4. Summed(list, S \cup {next}, TaxKeys)
    <3>1. Summed(history.dividend_tax_list, S, TaxKeys)
      BY <1>2 DEF Recorded
    <3>2. next \in DOMAIN rows \ S
      BY <1>1, <2>1
    <3> HIDE DEF S
    <3> QED
      BY <1>2, <2>1, <2>3, <3>1, <3>2, LogGrows
  <2> HIDE DEF list, S
  <2> QED
    BY <1>2, <2>1, <2>2, <2>4 DEF Recorded
<1> HIDE DEF h
<1> QED
  BY <1>1, <1>2, ReadingKeeps

LEMMA RecordInterestKeeps ==
  ASSUME IncomeInv, RecordInterest
  PROVE  IncomeInv'
<1> DEFINE r == rows[next]
           S(kind) == OfKind(1 .. (next - 1), kind)
           earned == Add(history.interest_list, InterestKey(r), RowMoney(r))
           taxed == Add(history.interest_tax_list, InterestKey(r), RowMoney(r))
           h == [history EXCEPT !.interest_list = earned]
           g == [history EXCEPT !.interest_tax_list = taxed]
<1>1. next \in DOMAIN rows /\ r.kind \in {"interest", "interest_tax"}
      /\ RecordedAs(IF r.kind = "interest" THEN h ELSE g)
  BY DEF RecordInterest, Reading
<1>2. ASSUME RowsSound
      PROVE  /\ InterestKey(r) = InterestKeys[next]
             /\ \A j \in DOMAIN rows : InterestKeys[j].currency = rows[j].currency
  BY <1>1 DEF InterestKeys, InterestKey
<1>3. ASSUME RowsSound, Recorded(history, 1 .. (next - 1)), r.kind = "interest"
      PROVE  Recorded(h, 1 .. next)
  <2>1. /\ OfKind(1 .. next, "interest") = S("interest") \cup {next}
        /\ S("interest") \in SUBSET DOMAIN rows /\ next \notin S("interest")
        /\ \A kind \in {"dividend", "dividend_tax", "interest_tax", "refused"} :
              OfKind(1 .. next, kind) = OfKind(1 .. (next - 1), kind)
    BY <1>1, <1>3, OneMore
  <2>2. h = [dividend_list |-> history.dividend_list,
             dividend_dates |-> history.dividend_dates,
             dividend_tax_list |-> history.dividend_tax_list, interest_list |-> earned,
             interest_tax_list |-> history.interest_tax_list]
    BY <1>3 DEF Recorded
  <2>3. Summed(earned, S("interest") \cup {next}, InterestKeys)
    <3>1. Summed(history.interest_list, S("interest"), InterestKeys)
      BY <1>3 DEF Recorded
    <3>2. next \in DOMAIN rows \ S("interest")
      BY <1>1, <2>1
    <3> HIDE DEF S
    <3> QED
      BY <1>2, <1>3, <2>1, <3>1, <3>2, LogGrows
  <2> HIDE DEF earned, S
  <2> QED
    BY <1>3, <2>1, <2>2, <2>3 DEF Recorded
<1>4. ASSUME RowsSound, Recorded(history, 1 .. (next - 1)), r.kind = "interest_tax"
      PROVE  Recorded(g, 1 .. next)
  <2>1. /\ OfKind(1 .. next, "interest_tax") = S("interest_tax") \cup {next}
        /\ S("interest_tax") \in SUBSET DOMAIN rows /\ next \notin S("interest_tax")
        /\ \A kind \in {"dividend", "dividend_tax", "interest", "refused"} :
              OfKind(1 .. next, kind) = OfKind(1 .. (next - 1), kind)
    BY <1>1, <1>4, OneMore
  <2>2. g = [dividend_list |-> history.dividend_list,
             dividend_dates |-> history.dividend_dates,
             dividend_tax_list |-> history.dividend_tax_list,
             interest_list |-> history.interest_list, interest_tax_list |-> taxed]
    BY <1>4 DEF Recorded
  <2>3. Summed(taxed, S("interest_tax") \cup {next}, InterestKeys)
    <3>1. Summed(history.interest_tax_list, S("interest_tax"), InterestKeys)
      BY <1>4 DEF Recorded
    <3>2. next \in DOMAIN rows \ S("interest_tax")
      BY <1>1, <2>1
    <3> HIDE DEF S
    <3> QED
      BY <1>2, <1>4, <2>1, <3>1, <3>2, LogGrows
  <2> HIDE DEF taxed, S
  <2> QED
    BY <1>4, <2>1, <2>2, <2>3 DEF Recorded
<1>5. RowsSound /\ Recorded(history, 1 .. (next - 1))
        => Recorded(IF r.kind = "interest" THEN h ELSE g, 1 .. next)
  BY <1>1, <1>3, <1>4
<1> DEFINE after == IF r.kind = "interest" THEN h ELSE g
<1> HIDE DEF h, g
<1>6. /\ RecordedAs(after)
      /\ RowsSound /\ Recorded(history, 1 .. (next - 1)) => Recorded(after, 1 .. next)
  BY <1>1, <1>5
<1> HIDE DEF after
<1> QED
  BY <1>1, <1>6, ReadingKeeps

LEMMA RecordOtherKeeps ==
  ASSUME IncomeInv, RecordOther
  PROVE  IncomeInv'
<1>1. next \in DOMAIN rows /\ rows[next].kind = "other" /\ RecordedAs(history)
  BY DEF RecordOther, Reading
<1>2. ASSUME RowsSound, Recorded(history, 1 .. (next - 1))
      PROVE  Recorded(history, 1 .. next)
  <2>1. \A kind \in {"dividend", "dividend_tax", "interest", "interest_tax", "refused"} :
           OfKind(1 .. next, kind) = OfKind(1 .. (next - 1), kind)
    BY <1>1, <1>2, OneMore
  <2> QED
    BY <1>2, <2>1 DEF Recorded
<1> QED
  BY <1>1, <1>2, ReadingKeeps

\* What the second half of the class starts from: the whole account was read.
LEMMA AllRead ==
  ASSUME Stages, next = Len(rows) + 1
  PROVE  RowsSound /\ Recorded(history, DOMAIN rows)
<1>1. RowsSound
  BY AccountRows DEF Stages
<1>2. Len(rows) \in Nat /\ DOMAIN rows = 1 .. Len(rows)
  BY <1>1 DEF RowsSound
<1>3. next # 0 /\ 1 .. (next - 1) = DOMAIN rows
  BY <1>2
<1> QED
  BY <1>1, <1>3 DEF Stages, ReadSoFar

LEMMA FinishFirstPassKeeps ==
  ASSUME IncomeInv, FinishFirstPass
  PROVE  IncomeInv'
<1>1. /\ Stages /\ Results
      /\ UNCHANGED <<account, year, next, history, pending, reports>>
      /\ next = Len(rows) + 1 /\ ~run.ingested
      /\ Attributable(Matched) /\ Attributable(Withheld \ Matched)
      /\ attribution' = AttributionOf
      /\ warned' = [warned EXCEPT ![year] = LeftOut]
      /\ summary' = [summary EXCEPT ![year] = TaxOfTheYear(AttributionOf)]
      /\ run' = [run EXCEPT !.ingested = TRUE]
  BY DEF IncomeInv, FinishFirstPass
<1>2. RowsSound /\ Recorded(history, DOMAIN rows)
  BY <1>1, AllRead
<1>3. rows' = rows /\ pending = NoValue /\ year \in Years
  BY <1>1 DEF rows, Stages
<1>4. next # 0
  BY <1>1, <1>2 DEF RowsSound
<1>5. TaxSound(attribution.matched)'
  <2>1. attribution'.matched = SumOn(Matched)
    BY <1>1 DEF AttributionOf
  <2>2. TaxSound(attribution'.matched)
    BY <1>1, <1>2, <2>1, MatchedSound
  <2> QED
    BY <1>1, <2>2, ResultsKept
<1>6. ReadSoFar'
  <2>1. Recorded(history', 1 .. (next' - 1))
    BY <1>1, <1>4 DEF Stages, ReadSoFar
  <2>2. Recorded(history, 1 .. (next - 1))'
    BY <1>1, <2>1, RecordedKept
  <2> QED
    BY <2>2 DEF ReadSoFar
<1>7. /\ run' = [ingestion_started |-> run'.ingestion_started, ingested |-> run'.ingested,
                 total_uk_interest |-> run'.total_uk_interest,
                 total_foreign_interest |-> run'.total_foreign_interest,
                 total_interest_tax |-> run'.total_interest_tax,
                 calculation_log_yields |-> run'.calculation_log_yields]
      /\ run'.ingestion_started = TRUE /\ run'.ingested = TRUE
  <2>1. run' = [ingestion_started |-> run.ingestion_started, ingested |-> TRUE,
                total_uk_interest |-> run.total_uk_interest,
                total_foreign_interest |-> run.total_foreign_interest,
                total_interest_tax |-> run.total_interest_tax,
                calculation_log_yields |-> run.calculation_log_yields]
    BY <1>1 DEF Stages
  <2>2. run.ingestion_started = TRUE
    BY <1>1, <1>4 DEF Stages
  <2> QED
    BY <2>1, <2>2
<1>8. Stages'
  BY <1>1, <1>3, <1>4, <1>5, <1>6, <1>7 DEF Stages
<1>9. Calculated'
  BY <1>1, <1>3 DEF Calculated
<1>10. Results'
  <2>1. SummarySound(year, TaxOfTheYear(AttributionOf)) /\ Told(year, LeftOut)
    BY <1>1, <1>2, SummaryIs, LeftOutTold
  <2>2. /\ summary' = [y \in Years |-> summary'[y]] /\ warned' = [y \in Years |-> warned'[y]]
        /\ summary'[year] = TaxOfTheYear(AttributionOf) /\ warned'[year] = LeftOut
        /\ \A y \in Years \ {year} : summary'[y] = summary[y] /\ warned'[y] = warned[y]
    <3>1. summary = [y \in Years |-> summary[y]] /\ warned = [y \in Years |-> warned[y]]
      BY <1>1 DEF Results
    <3> QED
      BY <1>1, <1>3, <3>1
  <2>3. ASSUME NEW y \in Years
        PROVE  /\ reports'[y] # NoValue => ReportSound(y, reports'[y])
               /\ summary'[y] # NoValue => SummarySound(y, summary'[y]) /\ Told(y, warned'[y])
    BY <1>1, <2>1, <2>2 DEF Results
  <2>4. \A y \in Years :
          /\ reports'[y] # NoValue => ReportSound(y, reports[y])'
          /\ summary'[y] # NoValue => SummarySound(y, summary[y])' /\ Told(y, warned[y])'
    BY <1>1, <2>3, ResultsKept
  <2>5. reports' = [y \in Years |-> reports'[y]]
    BY <1>1 DEF Results
  <2> QED
    BY <2>2, <2>4, <2>5 DEF Results, Years
<1> QED
  BY <1>8, <1>9, <1>10 DEF IncomeInv

LEMMA FirstPassStopsKeeps ==
  ASSUME IncomeInv, FirstPassStops
  PROVE  IncomeInv'
<1>1. /\ Stages /\ Results /\ next' = 0
      /\ UNCHANGED <<account, year, history, attribution, run, pending, warned, summary, reports>>
      /\ RowStops \/ AttributionStops
  BY DEF IncomeInv, FirstPassStops
<1>2. RowsSound
  BY <1>1, AccountRows DEF Stages
<1>3. ~run.ingested /\ run.ingestion_started /\ pending = NoValue
  <2>1. CASE RowStops
    <3>1. next \in 1 .. Len(rows) /\ Len(rows) \in Nat
      BY <1>2, <2>1 DEF RowStops, RowsSound
    <3> QED
      BY <1>1, <3>1 DEF Stages
  <2>2. CASE AttributionStops
    <3>1. ~run.ingested /\ next = Len(rows) + 1 /\ Len(rows) \in Nat
      BY <1>2, <2>2 DEF AttributionStops, RowsSound
    <3> QED
      BY <1>1, <3>1 DEF Stages
  <2> QED
    BY <1>1, <2>1, <2>2
<1>4. rows' = rows
  BY <1>1 DEF rows
<1>5. ReadSoFar'
  BY <1>1 DEF ReadSoFar
<1>6. Stages'
  <2>1. 0 \in Nat /\ 0 <= Len(rows) + 1
    BY <1>2 DEF RowsSound
  <2> QED
    BY <1>1, <1>3, <1>4, <1>5, <2>1 DEF Stages
<1>7. Calculated'
  BY <1>1, <1>3 DEF Calculated
<1>8. Results'
  BY <1>1, ResultsStand
<1> QED
  BY <1>6, <1>7, <1>8 DEF IncomeInv

-----------------------------------------------------------------------------
(* The calculation: what is left to process, and what has been.            *)

\* What an entry says rests on the rows, the history and the attribution.
LEMMA EntriesKept ==
  ASSUME UNCHANGED <<account, year, history, attribution>>
  PROVE  /\ \A key : DividendEntry(key)' = DividendEntry(key)
         /\ \A keys : EntriesOf(keys)' = EntriesOf(keys)
         /\ \A keys : RowsUnder(keys)' = RowsUnder(keys)
         /\ \A keys : FundsAmong(keys)' = FundsAmong(keys)
         /\ OwnPounds' = OwnPounds /\ PaidRows' = PaidRows
         /\ \A day : InTaxYear(day)' <=> InTaxYear(day)
         /\ \A R, kind : OfKind(R, kind)' = OfKind(R, kind)
         /\ \A key : CurrenciesMatch(key)' <=> CurrenciesMatch(key)
<1>1. rows' = rows /\ autoconvert' = autoconvert
  BY DEF rows, autoconvert
<1>2. \A key : TaxOn(key)' = TaxOn(key)
  BY DEF TaxOn
<1>3. \A key : TaxCurrency(key)' = TaxCurrency(key)
  <2> SUFFICES ASSUME NEW key PROVE TaxCurrency(key)' = TaxCurrency(key)
    OBVIOUS
  <2>1. TaxOn(key)' = TaxOn(key)
    BY <1>2
  <2> QED
    BY <2>1 DEF TaxCurrency
<1>4. \A key : DividendEntry(key)' = DividendEntry(key)
  <2> SUFFICES ASSUME NEW key PROVE DividendEntry(key)' = DividendEntry(key)
    OBVIOUS
  <2>1. TaxOn(key)' = TaxOn(key) /\ TaxCurrency(key)' = TaxCurrency(key)
    BY <1>2, <1>3
  <2>2. UnderTreaty(key)' <=> UnderTreaty(key)
    BY <2>1 DEF UnderTreaty, TreatyFor, approx_equal
  <2>3. TreatyFor(key)' = TreatyFor(key)
    BY DEF TreatyFor
  <2> QED
    BY <2>1, <2>2, <2>3 DEF DividendEntry
<1>5. \A R, kind : OfKind(R, kind)' = OfKind(R, kind)
  BY <1>1 DEF OfKind
<1>6. PaidRows' = PaidRows /\ PaymentKey' = PaymentKey
  BY <1>1 DEF PaidRows, PaymentKey, OfKind
<1>7. OwnPounds' = OwnPounds
  BY <1>1 DEF OwnPounds, Pounds
<1>8. \A keys : RowsUnder(keys)' = RowsUnder(keys)
  BY <1>6 DEF RowsUnder
<1>9. \A key : CurrenciesMatch(key)' <=> CurrenciesMatch(key)
  <2> SUFFICES ASSUME NEW key PROVE CurrenciesMatch(key)' <=> CurrenciesMatch(key)
    OBVIOUS
  <2>1. TaxOn(key)' = TaxOn(key) /\ TaxCurrency(key)' = TaxCurrency(key)
    BY <1>2, <1>3
  <2> QED
    BY <1>1, <2>1 DEF CurrenciesMatch
<1> QED
  BY <1>4, <1>5, <1>6, <1>7, <1>8, <1>9 DEF EntriesOf, FundsAmong, InTaxYear

\* The fields of a run.
WholeRun(r) ==
  r = [ingestion_started |-> r.ingestion_started, ingested |-> r.ingested,
       total_uk_interest |-> r.total_uk_interest,
       total_foreign_interest |-> r.total_foreign_interest,
       total_interest_tax |-> r.total_interest_tax,
       calculation_log_yields |-> r.calculation_log_yields]

RunOf(r, uk, foreign, tax, yields) ==
  [ingestion_started |-> r.ingestion_started, ingested |-> r.ingested,
   total_uk_interest |-> uk, total_foreign_interest |-> foreign,
   total_interest_tax |-> tax, calculation_log_yields |-> yields]

LEMMA RunFields ==
  ASSUME NEW r, NEW uk, NEW foreign, NEW tax, NEW yields
  PROVE  LET s == RunOf(r, uk, foreign, tax, yields) IN
         /\ WholeRun(s)
         /\ s.ingestion_started = r.ingestion_started /\ s.ingested = r.ingested
         /\ s.total_uk_interest = uk /\ s.total_foreign_interest = foreign
         /\ s.total_interest_tax = tax /\ s.calculation_log_yields = yields
  BY DEF RunOf, WholeRun

LEMMA InterestsCounted ==
  ASSUME NEW r, WholeRun(r), NEW monthly, NEW taxes
  PROVE  LET uk == {g \in monthly : g.key.currency = UK_CURRENCY} IN
         WithInterests(r, monthly, taxes)
           = RunOf(r, r.total_uk_interest + InPounds(uk),
                   r.total_foreign_interest + InPounds(monthly \ uk),
                   r.total_interest_tax - InPounds(taxes), r.calculation_log_yields)
<1> DEFINE uk == {g \in monthly : g.key.currency = UK_CURRENCY}
           a == r.total_uk_interest + InPounds(uk)
           b == r.total_foreign_interest + InPounds(monthly \ uk)
           c == r.total_interest_tax - InPounds(taxes)
<1>1. DOMAIN r = {"ingestion_started", "ingested", "total_uk_interest",
                  "total_foreign_interest", "total_interest_tax", "calculation_log_yields"}
  BY DEF WholeRun
<1>2. WithInterests(r, monthly, taxes)
        = [r EXCEPT !.total_uk_interest = a, !.total_foreign_interest = b,
                    !.total_interest_tax = c]
  BY DEF WithInterests
<1> HIDE DEF a, b, c
<1>3. [r EXCEPT !.total_uk_interest = a, !.total_foreign_interest = b,
                !.total_interest_tax = c]
        = [f \in DOMAIN r |-> IF f = "total_interest_tax" THEN c
                              ELSE IF f = "total_foreign_interest" THEN b
                              ELSE IF f = "total_uk_interest" THEN a ELSE r[f]]
  OBVIOUS
<1>4. WithInterests(r, monthly, taxes) = RunOf(r, a, b, c, r.calculation_log_yields)
  BY <1>1, <1>2, <1>3 DEF RunOf
<1> QED
  BY <1>4 DEF a, b, c

\* A step of the calculation leaves the first pass as it was.
LEMMA CalculationStages ==
  ASSUME Stages, run.ingested = TRUE,
         UNCHANGED <<account, year, next, history, attribution>>,
         NEW uk, NEW foreign, NEW tax, NEW yields,
         run' = RunOf(run, uk, foreign, tax, yields),
         pending' # NoValue => pending' \in SUBSET DOMAIN history.dividend_list
  PROVE  Stages'
<1>1. rows' = rows
  BY DEF rows
<1>2. /\ run'.ingestion_started = run.ingestion_started /\ run'.ingested = run.ingested
      /\ WholeRun(run')
  <2> DEFINE s == RunOf(run, uk, foreign, tax, yields)
  <2>1. s.ingestion_started = run.ingestion_started /\ s.ingested = run.ingested /\ WholeRun(s)
    BY RunFields
  <2>2. run' = s
    OBVIOUS
  <2> HIDE DEF s
  <2> QED
    BY <2>1, <2>2
<1>3. run.ingestion_started \in BOOLEAN /\ run.ingested \in BOOLEAN
  BY DEF Stages
<1>4. ReadSoFar'
  <2>1. next' # 0 => Recorded(history', 1 .. (next' - 1))
    BY DEF Stages, ReadSoFar
  <2>2. next' # 0 => Recorded(history, 1 .. (next - 1))'
    BY <2>1, RecordedKept
  <2> QED
    BY <2>2 DEF ReadSoFar
<1>5. TaxSound(attribution.matched)'
  <2>1. TaxSound(attribution'.matched)
    BY DEF Stages
  <2> QED
    BY <2>1, ResultsKept
<1>6. /\ account' \in Accounts /\ year' \in Years /\ next' \in Nat
      /\ next' <= Len(rows') + 1 /\ next' = Len(rows') + 1
  BY <1>1 DEF Stages
<1>7. run.ingestion_started
  BY DEF Stages
<1> QED
  BY <1>1, <1>2, <1>3, <1>4, <1>5, <1>6, <1>7 DEF Stages, Years, WholeRun

LEMMA CalculateKeeps ==
  ASSUME IncomeInv, CalculateCapitalGain
  PROVE  IncomeInv'
<1>1. /\ Stages /\ Results /\ run.ingested = TRUE
      /\ run' = Reset(run) /\ pending' = DOMAIN history.dividend_list
      /\ UNCHANGED <<account, year, next, history, attribution, warned, summary, reports>>
  BY DEF IncomeInv, CalculateCapitalGain, Stages
<1>2. run' = RunOf(run, 0, 0, 0, {})
  <2> DEFINE E == EmptyRun
  <2>1. DOMAIN E = {"ingestion_started", "ingested", "total_uk_interest",
                    "total_foreign_interest", "total_interest_tax", "calculation_log_yields"}
    BY DEF EmptyRun
  <2>2. Reset(run) = [f \in DOMAIN E |-> IF f = "ingested" THEN run.ingested
                                         ELSE IF f = "ingestion_started" THEN run.ingestion_started
                                         ELSE E[f]]
    BY DEF Reset
  <2>3. /\ E["total_uk_interest"] = 0 /\ E["total_foreign_interest"] = 0
        /\ E["total_interest_tax"] = 0 /\ E["calculation_log_yields"] = {}
    BY DEF EmptyRun
  <2> HIDE DEF E
  <2> QED
    BY <1>1, <2>1, <2>2, <2>3 DEF RunOf
<1>3. Stages'
  BY <1>1, <1>2, CalculationStages
<1>4. Calculated'
  <2>1. Done' = {}
    BY <1>1 DEF Done
  <2>2. EntriesOf(Done)' = {} /\ FundsAmong(Done)' = {}
    BY <2>1 DEF EntriesOf, FundsAmong
  <2>3. RowsUnder(FundsAmong(Done))' = {}
    BY <2>2 DEF RowsUnder
  <2>4. SumFunctionOnSet(OwnPounds, RowsUnder(FundsAmong(Done)))' = 0
    BY <2>3, SumOfNone
  <2>5. (\A k \in Done : CurrenciesMatch(k))'
    BY <2>1
  <2> QED
    BY <1>2, <2>2, <2>4, <2>5, RunFields DEF Calculated
<1>5. Results'
  BY <1>1, ResultsStand
<1> QED
  BY <1>3, <1>4, <1>5 DEF IncomeInv

LEMMA CalculationStopsKeeps ==
  ASSUME IncomeInv, CalculationStops
  PROVE  IncomeInv'
<1>1. /\ Stages /\ Results /\ run.ingested = TRUE /\ pending' = NoValue /\ WholeRun(run)
      /\ UNCHANGED <<account, year, next, history, attribution, warned, summary, reports>>
      /\ DividendsStop \/ InterestStops
  BY DEF IncomeInv, CalculationStops, Stages, WholeRun
<1>2. \E uk, foreign, tax, yields : run' = RunOf(run, uk, foreign, tax, yields)
  <2>1. CASE DividendsStop
    <3>1. run' = RunOf(run, run.total_uk_interest, run.total_foreign_interest,
                       run.total_interest_tax, run.calculation_log_yields)
      BY <1>1, <2>1 DEF DividendsStop, RunOf, WholeRun
    <3> QED
      BY <3>1
  <2>2. CASE InterestStops
    <3>1. PICK monthly, taxes : run' = WithInterests(run, monthly, taxes)
      BY <2>2 DEF InterestStops
    <3> DEFINE uk == {g \in monthly : g.key.currency = UK_CURRENCY}
    <3>2. run' = RunOf(run, run.total_uk_interest + InPounds(uk),
                       run.total_foreign_interest + InPounds(monthly \ uk),
                       run.total_interest_tax - InPounds(taxes), run.calculation_log_yields)
      BY <1>1, <3>1, InterestsCounted
    <3> HIDE DEF uk
    <3> QED
      BY <3>2
  <2> QED
    BY <1>1, <2>1, <2>2
<1>3. Stages'
  BY <1>1, <1>2, CalculationStages
<1>4. Calculated'
  BY <1>1 DEF Calculated
<1>5. Results'
  BY <1>1, ResultsStand
<1> QED
  BY <1>3, <1>4, <1>5 DEF IncomeInv

LEMMA NextYearKeeps ==
  ASSUME IncomeInv, NextYear
  PROVE  IncomeInv'
<1>1. /\ Stages /\ Results /\ year < LastYear /\ pending = NoValue /\ year' = year + 1
      /\ next' = 0 /\ history' = EmptyHistory /\ run' = EmptyRun
      /\ UNCHANGED <<account, pending, warned, summary, reports>>
  BY DEF IncomeInv, NextYear
<1>2. year' \in Years'
  BY <1>1, IncomeAssumption DEF Stages, Years
<1>3. ReadSoFar'
  BY <1>1 DEF ReadSoFar
<1>4. 0 \in Nat /\ 0 <= Len(rows') + 1
  <2>1. rows' = rows
    BY <1>1 DEF rows
  <2>2. RowsSound
    BY <1>1, AccountRows DEF Stages
  <2> QED
    BY <2>1, <2>2 DEF RowsSound
<1>5. Stages'
  BY <1>1, <1>2, <1>3, <1>4 DEF Stages, EmptyRun
<1>6. Calculated'
  BY <1>1 DEF Calculated
<1>7. Results'
  BY <1>1, ResultsStand
<1> QED
  BY <1>5, <1>6, <1>7 DEF IncomeInv

\* Once every payment of the year has been processed, and the interest, the
\* report is that of the rows.
LEMMA ReportIs ==
  ASSUME Stages, Calculated, pending = {}
  PROVE  ReportSound(year, ReportOf(ProcessInterests(run)))
<1> DEFINE K == Done
           F == FundsAmong(Done)
           monthly == GroupByMonth(history.interest_list)
           taxes == GroupByMonth(history.interest_tax_list)
           uk == {g \in monthly : g.key.currency = UK_CURRENCY}
           earned == InYear(OfKind(DOMAIN rows, "interest"))
           inPounds == {i \in earned : rows[i].currency = UK_CURRENCY}
           taxed == InYear(OfKind(DOMAIN rows, "interest_tax"))
           E == EntriesOf(K)
           kept == {e \in E : ~e.is_interest}
<1>1. pending # NoValue
  <2>1. account \in Accounts
    BY DEF Stages
  <2>2. {} \in SUBSET {DividendKey(account.rows[i]) : i \in DOMAIN account.rows}
    OBVIOUS
  <2>3. {} # NoValue
    BY <2>1, <2>2, NoValueAssumption
  <2> QED
    BY <2>3
<1>2. run.ingested /\ next = Len(rows) + 1 /\ TaxSound(attribution.matched) /\ WholeRun(run)
  BY <1>1 DEF Stages, WholeRun
<1>3. RowsSound /\ Recorded(history, DOMAIN rows)
  BY <1>2, AllRead
<1>4. /\ run.calculation_log_yields = E
      /\ run.total_foreign_interest = SumFunctionOnSet(OwnPounds, RowsUnder(F))
      /\ run.total_uk_interest = 0 /\ run.total_interest_tax = 0
      /\ \A k \in K : CurrenciesMatch(k)
  BY <1>1 DEF Calculated
<1>5. /\ K = {k \in DOMAIN history.dividend_list : InTaxYear(k.day)}
      /\ K \in SUBSET DOMAIN history.dividend_list
      /\ F \in SUBSET DOMAIN history.dividend_list
      /\ F = {k \in K : k.symbol \in InterestFunds}
  BY DEF Done, FundsAmong
<1>6. /\ RowsUnder(K) = PaidIn(year) /\ RowsUnder(F) = FundsIn(year)
      /\ RowsUnder(K \ F) = PaidIn(year) \ FundsIn(year)
  <2>1. ASSUME NEW i \in PaidRows
        PROVE  /\ PaymentKey[i] \in DOMAIN history.dividend_list
               /\ PaymentKey[i].day = rows[i].day /\ PaymentKey[i].symbol = rows[i].symbol
    <3>1. i \in DOMAIN rows /\ PaymentKey[i] \in DOMAIN history.dividend_list
      BY <1>3, PaymentKeys
    <3> QED
      BY <3>1 DEF PaymentKey, DividendKey
  <2> HIDE DEF K, F
  <2> QED
    BY <1>5, <2>1 DEF RowsUnder, PaidIn, FundsIn, InTaxYear
<1>7. /\ InPounds(uk) = SumFunctionOnSet(AtMonthEnds, inPounds)
      /\ InPounds(monthly \ uk) = SumFunctionOnSet(AtMonthEnds, earned \ inPounds)
      /\ InPounds(taxes) = SumFunctionOnSet(AtMonthEnds, taxed)
      /\ InPounds(uk) \in Int /\ InPounds(monthly \ uk) \in Int /\ InPounds(taxes) \in Int
  BY <1>3, InterestTotals
<1>8. /\ earned = EarnedIn(year) /\ inPounds = SterlingIn(year) /\ taxed = TaxedIn(year)
  BY DEF EarnedIn, SterlingIn, TaxedIn, InYear, InTaxYear
<1> DEFINE r == ProcessInterests(run)
<1>9. r = RunOf(run, run.total_uk_interest + InPounds(uk),
                run.total_foreign_interest + InPounds(monthly \ uk),
                run.total_interest_tax - InPounds(taxes), run.calculation_log_yields)
  BY <1>2, InterestsCounted DEF ProcessInterests
<1> HIDE DEF K, F, monthly, taxes, uk, earned, inPounds, taxed, r
<1>10. /\ r.calculation_log_yields = E
       /\ r.total_uk_interest = run.total_uk_interest + InPounds(uk)
       /\ r.total_foreign_interest = run.total_foreign_interest + InPounds(monthly \ uk)
       /\ r.total_interest_tax = run.total_interest_tax - InPounds(taxes)
  BY <1>4, <1>9 DEF RunOf
<1>11. /\ ReportOf(r).entries = E
       /\ ReportOf(r).dividends = MapThenSumSet(LAMBDA e : e.amount, kept)
       /\ ReportOf(r).uk_interest = r.total_uk_interest
       /\ ReportOf(r).foreign_interest = r.total_foreign_interest
       /\ ReportOf(r).interest_tax = r.total_interest_tax
  BY <1>10 DEF ReportOf
<1>12. IsFiniteSet(RowsUnder(F)) /\ \A i \in RowsUnder(F) : OwnPounds[i] \in Int
  <2>1. RowsUnder(F) \in SUBSET PaidRows /\ IsFiniteSet(PaidRows) /\ PaidRows \in SUBSET DOMAIN rows
    BY <1>3, PaymentKeys DEF RowsUnder
  <2>2. \A i \in DOMAIN rows : rows[i].day \in Days
    BY <1>3 DEF RowsSound
  <2>3. \A i \in DOMAIN rows : OwnPounds[i] \in Int
    BY <1>3, <2>2, RowInPounds DEF OwnPounds
  <2> QED
    BY <2>1, <2>3, FS_Subset
<1>13. SumFunctionOnSet(OwnPounds, RowsUnder(F)) \in Int
  BY <1>12, SumType
<1>14. /\ r.total_uk_interest = SumFunctionOnSet(AtMonthEnds, SterlingIn(year))
       /\ r.total_foreign_interest
            = SumFunctionOnSet(AtMonthEnds, EarnedIn(year) \ SterlingIn(year))
                + SumFunctionOnSet(OwnPounds, FundsIn(year))
       /\ r.total_interest_tax = -SumFunctionOnSet(AtMonthEnds, TaxedIn(year))
  BY <1>4, <1>6, <1>7, <1>8, <1>10, <1>13
<1>15. /\ kept = EntriesOf(K \ F)
       /\ \A e \in E : \E k \in K : e = DividendEntry(k)
  <2>1. \A k \in K : DividendEntry(k).is_interest <=> k \in F
    <3> SUFFICES ASSUME NEW k \in K PROVE DividendEntry(k).is_interest <=> k \in F
      OBVIOUS
    <3>1. k \in DOMAIN history.dividend_list
      BY <1>5
    <3> QED
      BY <1>2, <1>3, <1>5, <3>1, EntryIs
  <2> QED
    BY <2>1 DEF EntriesOf
<1>16. ReportOf(r).dividends = SumFunctionOnSet(OwnPounds, PaidIn(year) \ FundsIn(year))
  <2>1. K \ F \in SUBSET DOMAIN history.dividend_list
    BY <1>5
  <2>2. /\ IsFiniteSet(EntriesOf(K \ F))
        /\ SumFunctionOnSet([e \in EntriesOf(K \ F) |-> e.amount], EntriesOf(K \ F))
             = SumFunctionOnSet(OwnPounds, RowsUnder(K \ F))
    BY <1>2, <1>3, <2>1, EntriesAddUp
  <2> HIDE DEF kept
  <2>3. MapThenSumSet(LAMBDA e : e.amount, kept) = SumFunctionOnSet([e \in kept |-> e.amount], kept)
    BY <1>15, <2>2, SumOfEntries
  <2> QED
    BY <1>6, <1>11, <1>15, <2>2, <2>3
<1>17. EntriesSound(year, E)
  <2>1. ASSUME NEW k \in K
        PROVE  LET e == DividendEntry(k) IN
               /\ ReliefWithin(e) /\ e.day \in Days /\ e.day = k.day /\ e.symbol = k.symbol
               /\ e.tax_at_source = SumFunctionOnSet(PoundsAt(e.day), TakenFrom(e.symbol, e.day))
    <3>1. k \in DOMAIN history.dividend_list /\ k.day \in Days
      BY <1>3, <1>5, PaymentKeys
    <3>2. ReliefWithin(DividendEntry(k))
      BY <1>2, <1>3, <1>4, <3>1, TreatyRelief
    <3> QED
      BY <1>2, <1>3, <3>1, <3>2, EntryIs
  <2>2. {<<e.symbol, e.day>> : e \in E} = {<<k.symbol, k.day>> : k \in K}
    BY <2>1 DEF EntriesOf
  <2>3. {<<k.symbol, k.day>> : k \in K} = {<<rows[i].symbol, rows[i].day>> : i \in PaidIn(year)}
    <3>1. PaidIn(year) = RowsUnder(K)
      BY <1>6
    <3>2. \A i \in PaidRows : /\ PaymentKey[i].day = rows[i].day
                              /\ PaymentKey[i].symbol = rows[i].symbol
      <4>1. PaidRows \in SUBSET DOMAIN rows
        BY <1>3, PaymentKeys
      <4> QED
        BY <4>1 DEF PaymentKey, DividendKey
    <3>3. \A k \in K : \E i \in RowsUnder(K) : k = PaymentKey[i]
      <4>1. DOMAIN history.dividend_list = {PaymentKey[i] : i \in PaidRows}
        BY <1>3, PaymentKeys
      <4> QED
        BY <1>5, <4>1 DEF RowsUnder
    <3>4. \A i \in RowsUnder(K) : i \in PaidRows /\ PaymentKey[i] \in K
      BY DEF RowsUnder
    <3>5. ASSUME NEW k \in K
          PROVE  <<k.symbol, k.day>> \in {<<rows[i].symbol, rows[i].day>> : i \in PaidIn(year)}
      BY <3>1, <3>2, <3>3, <3>4
    <3>6. ASSUME NEW i \in PaidIn(year)
          PROVE  <<rows[i].symbol, rows[i].day>> \in {<<k.symbol, k.day>> : k \in K}
      <4>1. PaymentKey[i] \in K /\ PaymentKey[i].day = rows[i].day
            /\ PaymentKey[i].symbol = rows[i].symbol
        BY <3>1, <3>2, <3>4
      <4> QED
        BY <4>1
    <3> QED
      BY <3>5, <3>6
  <2>4. \A e \in E : /\ ReliefWithin(e) /\ e.day \in Days
                     /\ e.tax_at_source
                          = SumFunctionOnSet(PoundsAt(e.day), TakenFrom(e.symbol, e.day))
    BY <1>15, <2>1
  <2> HIDE DEF E
  <2> QED
    BY <2>2, <2>3, <2>4 DEF EntriesSound
<1>18. OfKind(DOMAIN rows, "refused") = {}
  BY <1>3 DEF Recorded
<1>19. ReportSound(year, ReportOf(r))
  <2> DEFINE R == ReportOf(r)
  <2> HIDE DEF E, kept
  <2>1. R.entries = E /\ EntriesSound(year, R.entries)
    BY <1>11, <1>17
  <2> QED
    BY <1>11, <1>14, <1>16, <1>18, <2>1 DEF ReportSound
<1> QED
  BY <1>19 DEF r

\* A payment's rows, each in the pounds of its own day.
LEMMA PaymentPounds ==
  ASSUME RowsSound, Recorded(history, DOMAIN rows), TaxSound(attribution.matched),
         NEW key \in DOMAIN history.dividend_list
  PROVE  /\ DividendEntry(key).amount = SumFunctionOnSet(OwnPounds, RowsUnder({key}))
         /\ \A keys : /\ IsFiniteSet(RowsUnder(keys))
                      /\ \A i \in RowsUnder(keys) : OwnPounds[i] \in Int
<1>1. IsFiniteSet(PaidRows) /\ PaidRows \in SUBSET DOMAIN rows
  BY PaymentKeys
<1>2. \A i \in DOMAIN rows : rows[i].day \in Days
  BY DEF RowsSound
<1>3. \A keys : /\ IsFiniteSet(RowsUnder(keys))
                /\ \A i \in RowsUnder(keys) : OwnPounds[i] \in Int
  <2> SUFFICES ASSUME NEW keys
               PROVE  /\ IsFiniteSet(RowsUnder(keys))
                      /\ \A i \in RowsUnder(keys) : OwnPounds[i] \in Int
    OBVIOUS
  <2>1. RowsUnder(keys) \in SUBSET PaidRows
    BY DEF RowsUnder
  <2>2. IsFiniteSet(RowsUnder(keys))
    BY <1>1, <2>1, FS_Subset
  <2>3. ASSUME NEW i \in RowsUnder(keys) PROVE OwnPounds[i] \in Int
    <3>1. i \in DOMAIN rows /\ rows[i].day \in Days
      BY <1>1, <1>2, <2>1
    <3> QED
      BY <3>1, RowInPounds DEF OwnPounds
  <2> QED
    BY <2>2, <2>3
<1>4. RowsUnder({key}) = Under(PaidRows, PaymentKey, key)
  BY DEF RowsUnder, Under
<1>5. \A i \in Under(PaidRows, PaymentKey, key) : OwnPounds[i] = PoundsAt(key.day)[i]
  <2> SUFFICES ASSUME NEW i \in Under(PaidRows, PaymentKey, key)
               PROVE  OwnPounds[i] = PoundsAt(key.day)[i]
    OBVIOUS
  <2>1. i \in DOMAIN rows /\ PaymentKey[i] = key
    BY <1>1 DEF Under
  <2>2. key.day = rows[i].day
    BY <2>1 DEF PaymentKey, DividendKey
  <2> QED
    BY <2>1, <2>2 DEF OwnPounds, PoundsAt
<1>6. SumFunctionOnSet(OwnPounds, Under(PaidRows, PaymentKey, key))
        = SumFunctionOnSet(PoundsAt(key.day), Under(PaidRows, PaymentKey, key))
  BY <1>3, <1>4, <1>5, SumSame
<1>7. DividendEntry(key).amount
        = SumFunctionOnSet(PoundsAt(key.day), Under(PaidRows, PaymentKey, key))
  BY EntryIs
<1> QED
  BY <1>3, <1>4, <1>6, <1>7

\* What a dividend adds to the run.
LEMMA DividendCounted ==
  ASSUME NEW r, WholeRun(r), NEW yields, NEW foreign
  PROVE  [r EXCEPT !.calculation_log_yields = yields, !.total_foreign_interest = foreign]
           = RunOf(r, r.total_uk_interest, foreign, r.total_interest_tax, yields)
<1>1. DOMAIN r = {"ingestion_started", "ingested", "total_uk_interest",
                  "total_foreign_interest", "total_interest_tax", "calculation_log_yields"}
  BY DEF WholeRun
<1>2. [r EXCEPT !.calculation_log_yields = yields, !.total_foreign_interest = foreign]
        = [f \in DOMAIN r |-> IF f = "total_foreign_interest" THEN foreign
                              ELSE IF f = "calculation_log_yields" THEN yields ELSE r[f]]
  OBVIOUS
<1> QED
  BY <1>1, <1>2 DEF RunOf

LEMMA ProcessDividendKeeps ==
  ASSUME IncomeInv, pending # NoValue, NEW key \in pending, ProcessDividend(key)
  PROVE  IncomeInv'
<1> DEFINE entry == DividendEntry(key)
           isFund == key.symbol \in InterestFunds
           yields == run.calculation_log_yields \cup {entry}
           foreign == run.total_foreign_interest + (IF isFund THEN entry.amount ELSE 0)
<1>1. /\ Stages /\ Calculated /\ Results /\ run.ingested = TRUE /\ WholeRun(run)
      /\ UNCHANGED <<account, year, next, history, attribution, warned, summary, reports>>
      /\ pending' = pending \ {key}
      /\ pending \in SUBSET DOMAIN history.dividend_list
  BY DEF IncomeInv, ProcessDividend, Stages, WholeRun
<1>2. \/ /\ InTaxYear(key.day)
         /\ run' = [run EXCEPT !.calculation_log_yields = yields,
                               !.total_foreign_interest = foreign]
         /\ CurrenciesMatch(key)
      \/ ~InTaxYear(key.day) /\ run' = run
  BY DEF ProcessDividend
<1>3. /\ run.calculation_log_yields = EntriesOf(Done)
      /\ run.total_foreign_interest = SumFunctionOnSet(OwnPounds, RowsUnder(FundsAmong(Done)))
      /\ run.total_uk_interest = 0 /\ run.total_interest_tax = 0
      /\ \A k \in Done : CurrenciesMatch(k)
  BY <1>1 DEF Calculated
<1>4. next = Len(rows) + 1 /\ TaxSound(attribution.matched)
  BY <1>1 DEF Stages
<1>5. RowsSound /\ Recorded(history, DOMAIN rows)
  BY <1>1, <1>4, AllRead
<1>6. /\ \A keys : EntriesOf(keys)' = EntriesOf(keys)
      /\ \A keys : RowsUnder(keys)' = RowsUnder(keys)
      /\ \A keys : FundsAmong(keys)' = FundsAmong(keys)
      /\ OwnPounds' = OwnPounds
      /\ \A day : InTaxYear(day)' <=> InTaxYear(day)
      /\ \A k : CurrenciesMatch(k)' <=> CurrenciesMatch(k)
  BY <1>1, EntriesKept
<1>7. Done' = IF InTaxYear(key.day) THEN Done \cup {key} ELSE Done
  <2>1. Done' = {k \in DOMAIN history.dividend_list \ (pending \ {key}) : InTaxYear(k.day)}
    BY <1>1, <1>6 DEF Done
  <2> QED
    BY <1>1, <2>1 DEF Done
<1>8. /\ EntriesOf(Done)' = EntriesOf(Done')
      /\ SumFunctionOnSet(OwnPounds, RowsUnder(FundsAmong(Done)))'
           = SumFunctionOnSet(OwnPounds, RowsUnder(FundsAmong(Done')))
  BY <1>6
<1>9. CASE InTaxYear(key.day)
  <2> HIDE DEF foreign, yields
  <2>1. run' = RunOf(run, 0, foreign, 0, yields)
    <3>1. run' = [run EXCEPT !.calculation_log_yields = yields,
                             !.total_foreign_interest = foreign]
      BY <1>2, <1>9
    <3>2. [run EXCEPT !.calculation_log_yields = yields, !.total_foreign_interest = foreign]
            = RunOf(run, run.total_uk_interest, foreign, run.total_interest_tax, yields)
      BY <1>1, DividendCounted
    <3> QED
      BY <1>3, <3>1, <3>2
  <2>2. yields = EntriesOf(Done \cup {key})
    BY <1>3 DEF yields, EntriesOf
  <2>3. foreign = SumFunctionOnSet(OwnPounds, RowsUnder(FundsAmong(Done \cup {key})))
    <3>1. key \in DOMAIN history.dividend_list /\ key \notin Done
      BY <1>1 DEF Done
    <3>2. /\ entry.amount = SumFunctionOnSet(OwnPounds, RowsUnder({key}))
          /\ \A keys : /\ IsFiniteSet(RowsUnder(keys))
                       /\ \A i \in RowsUnder(keys) : OwnPounds[i] \in Int
      BY <1>4, <1>5, <3>1, PaymentPounds
    <3> HIDE DEF entry
    <3>3. SumFunctionOnSet(OwnPounds, RowsUnder(FundsAmong(Done))) \in Int
      BY <3>2, SumType
    <3>4. CASE isFund
      <4> DEFINE A == RowsUnder(FundsAmong(Done))
                 B == RowsUnder({key})
      <4>1. RowsUnder(FundsAmong(Done \cup {key})) = A \cup B /\ A \cap B = {}
        BY <3>1, <3>4 DEF RowsUnder, FundsAmong
      <4>2. /\ IsFiniteSet(A) /\ IsFiniteSet(B)
            /\ \A i \in A \cup B : OwnPounds[i] \in Int
        BY <3>2
      <4> HIDE DEF A, B
      <4>3. SumFunctionOnSet(OwnPounds, A \cup B)
              = SumFunctionOnSet(OwnPounds, A) + SumFunctionOnSet(OwnPounds, B)
        BY <4>1, <4>2, SumOfBoth
      <4> QED
        BY <1>3, <3>2, <3>4, <4>1, <4>3 DEF foreign, A, B
    <3>5. CASE ~isFund
      <4>1. FundsAmong(Done \cup {key}) = FundsAmong(Done)
        BY <3>5 DEF FundsAmong
      <4> QED
        BY <1>3, <3>3, <3>5, <4>1 DEF foreign
    <3> QED
      BY <3>4, <3>5
  <2>4. Stages'
    BY <1>1, <2>1, CalculationStages
  <2>5. Calculated'
    <3>1. /\ run'.calculation_log_yields = yields /\ run'.total_foreign_interest = foreign
          /\ run'.total_uk_interest = 0 /\ run'.total_interest_tax = 0
      BY <2>1 DEF RunOf
    <3>2. Done' = Done \cup {key}
      BY <1>7, <1>9
    <3>3. /\ run'.calculation_log_yields = EntriesOf(Done)'
          /\ run'.total_foreign_interest
               = SumFunctionOnSet(OwnPounds, RowsUnder(FundsAmong(Done)))'
      BY <1>8, <2>2, <2>3, <3>1, <3>2
    <3>4. (\A k \in Done : CurrenciesMatch(k))'
      BY <1>2, <1>3, <1>6, <1>9, <3>2
    <3> QED
      BY <3>1, <3>3, <3>4 DEF Calculated
  <2>6. Results'
    BY <1>1, ResultsStand
  <2> QED
    BY <2>4, <2>5, <2>6 DEF IncomeInv
<1>10. CASE ~InTaxYear(key.day)
  <2>1. run' = run /\ Done' = Done
    BY <1>2, <1>7, <1>10
  <2>2. run' = RunOf(run, run.total_uk_interest, run.total_foreign_interest,
                     run.total_interest_tax, run.calculation_log_yields)
    BY <1>1, <2>1 DEF RunOf, WholeRun
  <2>3. Stages'
    BY <1>1, <2>2, CalculationStages
  <2>4. Calculated'
    <3>1. /\ run'.calculation_log_yields = EntriesOf(Done)'
          /\ run'.total_foreign_interest
               = SumFunctionOnSet(OwnPounds, RowsUnder(FundsAmong(Done)))'
          /\ run'.total_uk_interest = 0 /\ run'.total_interest_tax = 0
      BY <1>3, <1>8, <2>1
    <3>2. (\A k \in Done : CurrenciesMatch(k))'
      BY <1>3, <1>6, <2>1
    <3> QED
      BY <3>1, <3>2 DEF Calculated
  <2>5. Results'
    BY <1>1, ResultsStand
  <2> QED
    BY <2>3, <2>4, <2>5 DEF IncomeInv
<1> QED
  BY <1>9, <1>10

LEMMA FinishCalculationKeeps ==
  ASSUME IncomeInv, FinishCalculation
  PROVE  IncomeInv'
<1> DEFINE report == ReportOf(ProcessInterests(run))
<1>1. /\ Stages /\ Calculated /\ Results /\ WholeRun(run)
      /\ UNCHANGED <<account, year, next, history, attribution, warned, summary>>
      /\ pending = {} /\ pending' = NoValue
      /\ run' = ProcessInterests(run)
  BY DEF IncomeInv, FinishCalculation, Stages, WholeRun
<1>2. reports' = [reports EXCEPT ![year] = report]
  BY DEF FinishCalculation
<1>3. ReportSound(year, report)
  BY <1>1, ReportIs
<1> HIDE DEF report
<1>4. run.ingested = TRUE
  <2>1. {} # NoValue
    <3>1. account \in Accounts
      BY <1>1 DEF Stages
    <3>2. {} \in SUBSET {DividendKey(account.rows[i]) : i \in DOMAIN account.rows}
      OBVIOUS
    <3> QED
      BY <3>1, <3>2, NoValueAssumption
  <2> QED
    BY <1>1, <2>1 DEF Stages
<1>5. Stages'
  <2>1. \E uk, foreign, tax, yields : run' = RunOf(run, uk, foreign, tax, yields)
    <3> DEFINE monthly == GroupByMonth(history.interest_list)
               taxes == GroupByMonth(history.interest_tax_list)
               uk == {g \in monthly : g.key.currency = UK_CURRENCY}
    <3>1. run' = RunOf(run, run.total_uk_interest + InPounds(uk),
                       run.total_foreign_interest + InPounds(monthly \ uk),
                       run.total_interest_tax - InPounds(taxes), run.calculation_log_yields)
      BY <1>1, InterestsCounted DEF ProcessInterests
    <3> HIDE DEF monthly, taxes, uk
    <3> QED
      BY <3>1
  <2> QED
    BY <1>1, <1>4, <2>1, CalculationStages
<1>6. Calculated'
  BY <1>1 DEF Calculated
<1>7. Results'
  <2>1. /\ reports' = [y \in Years |-> reports'[y]] /\ reports'[year] = report
        /\ \A y \in Years \ {year} : reports'[y] = reports[y]
    <3>1. reports = [y \in Years |-> reports[y]] /\ year \in Years
      BY <1>1 DEF Results, Stages
    <3> QED
      BY <1>2, <3>1
  <2>2. ASSUME NEW y \in Years
        PROVE  /\ reports'[y] # NoValue => ReportSound(y, reports'[y])
               /\ summary'[y] # NoValue => SummarySound(y, summary'[y]) /\ Told(y, warned'[y])
    BY <1>1, <1>3, <2>1 DEF Results
  <2>3. \A y \in Years :
          /\ reports'[y] # NoValue => ReportSound(y, reports[y])'
          /\ summary'[y] # NoValue => SummarySound(y, summary[y])' /\ Told(y, warned[y])'
    BY <1>1, <2>2, ResultsKept
  <2>4. summary' = [y \in Years |-> summary'[y]] /\ warned' = [y \in Years |-> warned'[y]]
    BY <1>1 DEF Results
  <2> QED
    BY <2>1, <2>3, <2>4 DEF Results, Years
<1> QED
  BY <1>5, <1>6, <1>7 DEF IncomeInv

LEMMA IncomeStutters ==
  ASSUME IncomeInv, UNCHANGED incomeVars
  PROVE  IncomeInv'
<1>1. /\ Stages /\ Calculated /\ Results
      /\ UNCHANGED <<account, year, next, history, attribution, run, pending,
                     warned, summary, reports>>
  BY DEF IncomeInv, incomeVars
<1>2. Results'
  BY <1>1, ResultsStand
<1>3. rows' = rows
  BY <1>1 DEF rows
<1>4. ReadSoFar'
  <2>1. next' # 0 => Recorded(history', 1 .. (next' - 1))
    BY <1>1 DEF Stages, ReadSoFar
  <2>2. next' # 0 => Recorded(history, 1 .. (next - 1))'
    BY <1>1, <2>1, RecordedKept
  <2> QED
    BY <2>2 DEF ReadSoFar
<1>5. run'.ingested => TaxSound(attribution.matched)'
  <2>1. run'.ingested => TaxSound(attribution'.matched)
    BY <1>1 DEF Stages
  <2> QED
    BY <1>1, <2>1, ResultsKept
<1>6. Stages'
  BY <1>1, <1>3, <1>4, <1>5 DEF Stages, Years
<1>7. Calculated'
  <2>1. Done' = Done
    BY <1>1 DEF Done, InTaxYear
  <2>2. /\ EntriesOf(Done)' = EntriesOf(Done)
        /\ SumFunctionOnSet(OwnPounds, RowsUnder(FundsAmong(Done)))'
             = SumFunctionOnSet(OwnPounds, RowsUnder(FundsAmong(Done)))
    BY <1>1, <2>1, EntriesKept
  <2>3. (\A k \in Done : CurrenciesMatch(k))' <=> \A k \in Done : CurrenciesMatch(k)
    BY <1>1, <2>1, EntriesKept
  <2> QED
    BY <1>1, <2>2, <2>3 DEF Calculated
<1> QED
  BY <1>2, <1>6, <1>7 DEF IncomeInv

\* The invariant the four properties follow from.
THEOREM IncomeInvariant == IncomeSpec => []IncomeInv
<1>1. IncomeInit => IncomeInv
  BY IncomeInitial
<1>2. IncomeInv /\ [IncomeNext]_incomeVars => IncomeInv'
  <2> SUFFICES ASSUME IncomeInv, [IncomeNext]_incomeVars PROVE IncomeInv'
    OBVIOUS
  <2>1. CASE BeginFirstPass
    BY <2>1, BeginKeeps
  <2>2. CASE RecordDividend
    BY <2>2, RecordDividendKeeps
  <2>3. CASE RecordDividendTax
    BY <2>3, RecordDividendTaxKeeps
  <2>4. CASE RecordInterest
    BY <2>4, RecordInterestKeeps
  <2>5. CASE RecordOther
    BY <2>5, RecordOtherKeeps
  <2>6. CASE FinishFirstPass
    BY <2>6, FinishFirstPassKeeps
  <2>7. CASE FirstPassStops
    BY <2>7, FirstPassStopsKeeps
  <2>8. CASE CalculateCapitalGain
    BY <2>8, CalculateKeeps
  <2>9. CASE pending # NoValue /\ \E key \in pending : ProcessDividend(key)
    BY <2>9, ProcessDividendKeeps
  <2>10. CASE FinishCalculation
    BY <2>10, FinishCalculationKeeps
  <2>11. CASE CalculationStops
    BY <2>11, CalculationStopsKeeps
  <2>12. CASE NextYear
    BY <2>12, NextYearKeeps
  <2>13. CASE UNCHANGED incomeVars
    BY <2>13, IncomeStutters
  <2> QED
    BY <2>1, <2>2, <2>3, <2>4, <2>5, <2>6, <2>7, <2>8, <2>9, <2>10, <2>11, <2>12, <2>13
       DEF IncomeNext
<1> QED
  BY <1>1, <1>2, PTL DEF IncomeSpec

-----------------------------------------------------------------------------
(* The four properties. *)

LEMMA SumOfStated ==
  ASSUME NEW symbol, NEW currency, NEW S, IsFiniteSet(S)
  PROVE  MapThenSumSet(LAMBDA y : Stated(summary[y], symbol, currency), S)
           = SumFunctionOnSet([y \in S |-> Stated(summary[y], symbol, currency)], S)
<1> DEFINE f == [y \in S |-> Stated(summary[y], symbol, currency)]
           Fold(sum) == sum = [s \in SUBSET S |->
                          IF s = {} THEN 0
                          ELSE Stated(summary[Pick(s)], symbol, currency) + sum[s \ {Pick(s)}]]
           chosen == CHOOSE sum : Fold(sum)
<1>1. \A s \in SUBSET S : s # {} => f[Pick(s)] = Stated(summary[Pick(s)], symbol, currency)
  BY DEF Pick
<1>2. PartialSums(f, S) = [s \in SUBSET S |-> Step(f, s, PartialSums(f, S))]
  BY PartialSumsFold
<1>3. Fold(PartialSums(f, S))
  BY <1>1, <1>2 DEF Step
<1>4. Fold(chosen)
  BY <1>3
<1>5. MapThenSumSet(LAMBDA y : Stated(summary[y], symbol, currency), S) = chosen[S]
  BY DEF MapThenSumSet, MapThenFoldSet, Pick
<1> HIDE DEF chosen, f
<1>6. \A s \in SUBSET S : chosen[s] = Step(f, s, chosen)
  BY <1>1, <1>4 DEF Step
<1> QED
  BY <1>5, <1>6, SumIsAnyFold DEF f

\* The sums the properties are written with, as sums of functions of the rows.
LEMMA RowSums ==
  ASSUME RowsSound, NEW S \in SUBSET DOMAIN rows
  PROVE  /\ MapThenSumSet(LAMBDA i : Pounds(i, rows[i].day), S) = SumFunctionOnSet(OwnPounds, S)
         /\ MapThenSumSet(LAMBDA i : Pounds(i, MonthEnd(i)), S)
              = SumFunctionOnSet(AtMonthEnds, S)
         /\ MapThenSumSet(LAMBDA i : rows[i].amount, S) = SumFunctionOnSet(RowAmount, S)
<1>1. IsFiniteSet(S)
  BY FS_Subset DEF RowsSound
<1> DEFINE own == [i \in S |-> Pounds(i, rows[i].day)]
           ends == [i \in S |-> Pounds(i, MonthEnd(i))]
           amounts == [i \in S |-> rows[i].amount]
<1>2. \A i \in S : own[i] = OwnPounds[i] /\ ends[i] = AtMonthEnds[i] /\ amounts[i] = RowAmount[i]
  BY DEF OwnPounds, AtMonthEnds, RowAmount
<1>3. /\ MapThenSumSet(LAMBDA i : Pounds(i, rows[i].day), S) = SumFunctionOnSet(own, S)
      /\ MapThenSumSet(LAMBDA i : Pounds(i, MonthEnd(i)), S) = SumFunctionOnSet(ends, S)
      /\ MapThenSumSet(LAMBDA i : rows[i].amount, S) = SumFunctionOnSet(amounts, S)
  BY <1>1, SumOfPounds, SumOfMonthEnds, SumOfRows
<1> HIDE DEF own, ends, amounts
<1>4. SumFunctionOnSet(own, S) = SumFunctionOnSet(OwnPounds, S)
  BY <1>1, <1>2, SumSame
<1>5. SumFunctionOnSet(ends, S) = SumFunctionOnSet(AtMonthEnds, S)
  BY <1>1, <1>2, SumSame
<1>6. SumFunctionOnSet(amounts, S) = SumFunctionOnSet(RowAmount, S)
  BY <1>1, <1>2, SumSame
<1> QED
  BY <1>3, <1>4, <1>5, <1>6

LEMMA PoundsOnOneDay ==
  ASSUME RowsSound, NEW S \in SUBSET DOMAIN rows, NEW day
  PROVE  MapThenSumSet(LAMBDA i : Pounds(i, day), S) = SumFunctionOnSet(PoundsAt(day), S)
<1>1. IsFiniteSet(S)
  BY FS_Subset DEF RowsSound
<1> DEFINE f == [i \in S |-> Pounds(i, day)]
<1>2. \A i \in S : f[i] = PoundsAt(day)[i]
  BY DEF PoundsAt
<1>3. MapThenSumSet(LAMBDA i : Pounds(i, day), S) = SumFunctionOnSet(f, S)
  BY <1>1, SumOfPoundsOn
<1> HIDE DEF f
<1> QED
  BY <1>1, <1>2, <1>3, SumSame

\* Every day is in one of the years.
LEMMA DayInAYear ==
  ASSUME NEW day \in Days
  PROVE  YearOf(day) \in Years
<1> DEFINE D == DaysInYear
           q == (day - 1) \div D
<1>1. LastYear \in Nat \ {0} /\ D \in Nat \ {0} /\ LastYear * D \in Int
  BY IncomeAssumption
<1>2. day \in Int /\ 1 <= day /\ day <= LastYear * D
  BY <1>1 DEF Days
<1>3. D * q <= day - 1 /\ day - 1 < D * q + D /\ q \in Int
  BY <1>1, <1>2, FloorBelow
<1> HIDE DEF q, D
<1>4. 0 <= q
  <2>1. D * (q + 1) = D * q + D /\ D * 0 = 0
    BY <1>1, <1>3
  <2>2. ~(D * (q + 1) <= D * 0)
    BY <1>1, <1>2, <1>3, <2>1
  <2>3. ~(q + 1 <= 0)
    BY <1>1, <1>3, <2>2, TimesKeepsOrder
  <2> QED
    BY <1>3, <2>3
<1>5. q < LastYear
  <2>1. ~(D * LastYear <= D * q)
    <3>1. D * LastYear = LastYear * D /\ D * q \in Int
      BY <1>1, <1>3
    <3> QED
      BY <1>1, <1>2, <1>3, <3>1
  <2>2. ~(LastYear <= q)
    BY <1>1, <1>3, <2>1, TimesKeepsOrder
  <2> QED
    BY <1>1, <1>3, <2>2
<1>6. YearOf(day) = q + 1
  BY DEF YearOf, q, D
<1> QED
  BY <1>1, <1>3, <1>4, <1>5, <1>6 DEF Years

\* Relief is claimed only on a payment its ISIN, or failing that a currency it was
\* paid in, places in a treaty country, and comes to less than a penny of a
\* currency of its rows more than they withheld (process_dividends): whatever the
\* rows, the rates and the treaties.
THEOREM ReliefAlwaysWithheld == IncomeSpec => []ReliefIsWithheld
<1>1. IncomeInv => ReliefIsWithheld
  <2> SUFFICES ASSUME IncomeInv, NEW y \in Years, reports[y] # NoValue,
                      NEW e \in reports[y].entries, e.tax_treaty_amount > 0
               PROVE  LET paid == PaidOn(e.symbol, e.day)
                          taken == TakenFrom(e.symbol, e.day)
                          withheld == -MapThenSumSet(LAMBDA i : Pounds(i, e.day), taken)
                          excess == e.tax_treaty_amount - (Parts * withheld)
                      IN /\ \/ IsinCountry[e.symbol] \in TreatyCountries
                            \/ /\ IsinCountry[e.symbol] = NoValue
                               /\ \E c \in CurrenciesIn(paid) : CurrencyCountry[c] \in TreatyCountries
                         /\ \E c \in CurrenciesIn(paid \cup taken) :
                               excess * UnitsOf(c, e.day) < Parts * Penny
    BY DEF ReliefIsWithheld
  <2> DEFINE taken == TakenFrom(e.symbol, e.day)
             sum == MapThenSumSet(LAMBDA i : Pounds(i, e.day), taken)
  <2>1. EntriesSound(y, reports[y].entries) /\ account \in Accounts
    BY DEF IncomeInv, Results, ReportSound, Stages
  <2>2. /\ ReliefWithin(e) /\ e.day \in Days
        /\ e.tax_at_source = SumFunctionOnSet(PoundsAt(e.day), taken)
    BY <2>1 DEF EntriesSound
  <2>3. RowsSound
    BY <2>1, AccountRows
  <2>4. taken \in SUBSET DOMAIN rows
    BY DEF TakenFrom, RowsOf
  <2>5. sum = e.tax_at_source
    BY <2>2, <2>3, <2>4, PoundsOnOneDay
  <2> DEFINE withheld == -sum
  <2>6. withheld = -e.tax_at_source
    BY <2>5
  <2> QED
    BY <2>2, <2>6 DEF ReliefWithin
<1> QED
  BY <1>1, IncomeInvariant, PTL

\* A report is of the whole history and of nothing else, whatever stopped before
\* it and however often it was calculated again (prepare_history, RunState.reset).
THEOREM ReportsAlwaysMatchTheRows == IncomeSpec => []ReportMatchesRows
<1>1. IncomeInv => ReportMatchesRows
  <2> SUFFICES ASSUME IncomeInv, NEW y \in Years, reports[y] # NoValue
               PROVE  LET Ours(kinds) == {i \in RowsOf(kinds) : YearOf(rows[i].day) = y}
                          paid == Ours({"dividend"})
                          onFunds == {i \in paid : rows[i].symbol \in InterestFunds}
                          earned == Ours({"interest"})
                          inPounds == {i \in earned : rows[i].currency = UK_CURRENCY}
                          OnDay(S) == MapThenSumSet(LAMBDA i : Pounds(i, rows[i].day), S)
                          AtMonthEnd(S) == MapThenSumSet(LAMBDA i : Pounds(i, MonthEnd(i)), S)
                      IN /\ RowsOf({"refused"}) = {}
                         /\ reports[y].dividends = OnDay(paid \ onFunds)
                         /\ reports[y].uk_interest = AtMonthEnd(inPounds)
                         /\ reports[y].foreign_interest
                              = AtMonthEnd(earned \ inPounds) + OnDay(onFunds)
                         /\ reports[y].interest_tax = -AtMonthEnd(Ours({"interest_tax"}))
    BY DEF ReportMatchesRows
  <2> DEFINE Ours(kinds) == {i \in RowsOf(kinds) : YearOf(rows[i].day) = y}
             paid == Ours({"dividend"})
             onFunds == {i \in paid : rows[i].symbol \in InterestFunds}
             earned == Ours({"interest"})
             inPounds == {i \in earned : rows[i].currency = UK_CURRENCY}
             taxed == Ours({"interest_tax"})
  <2>1. ReportSound(y, reports[y])
    BY DEF IncomeInv, Results
  <2>2. RowsSound
    BY AccountRows DEF IncomeInv, Stages
  <2>3. \A kind : RowsOf({kind}) = OfKind(DOMAIN rows, kind)
    BY DEF RowsOf, OfKind
  <2>4. /\ paid = PaidIn(y) /\ onFunds = FundsIn(y) /\ earned = EarnedIn(y)
        /\ inPounds = SterlingIn(y) /\ taxed = TaxedIn(y)
    BY <2>3 DEF PaidIn, FundsIn, EarnedIn, SterlingIn, TaxedIn, PaidRows
  <2>5. /\ paid \in SUBSET DOMAIN rows /\ earned \in SUBSET DOMAIN rows
        /\ taxed \in SUBSET DOMAIN rows /\ onFunds \in SUBSET DOMAIN rows
        /\ inPounds \in SUBSET DOMAIN rows
    BY DEF RowsOf
  <2> HIDE DEF paid, onFunds, earned, inPounds, taxed
  <2>6. /\ paid \ onFunds \in SUBSET DOMAIN rows /\ earned \ inPounds \in SUBSET DOMAIN rows
    BY <2>5
  <2>7. RowsOf({"refused"}) = {}
    BY <2>1, <2>3 DEF ReportSound
  <2>8. reports[y].dividends
          = MapThenSumSet(LAMBDA i : Pounds(i, rows[i].day), paid \ onFunds)
    BY <2>1, <2>2, <2>4, <2>6, RowSums DEF ReportSound
  <2>9. reports[y].uk_interest = MapThenSumSet(LAMBDA i : Pounds(i, MonthEnd(i)), inPounds)
    BY <2>1, <2>2, <2>4, <2>5, RowSums DEF ReportSound
  <2>10. reports[y].foreign_interest
           = MapThenSumSet(LAMBDA i : Pounds(i, MonthEnd(i)), earned \ inPounds)
               + MapThenSumSet(LAMBDA i : Pounds(i, rows[i].day), onFunds)
    <3>1. MapThenSumSet(LAMBDA i : Pounds(i, MonthEnd(i)), earned \ inPounds)
            = SumFunctionOnSet(AtMonthEnds, earned \ inPounds)
      BY <2>2, <2>6, RowSums
    <3>2. MapThenSumSet(LAMBDA i : Pounds(i, rows[i].day), onFunds)
            = SumFunctionOnSet(OwnPounds, onFunds)
      BY <2>2, <2>5, RowSums
    <3> QED
      BY <2>1, <2>4, <3>1, <3>2 DEF ReportSound
  <2>11. reports[y].interest_tax = -MapThenSumSet(LAMBDA i : Pounds(i, MonthEnd(i)), taxed)
    BY <2>1, <2>2, <2>4, <2>5, RowSums DEF ReportSound
  <2> QED
    BY <2>7, <2>8, <2>9, <2>10, <2>11 DEF paid, onFunds, earned, inPounds, taxed
<1> QED
  BY <1>1, IncomeInvariant, PTL

\* A withholding with one payment it could have been taken from is counted on
\* that payment and in its year; every year that holds one without, or a payment
\* it may be of, is told (_attribute_dividend_tax, _warn_unattributed).
THEOREM WithholdingAlwaysInOneYear == IncomeSpec => []WithholdingInOneYear
<1>1. IncomeInv => WithholdingInOneYear
  <2> SUFFICES ASSUME IncomeInv PROVE WithholdingInOneYear
    OBVIOUS
  <2>1. RowsSound
    BY AccountRows DEF IncomeInv, Stages
  <2>2. \A kind : RowsOf({kind}) = OfKind(DOMAIN rows, kind)
    BY DEF RowsOf, OfKind
  <2>3. RowsOf({"dividend"}) = PaidRows /\ RowsOf({"dividend_tax"}) = TaxRows
    BY <2>2 DEF PaidRows, TaxRows
  <2>4. TaxRows \in SUBSET DOMAIN rows
    BY DEF TaxRows, OfKind
  <2>5. ASSUME NEW y \in Years, reports[y] # NoValue
        PROVE  /\ {<<e.symbol, e.day>> : e \in reports[y].entries}
                    = {<<rows[i].symbol, rows[i].day>> :
                           i \in {i \in RowsOf({"dividend"}) : YearOf(rows[i].day) = y}}
               /\ \A e \in reports[y].entries :
                    e.tax_at_source = MapThenSumSet(LAMBDA i : Pounds(i, e.day),
                                                    TakenFrom(e.symbol, e.day))
    <3>1. EntriesSound(y, reports[y].entries)
      BY <2>5 DEF IncomeInv, Results, ReportSound
    <3>2. {i \in RowsOf({"dividend"}) : YearOf(rows[i].day) = y} = PaidIn(y)
      BY <2>3 DEF PaidIn
    <3>3. ASSUME NEW e \in reports[y].entries
          PROVE  e.tax_at_source = MapThenSumSet(LAMBDA i : Pounds(i, e.day),
                                                 TakenFrom(e.symbol, e.day))
      <4>1. TakenFrom(e.symbol, e.day) \in SUBSET DOMAIN rows
        BY <2>3, <2>4 DEF TakenFrom
      <4>2. MapThenSumSet(LAMBDA i : Pounds(i, e.day), TakenFrom(e.symbol, e.day))
              = SumFunctionOnSet(PoundsAt(e.day), TakenFrom(e.symbol, e.day))
        BY <2>1, <4>1, PoundsOnOneDay
      <4> QED
        BY <3>1, <4>2 DEF EntriesSound
    <3> QED
      BY <3>1, <3>2, <3>3 DEF EntriesSound
  <2>6. ASSUME NEW i \in RowsOf({"dividend_tax"}),
               Cardinality(PaymentDays(i)) # 1, NetWithheld(i) # 0,
               NEW day \in {rows[i].day} \cup PaymentDays(i),
               summary[YearOf(day)] # NoValue
        PROVE  TaxKey(rows[i]) \in warned[YearOf(day)]
    <3>1. i \in TaxRows /\ i \in DOMAIN rows /\ TaxKey(rows[i]) = TaxKeys[i]
      BY <2>3, <2>4 DEF TaxKeys
    <3>2. day \in Days
      <4>1. rows[i].day \in Days /\ \A j \in RowsOf({"dividend"}) : rows[j].day \in Days
        BY <2>1, <3>1 DEF RowsSound, RowsOf
      <4>2. PaymentDays(i) \in SUBSET Days
        BY <4>1 DEF PaymentDays
      <4> QED
        BY <4>1, <4>2
    <3>3. Told(YearOf(day), warned[YearOf(day)])
      BY <2>6, <3>2, DayInAYear DEF IncomeInv, Results
    <3>4. NetWithheld(i) = SumFunctionOnSet(RowAmount, Under(TaxRows, TaxKeys, TaxKeys[i]))
      <4> DEFINE S == {j \in RowsOf({"dividend_tax"}) : TaxKey(rows[j]) = TaxKey(rows[i])}
      <4>1. S = Under(TaxRows, TaxKeys, TaxKeys[i])
        BY <2>3, <2>4, <3>1 DEF Under, TaxKeys
      <4>2. S \in SUBSET DOMAIN rows
        BY <2>3, <2>4
      <4>3. NetWithheld(i) = MapThenSumSet(LAMBDA j : rows[j].amount, S)
        BY DEF NetWithheld
      <4> HIDE DEF S
      <4> QED
        BY <2>1, <4>1, <4>2, <4>3, RowSums
    <3> QED
      BY <2>6, <3>1, <3>3, <3>4 DEF Told
  <2> QED
    BY <2>5, <2>6 DEF WithholdingInOneYear
<1> QED
  BY <1>1, IncomeInvariant, PTL

\* One year states a row: the years' rows are those of the account.
LEMMA YearsHoldEachOnce ==
  ASSUME RowsSound, NEW symbol, NEW currency
  PROVE  LET S == {i \in TaxRows : rows[i].symbol = symbol /\ rows[i].currency = currency} IN
         SumFunctionOnSet([y \in Years |->
                             SumFunctionOnSet(RowAmount, CountedIn(y, symbol, currency))], Years)
           = SumFunctionOnSet(RowAmount, S)
<1> DEFINE S == {i \in TaxRows : rows[i].symbol = symbol /\ rows[i].currency = currency}
           part == [i \in S |-> YearOf(CountedOn(i))]
           byYear == [y \in Years |-> SumFunctionOnSet(RowAmount, {x \in S : part[x] = y})]
           counted == [y \in Years |->
                         SumFunctionOnSet(RowAmount, CountedIn(y, symbol, currency))]
<1>1. S \in SUBSET DOMAIN rows /\ IsFiniteSet(S) /\ IsFiniteSet(Years)
  <2>1. S \in SUBSET DOMAIN rows
    BY DEF TaxRows, OfKind
  <2>2. IsFiniteSet(S)
    BY <2>1, FS_Subset DEF RowsSound
  <2>3. IsFiniteSet(Years)
    BY IncomeAssumption, FS_Interval DEF Years
  <2> QED
    BY <2>1, <2>2, <2>3
<1>2. \A i \in S : RowAmount[i] \in Int /\ part[i] \in Years
  <2> SUFFICES ASSUME NEW i \in S PROVE RowAmount[i] \in Int /\ part[i] \in Years
    OBVIOUS
  <2>1. i \in DOMAIN rows /\ rows[i].day \in Days /\ RowAmount[i] \in Int
    BY <1>1 DEF RowsSound, RowAmount
  <2>2. PaymentDays(i) \in SUBSET Days
    <3>1. \A j \in RowsOf({"dividend"}) : rows[j].day \in Days
      BY DEF RowsSound, RowsOf
    <3> QED
      BY <2>1, <3>1 DEF PaymentDays
  <2>3. CountedOn(i) \in Days
    <3>1. CASE Cardinality(PaymentDays(i)) = 1
      <4>1. Cardinality({}) = 0
        BY FS_EmptySet
      <4>2. PaymentDays(i) # {}
        BY <3>1, <4>1
      <4>3. (CHOOSE d \in PaymentDays(i) : TRUE) \in PaymentDays(i)
        BY <4>2
      <4> QED
        BY <2>2, <3>1, <4>3 DEF CountedOn
    <3>2. CASE Cardinality(PaymentDays(i)) # 1
      BY <2>1, <3>2 DEF CountedOn
    <3> QED
      BY <3>1, <3>2
  <2> QED
    BY <2>1, <2>3, DayInAYear
<1>3. \A y \in Years : byYear[y] = counted[y]
  <2> SUFFICES ASSUME NEW y \in Years PROVE byYear[y] = counted[y]
    OBVIOUS
  <2>1. {x \in S : part[x] = y} = CountedIn(y, symbol, currency)
    BY DEF CountedIn
  <2> QED
    BY <2>1
<1>4. SumFunctionOnSet(byYear, Years) = SumFunctionOnSet(RowAmount, S)
  <2> HIDE DEF S, part
  <2> QED
    BY <1>1, <1>2, SumByParts
<1> HIDE DEF byYear, counted
<1>5. SumFunctionOnSet(byYear, Years) = SumFunctionOnSet(counted, Years)
  BY <1>1, <1>3, SumSame
<1> QED
  BY <1>4, <1>5 DEF counted

\* The summaries of consecutive years state every withholding once between them,
\* matched or not (ingestion.py, the attribution the summary reads).
THEOREM SummariesAlwaysCountEachOnce == IncomeSpec => []SummariesCountEachOnce
<1>1. IncomeInv => SummariesCountEachOnce
  <2> SUFFICES ASSUME IncomeInv, \A y \in Years : summary[y] # NoValue,
                      NEW symbol \in {rows[i].symbol : i \in RowsOf({"dividend_tax"})}
               PROVE  LET withheld == {i \in RowsOf({"dividend_tax"}) : rows[i].symbol = symbol}
                          currencies == {rows[i].currency : i \in withheld}
                          stated(y, c) == LET k == [symbol |-> symbol, currency |-> c] IN
                                          IF k \in DOMAIN summary[y] THEN summary[y][k] ELSE 0
                      IN (autoconvert => Cardinality(currencies) = 1) =>
                          \A c \in currencies :
                              MapThenSumSet(LAMBDA y : stated(y, c), Years)
                                = MapThenSumSet(LAMBDA i : rows[i].amount,
                                                {i \in withheld : rows[i].currency = c})
    BY DEF SummariesCountEachOnce
  <2> SUFFICES ASSUME autoconvert =>
                        Cardinality({rows[i].currency : i \in {i \in RowsOf({"dividend_tax"}) :
                                                            rows[i].symbol = symbol}}) = 1,
                      NEW c
               PROVE  MapThenSumSet(LAMBDA y : Stated(summary[y], symbol, c), Years)
                        = MapThenSumSet(LAMBDA i : rows[i].amount,
                            {i \in {i \in RowsOf({"dividend_tax"}) : rows[i].symbol = symbol} :
                                rows[i].currency = c})
    BY DEF Stated
  <2> DEFINE withheld == {i \in RowsOf({"dividend_tax"}) : rows[i].symbol = symbol}
             currencies == {rows[i].currency : i \in withheld}
             S == {i \in withheld : rows[i].currency = c}
             stated == [y \in Years |-> Stated(summary[y], symbol, c)]
             counted == [y \in Years |-> SumFunctionOnSet(RowAmount, CountedIn(y, symbol, c))]
  <2>1. RowsSound
    BY AccountRows DEF IncomeInv, Stages
  <2>2. RowsOf({"dividend_tax"}) = TaxRows
    BY DEF RowsOf, TaxRows, OfKind
  <2>3. NotMixed(symbol)
    <3> SUFFICES ASSUME autoconvert, NEW i \in TaxRows, NEW j \in TaxRows,
                        rows[i].symbol = symbol, rows[j].symbol = symbol
                 PROVE  rows[i].currency = rows[j].currency
      BY DEF NotMixed
    <3>1. i \in withheld /\ j \in withheld
      BY <2>2
    <3>2. Cardinality(currencies) = 1
      OBVIOUS
    <3>3. IsFiniteSet(currencies)
      <4>1. withheld \in SUBSET DOMAIN rows
        BY DEF RowsOf
      <4>2. IsFiniteSet(withheld)
        BY <2>1, <4>1, FS_Subset DEF RowsSound
      <4> DEFINE f == [k \in withheld |-> rows[k].currency]
      <4> HIDE DEF withheld
      <4>3. f \in Surjection(withheld, currencies)
        BY DEF Surjection
      <4> QED
        BY <4>2, <4>3, FS_Surjection
    <3>4. rows[i].currency \in currencies /\ rows[j].currency \in currencies
      BY <3>1
    <3> HIDE DEF currencies
    <3> QED
      BY <3>2, <3>3, <3>4, FS_Singleton
  <2>4. ASSUME NEW y \in Years PROVE stated[y] = counted[y]
    <3>1. SummarySound(y, summary[y])
      BY DEF IncomeInv, Results
    <3> QED
      BY <2>3, <3>1 DEF SummarySound
  <2>5. IsFiniteSet(Years)
    BY IncomeAssumption, FS_Interval DEF Years
  <2>6. MapThenSumSet(LAMBDA y : Stated(summary[y], symbol, c), Years)
          = SumFunctionOnSet(stated, Years)
    BY <2>5, SumOfStated
  <2>7. S = {i \in TaxRows : rows[i].symbol = symbol /\ rows[i].currency = c}
        /\ S \in SUBSET DOMAIN rows
    BY <2>2 DEF RowsOf
  <2>8. SumFunctionOnSet(counted, Years) = SumFunctionOnSet(RowAmount, S)
    BY <2>1, <2>7, YearsHoldEachOnce
  <2>9. MapThenSumSet(LAMBDA i : rows[i].amount, S) = SumFunctionOnSet(RowAmount, S)
    <3> HIDE DEF S
    <3> QED
      BY <2>1, <2>7, RowSums
  <2> HIDE DEF stated, counted, S
  <2>10. SumFunctionOnSet(stated, Years) = SumFunctionOnSet(counted, Years)
    BY <2>4, <2>5, SumSame
  <2> QED
    BY <2>6, <2>8, <2>9, <2>10 DEF S
<1> QED
  BY <1>1, IncomeInvariant, PTL
=============================================================================
