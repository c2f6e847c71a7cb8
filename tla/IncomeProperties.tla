-------------------------- MODULE IncomeProperties --------------------------
(***************************************************************************)
(* What the reports and the summaries of an account's years come to, read  *)
(* off its rows alone.                                                     *)
(***************************************************************************)
EXTENDS Income

RowsOf(kinds) == {i \in DOMAIN rows : rows[i].kind \in kinds}
Pounds(i, day) == ToGbp(rows[i].amount, rows[i].currency, day)

(* The payments a withholding row could have been taken from. *)
PaymentDays(i) ==
    LET t == rows[i]
        days == {rows[j].day : j \in {j \in RowsOf({"dividend"}) :
                                        /\ rows[j].broker = t.broker
                                        /\ rows[j].symbol = t.symbol}}
    IN IF t.day \in days THEN {t.day}
       ELSE {d \in days : d - t.day \in
                (-DIVIDEND_TAX_MATCH_DAYS)..DIVIDEND_TAX_LEAD_DAYS}

TakenFrom(symbol, day) ==
    {i \in RowsOf({"dividend_tax"}) : rows[i].symbol = symbol /\ PaymentDays(i) = {day}}

(* What one broker withheld of one holding in one day and currency, net. *)
NetWithheld(i) ==
    MapThenSumSet(LAMBDA j : rows[j].amount,
                  {j \in RowsOf({"dividend_tax"}) : TaxKey(rows[j]) = TaxKey(rows[i])})

(* Over consecutive years a withholding with one payment it could have been   *)
(* taken from is counted once, on that payment and so in its year; one with   *)
(* none or several is counted in none, and every year that holds the tax or   *)
(* such a payment is told (_attribute_dividend_tax, _warn_unattributed).      *)
WithholdingInOneYear ==
    /\ \A y \in Years : reports[y] # NoValue =>
        /\ {<<e.symbol, e.day>> : e \in reports[y].entries}
             = {<<rows[i].symbol, rows[i].day>> :
                    i \in {i \in RowsOf({"dividend"}) : YearOf(rows[i].day) = y}}
        /\ \A e \in reports[y].entries :
             e.tax_at_source = MapThenSumSet(LAMBDA i : Pounds(i, e.day),
                                             TakenFrom(e.symbol, e.day))
    /\ \A i \in RowsOf({"dividend_tax"}) :
        (Cardinality(PaymentDays(i)) # 1 /\ NetWithheld(i) # 0) =>
            \A day \in {rows[i].day} \cup PaymentDays(i) :
                summary[YearOf(day)] # NoValue => TaxKey(rows[i]) \in warned[YearOf(day)]

(* The summaries of consecutive years state every withholding once between    *)
(* them, matched or not: nothing taken near 5 April falls between two years   *)
(* or into both (ingestion.py, the attribution the summary reads).            *)
SummariesCountEachOnce ==
    (\A y \in Years : summary[y] # NoValue) =>
        \A symbol \in {rows[i].symbol : i \in RowsOf({"dividend_tax"})} :
            LET withheld == {i \in RowsOf({"dividend_tax"}) : rows[i].symbol = symbol}
                currencies == {rows[i].currency : i \in withheld}
                stated(y, c) == LET k == [symbol |-> symbol, currency |-> c] IN
                                IF k \in DOMAIN summary[y] THEN summary[y][k] ELSE 0
            IN (autoconvert => Cardinality(currencies) = 1) =>
                \A c \in currencies :
                    MapThenSumSet(LAMBDA y : stated(y, c), Years)
                      = MapThenSumSet(LAMBDA i : rows[i].amount,
                                      {i \in withheld : rows[i].currency = c})

(* The last day its broker paid interest in that currency and month. *)
MonthEnd(i) ==
    Max({rows[j].day : j \in {j \in RowsOf({rows[i].kind}) :
            /\ rows[j].broker = rows[i].broker /\ rows[j].currency = rows[i].currency
            /\ InterestMonth(rows[j].day) = InterestMonth(rows[i].day)
            /\ YearOf(rows[j].day) = YearOf(rows[i].day)}})

(* A report is of the whole history and of nothing else: its totals are those *)
(* of every row of the year, whatever stopped before it, however often it was *)
(* calculated again (main.prepare_history, RunState.reset), and no report     *)
(* comes of a first pass that did not finish.                                 *)
ReportMatchesRows ==
    \A y \in Years : reports[y] # NoValue =>
        LET Ours(kinds) == {i \in RowsOf(kinds) : YearOf(rows[i].day) = y}
            paid == Ours({"dividend"})
            onFunds == {i \in paid : rows[i].symbol \in InterestFunds}
            earned == Ours({"interest"})
            inPounds == {i \in earned : rows[i].currency = UK_CURRENCY}
            OnDay(S) == MapThenSumSet(LAMBDA i : Pounds(i, rows[i].day), S)
            AtMonthEnd(S) == MapThenSumSet(LAMBDA i : Pounds(i, MonthEnd(i)), S)
        IN /\ RowsOf({"refused"}) = {}
           /\ reports[y].dividends = OnDay(paid \ onFunds)
           /\ reports[y].uk_interest = AtMonthEnd(inPounds)
           /\ reports[y].foreign_interest = AtMonthEnd(earned \ inPounds) + OnDay(onFunds)
           /\ reports[y].interest_tax = -AtMonthEnd(Ours({"interest_tax"}))

PaidOn(symbol, day) ==
    {i \in RowsOf({"dividend"}) : rows[i].symbol = symbol /\ rows[i].day = day}
CurrenciesIn(S) == {rows[i].currency : i \in S}
UnitsOf(currency, day) == IF currency = UK_CURRENCY THEN 1 ELSE Rate[currency][day]

(* Relief is claimed only on a payment its ISIN, or failing that a currency   *)
(* it was paid in, places in a treaty country, and comes to less than a penny *)
(* more than the rows withheld from that payment: a penny of a currency it    *)
(* was paid or withheld in, for that far the comparison with the tax goes     *)
(* (process_dividends, approx_equal).                                         *)
ReliefIsWithheld ==
    \A y \in Years : reports[y] # NoValue =>
        \A e \in reports[y].entries : e.tax_treaty_amount > 0 =>
            LET paid == PaidOn(e.symbol, e.day)
                taken == TakenFrom(e.symbol, e.day)
                withheld == -MapThenSumSet(LAMBDA i : Pounds(i, e.day), taken)
                excess == e.tax_treaty_amount - (Parts * withheld)
            IN /\ \/ IsinCountry[e.symbol] \in TreatyCountries
                  \/ /\ IsinCountry[e.symbol] = NoValue
                     /\ \E c \in CurrenciesIn(paid) : CurrencyCountry[c] \in TreatyCountries
               /\ \E c \in CurrenciesIn(paid \cup taken) :
                     excess * UnitsOf(c, e.day) < Parts * Penny
=============================================================================
