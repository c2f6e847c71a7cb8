------------------------------- MODULE Income -------------------------------
(***************************************************************************)
(* Dividends, the tax withheld from them, and interest: what the first     *)
(* pass records of them, how each withholding is attributed to a payment,  *)
(* and what the report of a tax year says.  A calculator covers one tax    *)
(* year, so an account is calculated once a year, each time over its whole *)
(* history.  Its two methods are a protocol of their own: the first pass   *)
(* runs once, the calculation only after it completed and then as often as *)
(* the caller likes; either may stop half way.                             *)
(*                                                                         *)
(* Money is exact: amounts are multiples of every rate.                    *)
(***************************************************************************)
EXTENDS Integers, Sequences, FiniteSets, FiniteSetsExt

CONSTANTS Accounts,            \* accounts: [rows, autoconvert], rows by date
          LastYear,            \* tax years are 1..LastYear
          DaysInYear, DaysInMonth,
          DIVIDEND_TAX_MATCH_DAYS, DIVIDEND_TAX_LEAD_DAYS,
          Rate,                \* Rate[c][d]: units of c for one pound on day d
          IsinCountry,         \* the country of each symbol's ISIN, or NoValue
          CurrencyCountry,     \* DIVIDEND_CURRENCY_TO_COUNTRY, or NoValue
          DIVIDEND_DOUBLE_TAXATION_RULES,  \* [country_rate, treaty_rate] by country
          Parts,               \* a rate is so many of these parts of a whole
          Penny,               \* two amounts less than this apart are approx_equal
          InterestFunds,       \* interest_fund_tickers
          NoValue

ASSUME IncomeAssumption ==
    /\ LastYear \in Nat \ {0} /\ DaysInYear \in Nat \ {0} /\ DaysInMonth \in Nat \ {0}
    /\ DIVIDEND_TAX_MATCH_DAYS \in Nat /\ DIVIDEND_TAX_LEAD_DAYS \in Nat

(* A country withholds tax at its own rate, and a treaty relieves at its,   *)
(* which is no higher.                                                      *)
TreatyCountries == DOMAIN DIVIDEND_DOUBLE_TAXATION_RULES
ASSUME TreatyAssumption ==
    /\ Parts \in Nat \ {0} /\ Penny \in Nat \ {0}
    /\ NoValue \notin TreatyCountries
    /\ \A country \in TreatyCountries :
        LET treaty == DIVIDEND_DOUBLE_TAXATION_RULES[country] IN
        /\ treaty.country_rate \in Nat /\ treaty.treaty_rate \in Nat
        /\ treaty.treaty_rate <= treaty.country_rate

UK_CURRENCY == "GBP"
Years == 1..LastYear
Days == 1..(LastYear * DaysInYear)

(* An account is a list of rows, dated within the years and each in a         *)
(* currency; a rate is positive, and an amount is a multiple of its rates.    *)
ASSUME AccountsAssumption ==
    \A a \in Accounts :
        /\ a.autoconvert \in BOOLEAN
        /\ Len(a.rows) \in Nat /\ DOMAIN a.rows = 1..Len(a.rows)
        /\ \A i \in DOMAIN a.rows :
            /\ a.rows[i].day \in Days /\ a.rows[i].amount \in Int
            /\ a.rows[i].currency # NoValue
            /\ a.rows[i].currency # UK_CURRENCY => \A day \in Days :
                /\ Rate[a.rows[i].currency][day] \in Nat \ {0}
                /\ a.rows[i].amount % Rate[a.rows[i].currency][day] = 0

YearOf(day) == ((day - 1) \div DaysInYear) + 1

VARIABLES account,      \* the transactions and --autoconvert-currency
          year,         \* the tax year of this calculator
          next,         \* the row the first pass reads next, or 0
          history,      \* what the first pass recorded
          attribution,  \* _attributed_dividend_tax
          run,          \* RunState
          pending,      \* the dividends a calculation has left, or NoValue
          warned,       \* by year, the withholdings warned about
          summary,      \* by year, the tax the first pass's summary states
          reports       \* by year, the last report

incomeVars == <<account, year, next, history, attribution, run, pending,
                warned, summary, reports>>

rows == account.rows
autoconvert == account.autoconvert
InTaxYear(day) == YearOf(day) = year

EmptyHistory == [dividend_list |-> <<>>, dividend_dates |-> {},
                 dividend_tax_list |-> <<>>, interest_list |-> <<>>,
                 interest_tax_list |-> <<>>]

EmptyRun == [ingestion_started |-> FALSE, ingested |-> FALSE,
             total_uk_interest |-> 0, total_foreign_interest |-> 0,
             total_interest_tax |-> 0, calculation_log_yields |-> {}]

IncomeInit ==
    /\ account \in Accounts
    /\ year = 1
    /\ next = 0
    /\ history = EmptyHistory
    /\ attribution = NoValue
    /\ run = EmptyRun
    /\ pending = NoValue
    /\ warned = [y \in Years |-> {}]
    /\ summary = [y \in Years |-> NoValue]
    /\ reports = [y \in Years |-> NoValue]

-----------------------------------------------------------------------------
(* Amounts in a currency.                                                  *)

NoMoney == [amount |-> 0, currency |-> NoValue]
Money(amount, currency) == [amount |-> amount, currency |-> currency]

ToGbp(amount, currency, day) ==
    IF currency = UK_CURRENCY THEN amount ELSE amount \div Rate[currency][day]

Differ(a, b) == NoValue \notin {a.currency, b.currency} /\ a.currency # b.currency

Combinable(a, b) == Differ(a, b) => autoconvert /\ UK_CURRENCY \in {a.currency, b.currency}

(* The rate service is asked, and may not answer. *)
NeedsRate(a, b) == Differ(a, b) /\ Combinable(a, b)

Combined(a, b, day) ==
    LET foreign == IF a.currency = UK_CURRENCY THEN b ELSE a
        sterling == IF a.currency = UK_CURRENCY THEN a ELSE b
    IN IF Differ(a, b)
       THEN Money(foreign.amount + (sterling.amount * Rate[foreign.currency][day]),
                  foreign.currency)
       ELSE Money(a.amount + b.amount,
                  IF a.currency = NoValue THEN b.currency ELSE a.currency)

At(log, key) == IF key \in DOMAIN log THEN log[key] ELSE NoMoney
Put(log, key, value) == [k \in DOMAIN log \cup {key} |-> IF k = key THEN value ELSE log[k]]
Add(log, key, money) == Put(log, key, Combined(At(log, key), money, 1))

-----------------------------------------------------------------------------
(* The first pass.                                                         *)

BeginFirstPass ==
    /\ ~run.ingestion_started
    /\ run' = [run EXCEPT !.ingestion_started = TRUE]
    /\ next' = 1
    /\ UNCHANGED <<account, year, history, attribution, pending, warned, summary, reports>>

Reading(kinds) ==
    /\ next \in DOMAIN rows
    /\ rows[next].kind \in kinds

RecordedAs(log) ==
    /\ history' = log
    /\ next' = next + 1
    /\ UNCHANGED <<account, year, attribution, run, pending, warned, summary, reports>>

DividendKey(r) == [symbol |-> r.symbol, day |-> r.day]

(* No currency and no set of dividends is taken for the absence of one. *)
ASSUME NoValueAssumption ==
    /\ UK_CURRENCY # NoValue
    /\ \A a \in Accounts :
        ~\E S \in SUBSET {DividendKey(a.rows[i]) : i \in DOMAIN a.rows} : S = NoValue

PaidBefore(r) == At(history.dividend_list, DividendKey(r))
RowMoney(r) == Money(r.amount, r.currency)

(* DIVIDEND and CAPITAL_GAIN. *)
RecordDividend ==
    /\ Reading({"dividend"})
    /\ LET r == rows[next] IN
       /\ Combinable(PaidBefore(r), RowMoney(r))
       /\ RecordedAs([history EXCEPT
            !.dividend_list = Put(@, DividendKey(r),
                                  Combined(PaidBefore(r), RowMoney(r), r.day)),
            !.dividend_dates = @ \cup {[broker |-> r.broker, symbol |-> r.symbol,
                                        day |-> r.day]}])

TaxKey(r) == [broker |-> r.broker, symbol |-> r.symbol, day |-> r.day,
              currency |-> r.currency]

RecordDividendTax ==
    /\ Reading({"dividend_tax"})
    /\ LET r == rows[next] IN
       RecordedAs([history EXCEPT !.dividend_tax_list = Add(@, TaxKey(r), RowMoney(r))])

InterestKey(r) == [broker |-> r.broker, day |-> r.day, currency |-> r.currency]

RecordInterest ==
    /\ Reading({"interest", "interest_tax"})
    /\ LET r == rows[next] IN
       RecordedAs(IF r.kind = "interest"
                THEN [history EXCEPT !.interest_list = Add(@, InterestKey(r), RowMoney(r))]
                ELSE [history EXCEPT !.interest_tax_list = Add(@, InterestKey(r), RowMoney(r))])

(* A row of another kind, whose handler leaves income alone. *)
RecordOther == Reading({"other"}) /\ RecordedAs(history)

(* A payment on the day of the withholding is not in doubt; otherwise every *)
(* payment of that broker in the window is a candidate.                     *)
DividendsForTax_OfTheYear(key) ==
    LET dates == {d.day : d \in {d \in history.dividend_dates :
                                    /\ d.broker = key.broker /\ d.symbol = key.symbol
                                    /\ InTaxYear(d.day)}}
    IN IF key.day \in dates THEN {key.day}
       ELSE {d \in dates : d \in (key.day - DIVIDEND_TAX_MATCH_DAYS)..
                                 (key.day + DIVIDEND_TAX_LEAD_DAYS)}
DividendsForTax(key) ==
    LET dates == {d.day : d \in {d \in history.dividend_dates :
                                    d.broker = key.broker /\ d.symbol = key.symbol}}
    IN IF key.day \in dates THEN {key.day}
       ELSE {d \in dates : d \in (key.day - DIVIDEND_TAX_MATCH_DAYS)..
                                 (key.day + DIVIDEND_TAX_LEAD_DAYS)}

Withheld == {key \in DOMAIN history.dividend_tax_list :
                history.dividend_tax_list[key].amount # 0}

(* Where each withholding is counted: on its one payment, or on itself. *)
Carrier(key) ==
    LET candidates == DividendsForTax(key)
    IN [symbol |-> key.symbol,
        day |-> IF Cardinality(candidates) = 1 THEN CHOOSE d \in candidates : TRUE
                ELSE key.day]
Matched == {key \in Withheld : Cardinality(DividendsForTax(key)) = 1}

CurrenciesOf(keys) == {key.currency : key \in keys}
OnCarrier(keys, carrier) == {key \in keys : Carrier(key) = carrier}

(* The currencies that meet on one carrier are all one, or pounds and one   *)
(* other when that is converted.                                            *)
Attributable(keys) ==
    \A carrier \in {Carrier(key) : key \in keys} :
        Cardinality(CurrenciesOf(OnCarrier(keys, carrier))
                    \ (IF autoconvert THEN {UK_CURRENCY} ELSE {})) <= 1

RatesAskedFor(keys) ==
    \E carrier \in {Carrier(key) : key \in keys} :
        Cardinality(CurrenciesOf(OnCarrier(keys, carrier))) > 1

(* The sum on each carrier, in the foreign currency if there is one. *)
SumOn(keys) ==
    [carrier \in {Carrier(key) : key \in keys} |->
        LET here == OnCarrier(keys, carrier)
            foreign == CurrenciesOf(here) \ {UK_CURRENCY}
            currency == IF foreign = {} THEN UK_CURRENCY ELSE CHOOSE c \in foreign : TRUE
            In(key) == LET amount == history.dividend_tax_list[key].amount IN
                       IF key.currency = currency THEN amount
                       ELSE amount * Rate[currency][carrier.day]
        IN Money(MapThenSumSet(In, here), currency)]

AttributionOf_DropsUnmatched == [matched |-> SumOn(Matched), unmatched |-> <<>>]
AttributionOf == [matched |-> SumOn(Matched), unmatched |-> SumOn(Withheld \ Matched)]

(* The tax of the year by symbol and currency, dated as it is attributed. *)
TaxOfTheYear(attributed) ==
    LET lines(log) == {c \in DOMAIN log : InTaxYear(c.day)}
        of(log, s, cur) == {c \in lines(log) : c.symbol = s /\ log[c].currency = cur}
        total(log, s, cur) == MapThenSumSet(LAMBDA c : log[c].amount, of(log, s, cur))
        keys == UNION {{[symbol |-> c.symbol, currency |-> log[c].currency] :
                            c \in lines(log)} :
                       log \in {attributed.matched, attributed.unmatched}}
    IN [k \in keys |-> total(attributed.matched, k.symbol, k.currency)
                       + total(attributed.unmatched, k.symbol, k.currency)]

(* A year hears of a withholding left out of it, or of one of its payments. *)
LeftOut ==
    {key \in Withheld \ Matched :
        \E day \in {key.day} \cup DividendsForTax(key) : InTaxYear(day)}

FinishFirstPass ==
    /\ next = Len(rows) + 1
    /\ ~run.ingested
    /\ Attributable(Matched) /\ Attributable(Withheld \ Matched)
    /\ attribution' = AttributionOf
    /\ warned' = [warned EXCEPT ![year] = LeftOut]
    /\ summary' = [summary EXCEPT ![year] = TaxOfTheYear(AttributionOf)]
    /\ run' = [run EXCEPT !.ingested = TRUE]
    /\ UNCHANGED <<account, year, next, history, pending, reports>>

(* A row is refused, or a rate it needs cannot be had. *)
RowStops ==
    /\ next \in DOMAIN rows
    /\ LET r == rows[next] IN
       \/ r.kind = "refused"
       \/ /\ r.kind = "dividend"
          /\ \/ ~Combinable(PaidBefore(r), RowMoney(r))
             \/ NeedsRate(PaidBefore(r), RowMoney(r))

AttributionStops ==
    /\ next = Len(rows) + 1
    /\ ~run.ingested
    /\ \E keys \in {Matched, Withheld \ Matched} :
            ~Attributable(keys) \/ RatesAskedFor(keys)

FirstPassStops ==
    /\ RowStops \/ AttributionStops
    /\ next' = 0
    /\ UNCHANGED <<account, year, history, attribution, run, pending, warned, summary, reports>>

-----------------------------------------------------------------------------
(* The calculation.                                                        *)

Reset_KeepsInterest(r) ==
    [EmptyRun EXCEPT !.ingestion_started = r.ingestion_started, !.ingested = r.ingested,
                     !.total_foreign_interest = r.total_foreign_interest]
Reset(r) == [EmptyRun EXCEPT !.ingestion_started = r.ingestion_started,
                             !.ingested = r.ingested]

CalculateCapitalGain ==
    /\ run.ingested
    /\ pending = NoValue
    /\ run' = Reset(run)
    /\ pending' = DOMAIN history.dividend_list
    /\ UNCHANGED <<account, year, next, history, attribution, warned, summary, reports>>

SourceCountry(symbol, currency) ==
    IF IsinCountry[symbol] # NoValue THEN IsinCountry[symbol] ELSE CurrencyCountry[currency]

TaxOn(key) == At(attribution.matched, key)
TaxCurrency(key) ==
    LET tax == TaxOn(key) IN
    IF tax.currency = NoValue THEN history.dividend_list[key].currency ELSE tax.currency

CurrenciesMatch(key) ==
    LET tax == TaxOn(key)
        payment == history.dividend_list[key]
    IN (tax.amount # 0 /\ TaxCurrency(key) # payment.currency) =>
            autoconvert /\ UK_CURRENCY \in {payment.currency, TaxCurrency(key)}

(* Counts of Parts of the unit amounts are counted in. *)
approx_equal(a, b) == a - b \in (1 - (Parts * Penny))..((Parts * Penny) - 1)

TreatyFor(key) ==
    DIVIDEND_DOUBLE_TAXATION_RULES[
        SourceCountry(key.symbol, history.dividend_list[key].currency)]

(* Double taxation relief, where the tax is the country's own to the penny: *)
(* of the currency both are in, or else of the pound.                       *)
UnderTreaty_NotConverted(key) ==
    LET tax == TaxOn(key)
        payment == history.dividend_list[key]
    IN /\ tax.amount < 0
       /\ key.symbol \notin InterestFunds
       /\ SourceCountry(key.symbol, payment.currency) \in TreatyCountries
       /\ approx_equal(TreatyFor(key).country_rate * (-payment.amount), Parts * tax.amount)
UnderTreaty(key) ==
    LET tax == TaxOn(key)
        payment == history.dividend_list[key]
        mixed == TaxCurrency(key) # payment.currency
        In(amount, currency) == IF mixed THEN ToGbp(amount, currency, key.day) ELSE amount
    IN /\ tax.amount < 0
       /\ key.symbol \notin InterestFunds
       /\ SourceCountry(key.symbol, payment.currency) \in TreatyCountries
       /\ approx_equal(TreatyFor(key).country_rate * In(-payment.amount, payment.currency),
                       Parts * In(tax.amount, TaxCurrency(key)))

(* The relief is the treaty's part of the payment, in Parts of a unit. *)
DividendEntry(key) ==
    LET payment == history.dividend_list[key]
        amount == ToGbp(payment.amount, payment.currency, key.day)
    IN [symbol |-> key.symbol, day |-> key.day, amount |-> amount,
        tax_at_source |-> ToGbp(TaxOn(key).amount, TaxCurrency(key), key.day),
        is_interest |-> key.symbol \in InterestFunds,
        tax_treaty_amount |-> IF UnderTreaty(key) THEN TreatyFor(key).treaty_rate * amount
                              ELSE 0]

(* A payment outside the year is passed over. *)
ProcessDividend(key) ==
    /\ pending # NoValue
    /\ key \in pending
    /\ \A other \in pending : key.day <= other.day
    /\ pending' = pending \ {key}
    /\ IF InTaxYear(key.day)
       THEN /\ CurrenciesMatch(key)
            /\ run' = [run EXCEPT
                 !.calculation_log_yields = @ \cup {DividendEntry(key)},
                 !.total_foreign_interest =
                     @ + (IF key.symbol \in InterestFunds
                          THEN DividendEntry(key).amount ELSE 0)]
       ELSE UNCHANGED run
    /\ UNCHANGED <<account, year, next, history, attribution, warned, summary, reports>>

InterestMonth(day) == (day - 1) \div DaysInMonth

(* A month's interest at one broker, in pounds at its last day's rate. *)
GroupByMonth(log) ==
    LET ours == {key \in DOMAIN log : InTaxYear(key.day)}
        SameMonth(key) == {o \in ours : /\ o.broker = key.broker
                                        /\ o.currency = key.currency
                                        /\ InterestMonth(o.day) = InterestMonth(key.day)}
        lasts == {key \in ours : \A o \in SameMonth(key) : o.day <= key.day}
    IN {[key |-> key, amount |-> MapThenSumSet(LAMBDA o : log[o].amount, SameMonth(key))] :
            key \in lasts}

InPounds(groups) ==
    MapThenSumSet(LAMBDA g : ToGbp(g.amount, g.key.currency, g.key.day), groups)

WithInterests(r, monthly, monthly_taxes) ==
    LET uk == {g \in monthly : g.key.currency = UK_CURRENCY} IN
    [r EXCEPT !.total_uk_interest = @ + InPounds(uk),
              !.total_foreign_interest = @ + InPounds(monthly \ uk),
              !.total_interest_tax = @ - InPounds(monthly_taxes)]

ProcessInterests(r) ==
    WithInterests(r, GroupByMonth(history.interest_list),
                  GroupByMonth(history.interest_tax_list))

(* What the CapitalGainsReport says of income. *)
ReportOf(r) ==
    LET dividends == {e \in r.calculation_log_yields : ~e.is_interest} IN
    [entries |-> r.calculation_log_yields,
     dividends |-> MapThenSumSet(LAMBDA e : e.amount, dividends),
     relief |-> MapThenSumSet(LAMBDA e : e.tax_treaty_amount, dividends),
     uk_interest |-> r.total_uk_interest,
     foreign_interest |-> r.total_foreign_interest,
     interest_tax |-> r.total_interest_tax]

FinishCalculation ==
    /\ pending = {}
    /\ run' = ProcessInterests(run)
    /\ reports' = [reports EXCEPT ![year] = ReportOf(run')]
    /\ pending' = NoValue
    /\ UNCHANGED <<account, year, next, history, attribution, warned, summary>>

(* The currencies cannot be put together, or a rate cannot be had. *)
DividendStops(key) ==
    /\ InTaxYear(key.day)
    /\ \/ ~CurrenciesMatch(key)
       \/ {history.dividend_list[key].currency, TaxCurrency(key)} # {UK_CURRENCY}

DividendsStop ==
    /\ \E key \in pending :
          (\A other \in pending : key.day <= other.day) /\ DividendStops(key)
    /\ UNCHANGED run

(* Some of the months before the one whose rate cannot be had are counted. *)
InterestStops ==
    LET monthly == GroupByMonth(history.interest_list)
        taxes == GroupByMonth(history.interest_tax_list)
        Foreign(groups) == {g \in groups : g.key.currency # UK_CURRENCY}
    IN /\ pending = {}
       /\ \/ \E g \in Foreign(monthly), done \in SUBSET monthly :
                g \notin done /\ run' = WithInterests(run, done, {})
          \/ \E g \in Foreign(taxes), done \in SUBSET taxes :
                g \notin done /\ run' = WithInterests(run, monthly, done)

CalculationStops ==
    /\ pending # NoValue
    /\ DividendsStop \/ InterestStops
    /\ pending' = NoValue
    /\ UNCHANGED <<account, year, next, history, attribution, warned, summary, reports>>

-----------------------------------------------------------------------------
(* The next year's calculator reads the same account from nothing. *)
NextYear ==
    /\ year < LastYear
    /\ pending = NoValue
    /\ run.ingestion_started
    /\ next = 0 \/ run.ingested
    /\ year' = year + 1
    /\ next' = 0
    /\ history' = EmptyHistory
    /\ attribution' = NoValue
    /\ run' = EmptyRun
    /\ UNCHANGED <<account, pending, warned, summary, reports>>

IncomeNext ==
    \/ BeginFirstPass
    \/ RecordDividend \/ RecordDividendTax \/ RecordInterest \/ RecordOther
    \/ FinishFirstPass \/ FirstPassStops
    \/ CalculateCapitalGain
    \/ pending # NoValue /\ \E key \in pending : ProcessDividend(key)
    \/ FinishCalculation \/ CalculationStops
    \/ NextYear

IncomeSpec == IncomeInit /\ [][IncomeNext]_incomeVars
=============================================================================
