------------------------------ MODULE MCIncome ------------------------------
(***************************************************************************)
(* Two tax years of three days in months of two, so that a month straddles *)
(* the boundary as April does; a withholding looks two days back and one   *)
(* ahead.  A dollar's worth halves every other day.  Two countries withhold *)
(* half and have a treaty, of which one relieves a quarter only; a penny is *)
(* four units, so that tax can be two off the rate and still be taken for   *)
(* it, or four off and not.                                                 *)
(***************************************************************************)
EXTENDS IncomeProperties, TLC

MCRate == [c \in {"USD", "EUR"} |-> [d \in 1..6 |-> IF c = "USD" THEN 1 + (d % 2) ELSE 2]]
MCIsinCountry == [X |-> "US", Y |-> NoValue, Z |-> "IE", F |-> "IE", P |-> "PL"]
MCCurrencyCountry == [USD |-> "US", GBP |-> NoValue, EUR |-> NoValue]
MCTreaties == [US |-> [country_rate |-> 2, treaty_rate |-> 2],
               PL |-> [country_rate |-> 2, treaty_rate |-> 1]]

Row(kind, broker, symbol, day, amount, currency) ==
    [kind |-> kind, broker |-> broker, symbol |-> symbol, day |-> day,
     amount |-> amount, currency |-> currency]
Paid(broker, symbol, day, currency) == Row("dividend", broker, symbol, day, 16, currency)
Taken(broker, symbol, day, amount, currency) ==
    Row("dividend_tax", broker, symbol, day, amount, currency)

AccountOf(list, auto) == [rows |-> SortSeq(list, LAMBDA a, b : a.day < b.day),
                          autoconvert |-> auto]
Optional(S) == {<<>>} \cup {<<x>> : x \in S}

(* Which payment a withholding, and a second or a correction of it, is of. *)
Payments == {Paid(b, "X", d, "USD") : b \in {"A", "B"}, d \in 1..6}
Withholdings ==
    {AccountOf(paid \o <<taken>> \o more, FALSE) :
        paid \in Optional(Payments)
                 \cup {pair \in Payments \X Payments : \/ pair[1].day < pair[2].day
                                                       \/ /\ pair[1].day = pair[2].day
                                                          /\ pair[1].broker = "A"
                                                          /\ pair[2].broker = "B"},
        taken \in {Taken("A", "X", d, -8, "USD") : d \in 1..6},
        more \in Optional({Taken(b, "X", d, a, "USD") :
                              b \in {"A", "B"}, d \in 3..4, a \in {-16, 8}})}

(* Payments and tax of one day, or of either side of the boundary, in two or  *)
(* three currencies.                                                          *)
Currency(symbols, currencies, amounts) ==
    UNION {{AccountOf(<<Paid("A", s, 3, c)>> \o other \o <<Taken("A", s, 3, a, d)>> \o more, auto) :
                other \in Optional({Paid("B", s, 3, o) : o \in currencies}),
                a \in amounts,
                more \in Optional({Taken("A", s, day, -8, o) :
                                        day \in {3, 4}, o \in currencies \ {d}}),
                auto \in BOOLEAN} :
           s \in symbols, c \in currencies, d \in currencies}

(* Interest and the tax on it through a month that straddles the boundary. *)
Earned == {Row(k, b, NoValue, d, 4, c) : k \in {"interest", "interest_tax"},
               b \in {"A", "B"}, d \in {1, 3, 4}, c \in {"GBP", "USD"}}
Interests ==
    {AccountOf(<<a, b>> \o more, FALSE) :
        a \in {e \in Earned : e.day = 3}, b \in Earned,
        more \in Optional({e \in Earned : e.kind = "interest"})}

(* A dividend, interest and a row that is passed over or refused. *)
Stopping ==
    {AccountOf(<<Paid("A", s, 2, "USD"), Row("interest", "A", NoValue, 1, 4, "GBP"),
                 Row(k, "A", NoValue, d, 0, "GBP")>>, FALSE) :
        s \in {"X", "F"}, k \in {"other", "refused"}, d \in {1, 3}}

(* Tax at a treaty's rate, and short of it by less than a penny or by one. *)
MCIncomes == Withholdings \cup Currency({"X"}, {"USD", "GBP", "EUR"}, {-8})
             \cup Currency({"Y", "Z", "F"}, {"USD", "GBP"}, {-8})
             \cup Currency({"X", "P"}, {"USD", "GBP"}, {-6, -4})
             \cup Interests \cup Stopping
=============================================================================
