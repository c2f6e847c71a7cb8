------------------------------ MODULE MCSchwab -------------------------------
(***************************************************************************)
(* Families of Schwab accounts, newest first, one for each thing the       *)
(* export writes in several rows.                                          *)
(***************************************************************************)
EXTENDS SchwabProperties

MCSymbols == {"S"}

ExportRow(label, symbol, contract, quantity, price, amount) ==
    [label |-> label, symbol |-> symbol, contract |-> contract,
     quantity |-> quantity, price |-> price, amount |-> amount, cash |-> TRUE]

Stock(label, quantity, price, amount) == ExportRow(label, "S", Missing, quantity, price, amount)

(* Days newest first. *)
Calendars(n, last) ==
    {c \in [1..n -> 1..last] : \A i \in 1..(n - 1) : c[i] >= c[i + 1]}

Dated(list, calendar) ==
    [i \in DOMAIN list |-> list[i] @@ [id |-> i, posted |-> calendar[i], day |-> calendar[i]]]

Family(entries, n, calendars) ==
    {Dated(list, calendar) : list \in [1..n -> entries], calendar \in calendars}

Buy == Stock("Buy", 1, 3, -3)
Cancellations ==
    Family({Buy, Stock("Cancel Buy", 1, 3, 3), Stock("Buy", 2, 3, -6)}, 4,
           Calendars(4, 4))

Halves ==
    Family({Stock("Cash Merger", Missing, Missing, 8),
            Stock("Cash Merger Adj", -2, Missing, Missing),
            Stock("Full Redemption Adj", Missing, Missing, 8),
            Stock("Full Redemption", -2, Missing, Missing)}, 4, Calendars(4, 2))

(* Awards are priced on the given days. *)
Vests ==
    Family({Stock("Stock Plan Activity", 1, Missing, Missing),
            Stock("Stock Split", 1, Missing, Missing),
            Stock("Exercised", 1, 3, -3)}, 2, Calendars(2, 4))

Call == [underlying |-> "S", strike |-> 2, call |-> TRUE, expiry |-> 1]
Later == [Call EXCEPT !.expiry = 2]
Option(label, contract, quantity, price, amount) ==
    ExportRow(label, Missing, contract, quantity, price, amount)

Grants == {Option("Sell to Open", Call, q, 1, 2 * q) : q \in {1, 2}}
Ends == {Option("Buy to Close", Call, 2, 1, -4), Option("Expired", Call, 1, Missing, Missing),
         Option("Assigned", Call, 1, Missing, Missing)}
Deliveries == {Stock("Sell", 2, 2, 4), Stock("Sell", 2, 2, 5)}

(* An account begins, last in the export, with a grant. *)
Lifecycles(n, entries, calendars) ==
    {Dated(Append(list, first), calendar) :
        list \in [1..(n - 1) -> entries], first \in Grants, calendar \in calendars}

TwoSeries ==
    Lifecycles(5, {Option("Sell to Open", Later, 1, 1, 2),
                   Option("Assigned", Call, 1, Missing, Missing),
                   Option("Assigned", Later, 1, Missing, Missing),
                   Stock("Sell", 2, 2, 4)},
               {<<3, 3, 2, 1, 1>>, <<4, 3, 2, 1, 1>>, <<4, 2, 2, 2, 1>>, <<3, 2, 1, 1, 1>>})

MCAccounts ==
    Cancellations \cup Halves \cup Vests
    \cup Lifecycles(4, Grants \cup Ends \cup Deliveries, Calendars(4, 3))
    \cup TwoSeries

NoAwards == [kind |-> "none", days |-> {}]
MCAwardFiles(list) ==
    IF \E i \in DOMAIN list : list[i].label = "Stock Plan Activity"
    THEN {NoAwards, [kind |-> "prices", days |-> {1, 2}],
          [kind |-> "lapses", days |-> {1, 3}], [kind |-> "complete", days |-> {}]}
    ELSE {NoAwards}
=============================================================================
