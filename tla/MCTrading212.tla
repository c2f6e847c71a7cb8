---------------------------- MODULE MCTrading212 ----------------------------
(***************************************************************************)
(* Trading 212 accounts and the exports made of them.  An export covers    *)
(* some days; an older one states whole seconds, one may leave identifiers *)
(* out, and one may state a reorganisation in the old single row.          *)
(***************************************************************************)
EXTENDS Trading212Properties, TLC

TicksPerDay == TicksPerSecond * SecondsPerDay
DayOf(instant) == instant \div TicksPerDay

Cells == [action |-> NoValue, instant |-> 0, id |-> NoValue, symbol |-> NoValue,
          isin |-> NoValue, quantity |-> NoValue, price |-> NoValue,
          currency |-> NoValue, rate |-> NoValue, amount |-> 0,
          moved |-> NoValue, tax |-> [amount |-> 0, currency |-> NoValue], money |-> FALSE]

Happened == [reorganisation |-> FALSE, symbol |-> NoValue, shares |-> 0, quantity |-> 0,
             cash |-> <<>>, legacy |-> {}]

(* What happened, and the rows a complete export prints of it. *)
Trade(action, symbol, quantity, price, instant, id) ==
    LET sign == IF action = "Buy" THEN 1 ELSE -1
        cash == -sign * quantity * price
    IN [Happened EXCEPT !.symbol = symbol, !.quantity = quantity,
            !.shares = sign * quantity, !.cash = (AccountCurrency :> cash)]
       @@ [instant |-> instant,
           prints |-> {[Cells EXCEPT !.action = action, !.instant = instant, !.id = id,
                            !.symbol = symbol, !.quantity = quantity, !.price = price,
                            !.currency = AccountCurrency, !.amount = quantity * price]}]

Half(action, symbol, quantity, price, instant, isin) ==
    [Cells EXCEPT !.action = action, !.instant = instant, !.symbol = symbol,
        !.quantity = quantity, !.price = price, !.amount = quantity * price,
        !.currency = AccountCurrency, !.isin = isin]

Reorganisation(symbol, before, after, ratio, first, last, old, isins) ==
    [Happened EXCEPT !.reorganisation = TRUE, !.symbol = symbol,
        !.legacy = {[Cells EXCEPT !.action = "Stock Split", !.instant = old,
                        !.symbol = symbol, !.quantity = after - before]}]
    @@ [instant |-> last, first |-> first, last |-> last, ratio |-> ratio,
        prints |-> {Half("Stock split close", symbol, before, after, first, isins[1]),
                    Half("Stock split open", symbol, after, before, last, isins[2])}]

Payment(gross, tax, currency, instant) ==
    LET net == gross - tax
        kept == IF currency \in {"GBP", "GBX"} THEN net ELSE gross
    IN [Happened EXCEPT !.symbol = "S", !.cash = (AccountCurrency :> net)]
       @@ [instant |-> instant,
           prints |-> {[Cells EXCEPT !.action = "Dividend", !.instant = instant,
                            !.symbol = "S", !.quantity = 1, !.price = net,
                            !.currency = "USD", !.amount = net,
                            !.tax = [amount |-> tax, currency |-> currency]]}]

Exchange(from, to, fee, instant) ==
    [Happened EXCEPT !.cash = (AccountCurrency :> -from - fee) @@ ("USD" :> to)]
    @@ [instant |-> instant,
        prints |-> {[Cells EXCEPT !.action = "Conversion", !.instant = instant,
                        !.amount = -fee,
                        !.moved = [from |-> from, out |-> AccountCurrency,
                                   to |-> to, in |-> "USD"]]}]

(* An export: the days it covers, whole seconds, identifiers, old splits. *)
Export(days, whole, ids, old) == [days |-> days, whole |-> whole, ids |-> ids, old |-> old]

File(history, asked) ==
    LET Shown(k) == IF asked.old THEN history[k].legacy ELSE {}
        printed == UNION {
            {[row EXCEPT !.instant = IF asked.whole THEN @ - (@ % TicksPerSecond) ELSE @,
                         !.id = IF asked.ids THEN @ ELSE NoValue]
                @@ [event |-> k] :
                row \in {row \in (IF Shown(k) = {} THEN history[k].prints ELSE Shown(k)) :
                            DayOf(row.instant) \in asked.days}} :
            k \in DOMAIN history}
    IN InOrder(printed, LAMBDA row : <<row.instant, row.event,
                            IF row.action = "Stock split open" THEN 1 ELSE 0>>)

Directory(history, exports) ==
    [history |-> history, files |-> [f \in DOMAIN exports |-> File(history, exports[f])]]

Both == {0, 1}

(* Purchases alike but for the instant and the identifier. *)
Alike(n) ==
    LET ids == <<"a", "b", NoValue, NoValue>> IN
    {[k \in 1..n |-> Trade("Buy", "S", 1, shape[k][1], shape[k][2], ids[k])] :
        shape \in [1..n -> {<<1, 0>>, <<1, 1>>, <<1, 2>>, <<2, 1>>}]}

Stating == {Export(Both, whole, ids, FALSE) : whole, ids \in BOOLEAN}

Overlaps ==
    {Directory(history, exports) : history \in Alike(3), exports \in [1..2 -> Stating]}
    \cup {Directory([k \in 1..4 |-> Trade("Buy", "S", 1, 1, k \div 2,
                        IF k = 1 THEN "a" ELSE NoValue)], exports) :
            exports \in [1..3 -> Stating]}

(* A reorganisation around midnight and one trade. *)
Midnight == TicksPerDay
Ranges == {{0}, {1}, Both}

Splits ==
    {Directory(<<Reorganisation("S", 6, 2, <<1, 3>>, first, first + gap, stated,
                                <<NoValue, "I">>),
                 Trade("Buy", "S", 1, 1, instant, "a")>>,
               <<Export(days1, whole, FALSE, FALSE), Export(days2, FALSE, TRUE, old)>>) :
        first \in {Midnight - 3, Midnight - 1}, gap \in {0, 1, 4},
        stated \in {Midnight - 9, Midnight},
        instant \in (Midnight - 4)..(Midnight + 3),
        days1 \in Ranges, days2 \in Ranges, whole \in BOOLEAN, old \in BOOLEAN}

(* Counts are rounded to two units, so each is within one of the true count; *)
(* two reorganisations within a second of each other, or a change of ISIN.    *)
Rounded(n, d) == 2 * ((n + d) \div (2 * d))
Rounding ==
    {Directory(<<Reorganisation("S", Rounded(b, 1), Rounded(b * r[1], r[2]), r, 2, 3, 3, isins),
                 Reorganisation(other, 6, 2, <<1, 3>>, 4, 5, 5, <<"I", "I">>)>>,
               <<Export(Both, FALSE, FALSE, FALSE)>>) :
        b \in 4..24, r \in {<<1, 2>>, <<2, 1>>, <<1, 3>>, <<3, 2>>}, other \in {"S", "T"},
        isins \in {<<"I", "I">>, <<"I", "J">>}}

(* Money other than trades; exports that cannot be read. *)
CashEvents == {Payment(8, 2, "USD", 2), Payment(8, 2, AccountCurrency, 2),
               Payment(8, 2, "GBP", 2), Exchange(5, 3, 1, 3), Exchange(5, 3, 0, 3)}
Odd == {[Trade("Sell", "S", 1, 0, 5, "c") EXCEPT !.quantity = 1],
        [Trade("Buy", "S", 1, 1, 5, "c") EXCEPT !.prints = {[row EXCEPT !.action = "Transfer in"] : row \in @}],
        Trade("Sell", "S", 1, 3, 5, "c")}
Cash ==
    {Directory(<<first, second, third>>, exports) :
        first, second \in CashEvents, third \in Odd, exports \in [1..2 -> Stating]}

MCDirectories == Overlaps \cup Splits \cup Rounding \cup Cash
=============================================================================
