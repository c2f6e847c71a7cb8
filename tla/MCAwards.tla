------------------------------ MODULE MCAwards -------------------------------
(***************************************************************************)
(* Equity awards exports of three rows, printed from what really happened: *)
(* Schwab restates acquisitions and leaves disposals alone, or restates    *)
(* some records and not others, and rounds some counts.                    *)
(***************************************************************************)
EXTENDS AwardProperties

Days == 1..3
FirstSplit == [effective |-> 2, ratio |-> 2]
SecondSplit == [effective |-> 3, ratio |-> 4]
AwardSplits == {FirstSplit, SecondSplit}

M(day) == Multiplier(AwardSplits, day)

Plain == [quantity |-> 0, amount |-> Blank, fees |-> 0, lots |-> <<>>, price |-> Blank,
          deposited |-> Blank, withheld |-> Blank, sold |-> Blank, method |-> FALSE,
          truth |-> 0, money |-> 0, twice |-> FALSE]

(* A row of "count" shares in today's units, each worth "worth", printed in *)
(* units "factor" times larger than today's.                                *)
Event(action, day, count, worth) ==
    [action |-> action, day |-> day] @@ [Plain EXCEPT !.truth = count, !.money = count * worth]

Lot(shares, price) == [shares |-> shares, price |-> price]

SalesOf(day, count, worth, factor, fees) ==
    LET printed == count \div factor
        price == worth * factor
        rounded == printed - (printed % WholeShare)
        e == [Event("Sale", day, count, worth) EXCEPT
                !.fees = fees, !.amount = count * worth - fees,
                !.twice = (factor # M(day))]
    IN {[e EXCEPT !.quantity = printed, !.lots = <<Lot(printed, price)>>],
        [e EXCEPT !.quantity = printed, !.lots = <<Lot(Blank, price)>>],
        [e EXCEPT !.quantity = rounded, !.lots = <<Lot(printed, price)>>],
        [e EXCEPT !.quantity = rounded, !.lots = <<Lot(0, price), Lot(rounded, price)>>],
        [e EXCEPT !.quantity = rounded, !.lots = <<Lot(Blank, price)>>],
        [e EXCEPT !.quantity = printed, !.lots = <<Lot(1, price), Lot(printed - 1, price + 1)>>,
                  !.amount = @ + printed - 1, !.money = @ + printed - 1],
        [e EXCEPT !.quantity = printed, !.lots = <<Lot(-1, price)>>]}

Gift(day, count, factor) ==
    [Event("Gift", day, count, 0) EXCEPT !.quantity = count \div factor, !.amount = 0,
        !.twice = (factor # M(day))]

Vest(day, count, worth, factor) ==
    [Event("Vest", day, count, worth) EXCEPT !.quantity = count \div factor,
                                             !.price = worth * factor]

(* Of what was bought or lapsed, in the units of the day, some goes to tax. *)
Purchase(day, deposited, tax, worth) ==
    [Event("ESPP", day, deposited * M(day), worth) EXCEPT
        !.quantity = (deposited + tax) * M(day), !.price = worth,
        !.deposited = deposited, !.withheld = tax]

NetPurchase(day, count, worth) ==
    [Event("ESPP", day, count, worth) EXCEPT !.quantity = count, !.price = worth]

Lapse(day, deposited, tax) ==
    [Event("Lapse", day, 0, 0) EXCEPT !.quantity = (deposited + tax) * M(day),
                                      !.deposited = deposited, !.withheld = tax]

CashDividend(day) == [Event("Dividend", day, 0, 0) EXCEPT !.amount = 5]

Rows(R(_), S(_), T(_)) ==
    UNION {{<<r, s, t>> : r \in R(c[1]), s \in S(c[2]), t \in T(c[3])} : c \in [1..3 -> Days]}

AwardExport(list, restatement, table) ==
    [rows |-> list, restatement |-> restatement, table |-> table, actual |-> AwardSplits]

(* The table is right, misses the last split, or dates it a day late. *)
Tables == {AwardSplits, {FirstSplit}, {FirstSplit, [SecondSplit EXCEPT !.effective = 4]}}

Disposals(d) == {Gift(d, 8, M(d))}
                \cup {s \in SalesOf(d, 8, 1, M(d), 1) : Len(s.lots) = 1}
Tables3 ==
    {AwardExport(list, "ACQUISITIONS_ONLY", table) :
        list \in Rows(Disposals,
                      LAMBDA d : {Vest(d, 8, 1, 1), Purchase(d, 2, 1, 1),
                                  Purchase(d, 0, 1, 1), NetPurchase(d, 3, 1), CashDividend(d)},
                      LAMBDA d : {Lapse(d, 2, 1), Lapse(d, 1, 1),
                                  [Lapse(d, 2, 1) EXCEPT !.withheld = Blank]}),
        table \in Tables}

Drifting ==
    {AwardExport(list, "ACQUISITIONS_ONLY", AwardSplits) :
        list \in Rows(LAMBDA d : UNION {SalesOf(d, 24, w, f, 0) : w \in {1, 2}, f \in {1, M(d)}},
                      LAMBDA d : {Vest(d, 8, w, 1) : w \in {1, 2, 8}},
                      LAMBDA d : {Vest(d, 8, w, 1) : w \in {1, 2, 8}})}

(* Each row restated or not, of one split; prices stay below the floor. *)
MixedSplit == [effective |-> 3, ratio |-> 8]
MixedM(day) == IF day < 3 THEN 8 ELSE 1
Unsure(r) == [r EXCEPT !.twice = FALSE]
Mixed ==
    {[AwardExport(list, "UNRELIABLE", {MixedSplit}) EXCEPT !.actual = {MixedSplit}] :
        list \in Rows(LAMBDA d : {Unsure(s) : s \in UNION {SalesOf(d, 24, 1, f, 1) :
                                                              f \in {1, MixedM(d)}}},
                      LAMBDA d : {Vest(d, 8, 2, f) : f \in {1, MixedM(d)}},
                      LAMBDA d : {Unsure(Gift(d, 8, f)) : f \in {1, MixedM(d)}})}

(* Rows nothing can be read from. *)
Malformed ==
    {AwardExport(list, "ACQUISITIONS_ONLY", AwardSplits) :
        list \in Rows(LAMBDA d : {[Vest(d, 8, 1, 1) EXCEPT !.price = 0],
                                  [Gift(d, 8, 1) EXCEPT !.amount = 3],
                                  [CashDividend(d) EXCEPT !.amount = Blank],
                                  [Purchase(d, 1, 1, 1) EXCEPT !.sold = 1]},
                      LAMBDA d : {[Event("Journal", d, 0, 0) EXCEPT !.amount = 1]},
                      LAMBDA d : {CashDividend(d)})}

AwardExports == Tables3 \cup Drifting \cup Mixed \cup Malformed
=============================================================================
