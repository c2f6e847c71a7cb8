----------------------------- MODULE MCIngestion -----------------------------
(***************************************************************************)
(* Families of short merged histories the first pass is checked on: every  *)
(* sequence of rows from an alphabet, over every choice of dates, in the   *)
(* order the parsers may leave them.                                       *)
(***************************************************************************)
EXTENDS IngestionProperties

Plain ==
  [date |-> 1, action |-> "CASH", symbol |-> 1, renamed |-> 1, account |-> "A",
   quantity |-> 0, price |-> 0, cash |-> 0, source |-> "broker", instants |-> {},
   place |-> 0, event |-> [before |-> 0, after |-> 0, ratio |-> NoRatio]]

Trade(action, quantity, cash) ==
  [Plain EXCEPT !.action = action, !.quantity = quantity, !.cash = cash]
Cash(amount) == [Plain EXCEPT !.cash = amount]
Gift(action, quantity, price) ==
  [Plain EXCEPT !.action = action, !.quantity = quantity, !.price = price]
Under(entry, symbol) == [entry EXCEPT !.symbol = symbol]
In(entry, account) == [entry EXCEPT !.account = account]
At(entry, instants) == [entry EXCEPT !.instants = instants]
\* The fund that reports has an ISIN, and so a ticker of NamedByIsin.
OfFund(entries) == {Under(entry, 2) : entry \in entries}
Placed(entry, place) == [entry EXCEPT !.source = "raw", !.place = place, !.account = "raw"]

Dated(length, days) == {dates \in [1 .. length -> days] :
                          dates[1] = 1 /\ \A i \in 2 .. length : dates[i - 1] <= dates[i]}
Histories(first, entries, length, days) ==
  {ledger \in
     {[i \in 1 .. length |-> [(IF i = 1 THEN opening ELSE rest[i]) EXCEPT !.date = dates[i]]] :
        opening \in first, rest \in [2 .. length -> entries], dates \in Dated(length, days)} :
     Sorted(ledger)}

\* Two accounts whose cash comes and goes in every order, with reports of
\* excess income, which move none, anywhere in the day.
CashRows ==
  {In(entry, a) : entry \in {Cash(20), Cash(-15), Trade("BUY", 2, -20)}, a \in {"A", "B"}}
  \cup {Trade("SELL", 1, 12), Trade("FEE", 0, -1), Trade("FEE", 0, 1), Trade("OTHER", 0, 0),
        Gift("EXCESS_REPORTED_INCOME", 0, 2)}
CashLedgers ==
  Histories(OfFund({Cash(20), Trade("BUY", 2, -20)}), OfFund(CashRows), 4, 1 .. 2)

\* Sales, gifts to either kind of recipient and transfers of one day.
GiftRows ==
  {Trade("BUY", 3, 0), Trade("STOCK_ACTIVITY", 1, 0), Trade("SELL", 1, 0),
   Gift("GIFT", 1, 5), Gift("GIFT", 1, 6), Gift("GIFT_UNCONNECTED", 1, 5),
   Gift("TRANSFER_TO_SPOUSE", 2, 0), Gift("EXCESS_REPORTED_INCOME", 0, 2)}
GiftLedgers == Histories(OfFund({Trade("BUY", 3, 0)}), OfFund(GiftRows), 4, 1 .. 2)

(***************************************************************************)
(* Reorganisations stated every way, with rows that can be placed before   *)
(* them, after them or not at all, from one account or two.                *)
(***************************************************************************)
Split(quantity, source) ==
  [Plain EXCEPT !.action = "STOCK_SPLIT", !.quantity = quantity, !.source = source]
Counts(before, after, ratio) ==
  [Split(after - before, "paired") EXCEPT
     !.event = [before |-> before, after |-> after, ratio |-> ratio]]
TwoForThree == [num |-> 2, den |-> 3]

Reorganisations ==
  {Placed(Split(3, "raw"), 2), Split(2, "broker"), At(Split(2, "broker"), {4}),
   At(Split(-1, "broker"), {4}), At(Counts(3, 2, TwoForThree), {3, 5}),
   At(Counts(4, 3, TwoForThree), {3, 5}), At(Counts(3, 5, NoRatio), {3, 5})}
Trades ==
  {At(Trade("BUY", 2, 0), {2}), In(At(Trade("BUY", 1, 0), {2}), "B"),
   At(Trade("BUY", 1, 0), {6}), At(Trade("SELL", 1, 0), {2}), At(Trade("SELL", 3, 0), {6}),
   Trade("SELL", 2, 0), Placed(Trade("BUY", 3, 0), 1), Placed(Trade("SELL", 4, 0), 3)}
OneEventLedgers ==
  {[i \in 1 .. 4 |->
      [(IF i = 1 THEN Trade("BUY", 3, 0) ELSE IF i = place THEN event
        ELSE IF i < place THEN trades[i - 1] ELSE trades[i - 2])
       EXCEPT !.date = dates[i]]] :
     place \in 2 .. 4, event \in Reorganisations, trades \in [1 .. 2 -> Trades],
     dates \in Dated(4, 1 .. 3)}

\* Several rows that may report one event, or two.
SecondReports ==
  Reorganisations
  \cup {In(At(Split(1, "broker"), {4}), "B"), In(At(Split(4, "broker"), {4}), "B")}
SeveralRowLedgers ==
  Histories({Trade("BUY", 3, 0), Placed(Trade("BUY", 3, 0), 1)}, SecondReports, 3, 1 .. 3)

Accounts == {"A", "B", "raw"}

(***************************************************************************)
(* Holdings renamed, merged and split by name, traded under either name on *)
(* both sides of the row that renames them, and reorganised the same day.  *)
(***************************************************************************)
Rename(old, new) == [Plain EXCEPT !.action = "RENAME", !.renamed = old, !.symbol = new]
RenameRows ==
  {Rename(2, 1), Rename(1, 3), Rename(2, 3)}
  \cup {Under(entry, s) : entry \in {Trade("BUY", 2, 0), Trade("SELL", 1, 0), Trade("SELL", 2, 0)},
                          s \in {1, 2}}
  \cup {Under(In(Trade("BUY", 1, 0), "B"), 1), Under(Gift("GIFT", 1, 5), 2),
        Under(Split(2, "broker"), 1), Under(Split(2, "raw"), 2),
        Under(Gift("EXCESS_REPORTED_INCOME", 0, 2), 2)}
RenameLedgers == Histories({Under(Trade("BUY", 2, 0), 2)}, RenameRows, 4, 1 .. 3)

(***************************************************************************)
(* Reports of one or two funds on either side of the renames that connect  *)
(* them: repeated, at another price, or of nothing.                        *)
(***************************************************************************)
Report(s, price) == Under(Gift("EXCESS_REPORTED_INCOME", 0, price), s)
ReportLedgers ==
  Histories({Report(2, 2)},
            {Report(2, 2), Report(2, 1), Report(2, 0), Report(3, 2),
             Rename(2, 1), Rename(1, 2), Rename(1, 3), Rename(3, 1)}, 4, 1 .. 2)

\* Nested so that each family on a left is a filtered set, which TLC has sorted.
AllLedgers ==
  CashLedgers \cup (GiftLedgers \cup (SeveralRowLedgers
    \cup (RenameLedgers \cup (ReportLedgers \cup OneEventLedgers))))
=============================================================================
