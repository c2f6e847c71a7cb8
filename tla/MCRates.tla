------------------------------- MODULE MCRates -------------------------------
(***************************************************************************)
(* Two runs over four dates: one from before anything could be downloaded, *)
(* whose month ships; two of one month that is downloaded; and one of a    *)
(* later shipped month.  HMRC's table may differ from one download to the  *)
(* next, and may lack a currency.                                          *)
(***************************************************************************)
EXTENDS RatesProperties

MCDates == 1 .. 4
MCCurrencies == {"USD", "CNY", "CNH"}
MCMonthOf == <<1, 2, 3, 3>>
MCShipped ==
    [d \in MCDates |-> [c \in MCCurrencies |->
       IF d \in {1, 2} /\ c = "USD" THEN 5 ELSE NoRate]]
MCListed == [c \in MCCurrencies |-> IF c = "CNH" THEN "CNY" ELSE c]
Table(usd, cny) ==
    [c \in MCCurrencies |-> IF c = "USD" THEN usd ELSE IF c = "CNY" THEN cny ELSE NoRate]
MCTables == <<{}, {}, {Table(6, NoRate), Table(7, 8)}>>
MCTypable == {<<1, "USD", 9>>, <<3, "USD", 9>>, <<3, "USD", NoRate>>}
=============================================================================
