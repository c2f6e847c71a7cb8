--------------------------- MODULE IsinsProperties ---------------------------
(***************************************************************************)
(* What the identities of a run and the file it leaves owe the holdings.   *)
(***************************************************************************)
EXTENDS Isins

----------------------------------------------------------------------------
(***************************************************************************)
(* By the rows as a set: which security each is, the ticker it goes under, *)
(* and whether the rows disagree about a security.                         *)
(***************************************************************************)
Rows == ToSet(input.rows)
Exported(symbol) == {r.isin : r \in {q \in Rows : q.symbol = symbol}} \ {NoIsin}
SecurityOf(r) ==
    IF r.isin # NoIsin THEN r.isin
    ELSE IF Exported(r.symbol) # {} THEN CHOOSE i \in Exported(r.symbol) : TRUE
    ELSE IsinForSymbol(data, r.symbol)
TickerOf(r) ==
    IF r.symbol = NoTicker \/ SecurityOf(r) = NoIsin THEN r.symbol
    ELSE Canonical(SecurityOf(r), r.symbol)
Linked == {r \in Rows : r.symbol # NoTicker /\ SecurityOf(r) # NoIsin}
TickersOf(i) == {TickerOf(r) : r \in {q \in Linked : SecurityOf(q) = i}}

OneTickerForTwo ==
    \/ \E r \in Rows : r.symbol # NoTicker /\ Cardinality(Exported(r.symbol)) > 1
    \/ \E r, q \in Linked : TickerOf(r) = TickerOf(q) /\ SecurityOf(r) # SecurityOf(q)
    \/ \E r \in Linked : IsinForSymbol(data, TickerOf(r)) \notin {NoIsin, SecurityOf(r)}
TwoTickersForOne ==
    \E r \in Linked :
      /\ Cardinality(TickersOf(SecurityOf(r))) > 1
      /\ ~(TickersOf(SecurityOf(r)) \subseteq Value(data, SecurityOf(r), {}))

(***************************************************************************)
(* Whether a run's rows are accepted, and the ticker each goes under, does *)
(* not depend on the order the brokers exported them in: they are refused  *)
(* exactly when as a set they put two securities under one ticker, or one  *)
(* under two tickers that reference data does not list together, and then  *)
(* every row of a security carries the ticker its holding is pooled under. *)
(***************************************************************************)
IdentityOrderFree ==
    /\ phase \in {"exported twice", "another ticker", "another security"} =>
         OneTickerForTwo \/ TwoTickersForOne
    /\ phase = "reports" /\ position = 1 =>
         /\ ~OneTickerForTwo /\ ~TwoTickersForOne
         /\ \A k \in DOMAIN symbols : symbols[k] = TickerOf(input.rows[k])

(***************************************************************************)
(* A run that could read the file leaves one that agrees with the bundled  *)
(* table on every ticker but those this very run set aside: the check      *)
(* before a save reads a table that lacks them, so a lookup may save such  *)
(* a ticker under a second ISIN, and the next run then refuses the file.   *)
(* It can refuse it for nothing else (_write_isin_translation_file).       *)
(***************************************************************************)
AgreeBut(table, tickers) ==
    /\ \A i \in DOMAIN table : NoTicker \in table[i] => table[i] = {NoTicker}
    /\ \A i, j \in DOMAIN table :
         i # j => table[i] \cap table[j] \subseteq {NoTicker} \cup tickers
SavedTableLoads ==
    begun > 0 /\ phase # "unreadable" => AgreeBut(OnTop(translation_file, Bundled), set_aside)

(***************************************************************************)
(* What the comment in _write_isin_translation_file says: a ticker another *)
(* ISIN owns is refused before the save "rather than break that run's      *)
(* construction".  The file a run that could read it leaves is one the     *)
(* next run can read.                                                      *)
(***************************************************************************)
NextRunLoads ==
    begun > 0 /\ phase # "unreadable" => Valid(OnTop(translation_file, Bundled))
=============================================================================
