--------------------------- MODULE RatesProperties ---------------------------
(***************************************************************************)
(* What the rates file owes the person who keeps it and its next reader.   *)
(***************************************************************************)
EXTENDS Rates

(***************************************************************************)
(* A row a person typed while no run had the file open stays as typed      *)
(* until they change it: no download replaces it, no save drops it, however*)
(* many runs overlap, fail or are killed part way.                         *)
(***************************************************************************)
TypedRowsSurvive ==
    \A cell \in Cells : typed[cell] # NoRate => exchange_rates_file[cell] = typed[cell]

(***************************************************************************)
(* Every rate a calculation has used is on file, or shipped: whoever reads *)
(* the file afterwards, with no network, gets that same rate, unless the   *)
(* file was edited or another run saved it while this one had it open.     *)
(***************************************************************************)
EveryRateUsedIsOnFile ==
    \A r \in named \ disturbed, d \in Dates, c \in Currencies :
      answers[r][<<d, c>>] # NoRate => RateIn(exchange_rates_file, d, c) = answers[r][<<d, c>>]
=============================================================================
