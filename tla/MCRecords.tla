------------------------------ MODULE MCRecords ------------------------------
(***************************************************************************)
(* Three records kept apart from the holdings: a year's income, the rates  *)
(* file, and the translation file.  One of the three is in use and the     *)
(* others lie idle: income asks a rate and takes it as given, and neither  *)
(* file's code reads what the other holds.                                 *)
(***************************************************************************)
EXTENDS MCIncome, MCRates, MCIsins

NoAccount ==
    /\ account = [rows |-> <<>>, autoconvert |-> FALSE]
    /\ year = LastYear /\ next = 0 /\ history = EmptyHistory
    /\ attribution = NoValue /\ pending = NoValue
    /\ run = [EmptyRun EXCEPT !.ingestion_started = TRUE]
    /\ warned = [y \in Years |-> {}] /\ summary = [y \in Years |-> NoValue]
    /\ reports = [y \in Years |-> NoValue]

NoRatesFile ==
    /\ exchange_rates_file = NoRows /\ temporary = [r \in Runs |-> NoRows]
    /\ stage = [r \in Runs |-> "finished"] /\ named = {}
    /\ cache = [r \in Runs |-> NoRows] /\ downloaded = [r \in Runs |-> NoMonths]
    /\ wanted = [r \in Runs |-> Nothing] /\ answers = [r \in Runs |-> NoRows]
    /\ questions = [r \in Runs |-> 0]
    /\ typed = NoRows /\ disturbed = {} /\ edits = MaxEdits

NoTranslations ==
    /\ translation_file = NoTable
    /\ input = [rows |-> <<>>, reports |-> <<>>] /\ symbols = <<>>
    /\ data = NoTable /\ write_data = NoTable /\ bundled_isins = {}
    /\ exported_isins = NoTable /\ transaction_symbols = NoTable
    /\ transaction_isins = NoTable
    /\ phase = "ended" /\ position = 1 /\ found = <<>>
    /\ begun = MaxRuns /\ set_aside = {}

MCRunsAlike == Permutations(Runs)

VARIABLE record         \* which of the three is in use

RecordsInit ==
    \/ record = "income" /\ IncomeInit /\ NoRatesFile /\ NoTranslations
    \/ record = "rates" /\ NoAccount /\ RatesInit /\ NoTranslations
    \/ record = "isins" /\ NoAccount /\ NoRatesFile /\ IsinsInit

RecordsNext ==
    /\ \/ record = "income" /\ IncomeNext /\ UNCHANGED <<ratesVars, isinVars>>
       \/ record = "rates" /\ RatesNext /\ UNCHANGED <<incomeVars, isinVars>>
       \/ record = "isins" /\ IsinsNext /\ UNCHANGED <<incomeVars, ratesVars>>
    /\ UNCHANGED record

RecordsSpec ==
    RecordsInit /\ [][RecordsNext]_<<record, incomeVars, ratesVars, isinVars>>
=============================================================================
