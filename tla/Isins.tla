-------------------------------- MODULE Isins --------------------------------
(***************************************************************************)
(* Which security a ticker is: the bundled table, the user's translation   *)
(* file on top of it, what a run's transactions say, and what a lookup     *)
(* adds.  The file outlives the run: a lookup is saved to it, and the next *)
(* run reads it beside the bundled table.                                  *)
(*                                                                         *)
(* A table maps ISINs to sets of tickers; an ISIN outside its domain has   *)
(* no row.  An ISIN that has no ticker is given the empty one, NoTicker.   *)
(***************************************************************************)
EXTENDS Integers, Sequences, FiniteSets, SequencesExt

CONSTANTS Bundled,          \* the bundled table
          UsIsins,          \* ISINs that start with US
          OverTheCounter,   \* tickers of five letters ending in F
          Aliases,          \* ISIN_TICKER_ALIASES: <<ISIN, ticker, canonical>>
          Lookups,          \* Lookups[i]: what a lookup of an ISIN may bring
          Inputs,           \* a run's rows, and the ISINs of the ERI file given
          UserFiles,        \* what a person may have written in the file
          NoTicker, NoIsin,
          MaxRuns

ASSUME IsinsAssumption ==
    /\ NoTicker \notin OverTheCounter /\ NoIsin \notin DOMAIN Bundled
    /\ MaxRuns \in Nat \ {0}
    /\ \A given \in Inputs :
         given \in [rows : Seq(ToSet(given.rows)), reports : Seq(ToSet(given.reports))]

VARIABLES translation_file,
          input,                \* this run's rows, as they were exported, and reports
          symbols,              \* the ticker each row has come to
          data, write_data, bundled_isins,
          exported_isins, transaction_symbols, transaction_isins,
          phase, position,      \* where the run is, and in which row or report
          found,                \* the tickers each report is recorded under
          begun,                \* how many runs have begun
          set_aside             \* the tickers this run has set aside

isinVars == <<translation_file, input, symbols, data, write_data, bundled_isins, exported_isins,
              transaction_symbols, transaction_isins, phase, position, found, begun,
              set_aside>>

Value(table, key, default) == IF key \in DOMAIN table THEN table[key] ELSE default
With(table, key, value) ==
    [k \in DOMAIN table \cup {key} |-> IF k = key THEN value ELSE table[k]]
OnTop(upper, lower) ==
    [k \in DOMAIN upper \cup DOMAIN lower |-> Value(upper, k, Value(lower, k, {}))]
NoTable == [k \in {} |-> {}]

\* A run is over when it ends or is refused.
Over == {"ended", "unreadable", "two securities", "exported twice", "another ticker",
         "another security", "lookup"}

\* validate_data: no ticker of two ISINs, no empty ticker beside a real one.
Valid(table) ==
    /\ \A i \in DOMAIN table : NoTicker \in table[i] => table[i] = {NoTicker}
    /\ \A i, j \in DOMAIN table : i # j => table[i] \cap table[j] \subseteq {NoTicker}

\* _isin_for_symbol: the security reference data gives a ticker to, or NoIsin.
IsinForSymbol(table, symbol) ==
    LET owners == {i \in DOMAIN table : symbol \in table[i]}
    IN  IF owners = {} THEN NoIsin ELSE CHOOSE i \in owners : TRUE

IsinsInit ==
    /\ translation_file \in UserFiles
    /\ input = [rows |-> <<>>, reports |-> <<>>] /\ symbols = <<>>
    /\ data = NoTable /\ write_data = NoTable /\ bundled_isins = {}
    /\ exported_isins = NoTable /\ transaction_symbols = NoTable
    /\ transaction_isins = NoTable
    /\ phase = "ended" /\ position = 1 /\ found = <<>>
    /\ begun = 0 /\ set_aside = {}

----------------------------------------------------------------------------
(***************************************************************************)
(* IsinConverter.__init__: the user's rows replace the bundled ones.  An   *)
(* input is whatever the brokers' files and the ERI file hold.             *)
(***************************************************************************)
Construct(given) ==
    /\ phase \in Over /\ begun < MaxRuns
    /\ begun' = begun + 1
    /\ input' = given
    /\ symbols' = [k \in DOMAIN given.rows |-> given.rows[k].symbol]
    /\ write_data' = translation_file
    /\ data' = OnTop(translation_file, Bundled)
    /\ bundled_isins' = DOMAIN Bundled \ DOMAIN translation_file
    /\ exported_isins' = NoTable /\ transaction_symbols' = NoTable
    /\ transaction_isins' = NoTable
    /\ phase' = IF Valid(data') THEN "loaded" ELSE "unreadable"
    /\ position' = 1 /\ found' = <<>> /\ set_aside' = {}
    /\ UNCHANGED translation_file

Refuse(reason) ==
    /\ phase' = reason
    /\ UNCHANGED <<translation_file, input, symbols, data, write_data, bundled_isins,
                   exported_isins, transaction_symbols, transaction_isins, position,
                   found, begun>>

(***************************************************************************)
(* set_aside_london_tickers: a ticker that a US row carries is not the     *)
(* London one the bundled table lists; a row that carries that ISIN under  *)
(* it is refused.  An ISIN left with no ticker keeps its empty row.        *)
(***************************************************************************)
UsSymbols == {r.symbol : r \in {q \in ToSet(input.rows) : q.market = "US"}} \ {NoTicker}
London(i) ==
    IF i \in bundled_isins \ UsIsins THEN (data[i] \cap UsSymbols) \ OverTheCounter ELSE {}
SetsAside == UNION {London(i) : i \in DOMAIN data}
TwoSecurities ==
    \E r \in ToSet(input.rows) : r.isin \in DOMAIN data /\ r.symbol \in London(r.isin)

(***************************************************************************)
(* _resolve_isins: only reports of securities the rows name, or reference  *)
(* data finds for their tickers, are read.                                 *)
(***************************************************************************)
Named(table, r) ==
    IF r.isin # NoIsin THEN r.isin
    ELSE IF r.symbol = NoTicker THEN NoIsin ELSE IsinForSymbol(table, r.symbol)
Concerns(table, i) == i \in {Named(table, r) : r \in ToSet(input.rows)}

LoadTransactions ==
    /\ phase = "loaded"
    /\ set_aside' = SetsAside
    /\ IF TwoSecurities THEN Refuse("two securities")
       ELSE LET kept == [i \in DOMAIN data |-> data[i] \ London(i)]
            IN  /\ data' = kept
                /\ input' = [input EXCEPT !.reports =
                               SelectSeq(@, LAMBDA i : Concerns(kept, i))]
                /\ phase' = "identities"
                /\ UNCHANGED <<translation_file, symbols, write_data, bundled_isins,
                               exported_isins, transaction_symbols, transaction_isins,
                               position, found, begun>>

----------------------------------------------------------------------------
(***************************************************************************)
(* add_from_transactions: every row's identity is read before the first is *)
(* normalised; a ticker exported for two securities is refused.            *)
(***************************************************************************)
Identified(indices) ==
    {i \in indices : input.rows[i].symbol # NoTicker /\ input.rows[i].isin # NoIsin}
ExportedBy(indices) ==
    [symbol \in {input.rows[i].symbol : i \in Identified(indices)} |->
       input.rows[CHOOSE i \in Identified(indices) :
                    /\ input.rows[i].symbol = symbol
                    /\ \A j \in Identified(indices) :
                         input.rows[j].symbol = symbol => i <= j].isin]
ExportedTwice ==
    \E i, j \in Identified(DOMAIN input.rows) :
      /\ input.rows[i].symbol = input.rows[j].symbol
      /\ input.rows[i].isin # input.rows[j].isin

ReadIdentities ==
    /\ phase = "identities"
    /\ UNCHANGED set_aside
    /\ IF ExportedTwice THEN Refuse("exported twice")
       ELSE /\ exported_isins' = ExportedBy(DOMAIN input.rows)
            /\ phase' = "rows"
            /\ UNCHANGED <<translation_file, input, symbols, data, write_data, bundled_isins,
                           transaction_symbols, transaction_isins, position, found,
                           begun>>

(***************************************************************************)
(* add_from_transaction: a row is the security it names, or the one its    *)
(* ticker was exported for, or the one reference data gives the ticker to, *)
(* and takes the canonical ticker of an alias.                             *)
(***************************************************************************)
Resolved_RowsReadSoFar(r) ==
    IF r.isin # NoIsin THEN r.isin
    ELSE Value(ExportedBy(1 .. position), r.symbol, IsinForSymbol(data, r.symbol))

Resolved(r) ==
    IF r.isin # NoIsin THEN r.isin
    ELSE Value(exported_isins, r.symbol, IsinForSymbol(data, r.symbol))

Canonical(i, symbol) ==
    LET aliases == {a \in Aliases : a[1] = i /\ a[2] = symbol}
    IN  IF aliases = {} THEN symbol ELSE (CHOOSE a \in aliases : TRUE)[3]

\* A second ticker of a security that reference data does not list with the first.
OtherTicker(i, symbol) ==
    LET recorded == Value(transaction_symbols, i, {})
    IN  /\ recorded # {} /\ symbol \notin recorded
        /\ ~(recorded \cup {symbol} \subseteq Value(data, i, {}))

\* A ticker that stands for another security already.
OtherSecurity(i, symbol) ==
    Value(transaction_isins, symbol, IsinForSymbol(data, symbol)) \notin {NoIsin, i}

AddFromTransaction ==
    /\ phase = "rows" /\ position <= Len(input.rows)
    /\ UNCHANGED set_aside
    /\ LET r == input.rows[position]
           i == Resolved(r)
           symbol == Canonical(i, r.symbol)
       IN  IF r.symbol = NoTicker \/ i = NoIsin
           THEN /\ position' = position + 1
                /\ UNCHANGED <<translation_file, input, symbols, data, write_data, bundled_isins,
                               exported_isins, transaction_symbols, transaction_isins,
                               phase, found, begun>>
           ELSE IF OtherTicker(i, symbol) THEN Refuse("another ticker")
           ELSE IF OtherSecurity(i, symbol) THEN Refuse("another security")
           ELSE /\ symbols' = [symbols EXCEPT ![position] = symbol]
                /\ transaction_symbols' =
                     With(transaction_symbols, i,
                          Value(transaction_symbols, i, {}) \cup {symbol})
                /\ transaction_isins' = With(transaction_isins, symbol, i)
                /\ position' = position + 1
                /\ UNCHANGED <<translation_file, input, data, write_data, bundled_isins,
                               exported_isins, phase, found, begun>>

RowsEnd ==
    /\ phase = "rows" /\ position = Len(input.rows) + 1
    /\ phase' = "reports" /\ position' = 1
    /\ UNCHANGED <<translation_file, input, symbols, data, write_data, bundled_isins,
                   exported_isins, transaction_symbols, transaction_isins, found, begun,
                   set_aside>>

----------------------------------------------------------------------------
(***************************************************************************)
(* get_symbols, for each report: reference data and the run's own rows     *)
(* answer; only an ISIN neither has is looked up, and a lookup that brings *)
(* something is checked against all reference data and saved.              *)
(***************************************************************************)
Report == input.reports[position]
Recorded == Value(transaction_symbols, Report, {})
Answered == Report \in DOMAIN data \/ Recorded # {}

Finds(tickers) ==
    /\ found' = Append(found, (tickers \cup Recorded) \ {NoTicker})
    /\ position' = position + 1
    /\ UNCHANGED <<input, symbols, bundled_isins, exported_isins, transaction_symbols,
                   transaction_isins, phase, begun, set_aside>>

AnswerReport ==
    /\ phase = "reports" /\ position <= Len(input.reports)
    /\ Answered
    /\ Finds(Value(data, Report, {}))
    /\ UNCHANGED <<translation_file, data, write_data>>

Writable_RowsOfTheFile(table, rows) == Valid(rows)
Writable(table, rows) == Valid(table)

LookUp(tickers) ==
    /\ phase = "reports" /\ position <= Len(input.reports)
    /\ ~Answered
    /\ tickers \in Lookups[Report]
    /\ data' = With(data, Report, tickers)
    /\ IF tickers = {} THEN Finds({}) /\ UNCHANGED <<translation_file, write_data>>
       ELSE /\ write_data' = With(write_data, Report, tickers)
            /\ IF Writable(data', write_data')
               THEN Finds(tickers) /\ translation_file' = write_data'
               ELSE /\ phase' = "lookup"
                    /\ UNCHANGED <<translation_file, input, symbols, bundled_isins,
                                   exported_isins, transaction_symbols,
                                   transaction_isins, position, found, begun, set_aside>>

\* The service cannot be reached, or the file cannot be saved.
LookUpFails ==
    /\ phase = "reports" /\ position <= Len(input.reports)
    /\ ~Answered
    /\ UNCHANGED set_aside
    /\ Refuse("lookup")

ReportsEnd ==
    /\ phase = "reports" /\ position = Len(input.reports) + 1
    /\ phase' = "ended"
    /\ UNCHANGED <<translation_file, input, symbols, data, write_data, bundled_isins,
                   exported_isins, transaction_symbols, transaction_isins, position,
                   found, begun, set_aside>>

IsinsNext ==
    \/ \E given \in Inputs : Construct(given)
    \/ LoadTransactions \/ ReadIdentities \/ AddFromTransaction \/ RowsEnd
    \/ AnswerReport \/ LookUpFails \/ ReportsEnd
    \/ \E tickers \in UNION {Lookups[i] : i \in DOMAIN Lookups} : LookUp(tickers)

IsinsSpec == IsinsInit /\ [][IsinsNext]_isinVars
=============================================================================
