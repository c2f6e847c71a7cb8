-------------------------------- MODULE Rates --------------------------------
(***************************************************************************)
(* The exchange rates file: a cache of HMRC's monthly tables that outlives *)
(* the run, and which a person may edit.  Each run reads it once, answers  *)
(* from what it read, from the tables that ship with the program, and from *)
(* months it downloads, and saves the whole of what it holds after every   *)
(* download.  Runs may overlap, fail, or be killed between any two steps.  *)
(*                                                                         *)
(* A cell of the file is a date and a currency; NoRate is an absent row.   *)
(***************************************************************************)
EXTENDS Integers, FiniteSets

CONSTANTS Runs,              \* processes, each run once
          Dates, Currencies,
          NoRate,
          MonthOf,           \* the month of each date
          Shipped,           \* Shipped[d][c]: the shipped rate in force, or NoRate
          ShippedMonths,     \* months that ship with the program
          FIRST_DOWNLOADED_RATES_MONTH,  \* the first date anything is asked for
          Listed,            \* the currency a code is listed under: CNH is CNY
          Tables,            \* Tables[m]: what HMRC may answer for a month
          Typable,           \* the rows a person may type: date, currency, rate
          MaxEdits,          \* how often the file is edited by hand
          MaxQuestions       \* how many rates a run asks for

ASSUME RatesAssumption ==
    /\ Dates \subseteq Nat /\ FIRST_DOWNLOADED_RATES_MONTH \in Nat
    /\ Listed \in [Currencies -> Currencies]
    /\ \A d \in Dates, c \in Currencies :
         Shipped[d][c] # NoRate => MonthOf[d] \in ShippedMonths
    /\ MaxEdits \in Nat /\ MaxQuestions \in Nat

Cells == Dates \X Currencies
NoRows == [cell \in Cells |-> NoRate]
Nothing == <<>>
NotDownloaded == [c \in Currencies |-> NoRate]
Months == {MonthOf[d] : d \in Dates}
NoMonths == [m \in Months |-> NotDownloaded]

VARIABLES exchange_rates_file,         \* the rates file's rows
          temporary,    \* by run, what it has written beside the file
          stage,        \* by run, where it is
          named,        \* the runs given an --exchange-rates-file
          cache,        \* by run, self.cache
          downloaded,   \* by run and month, self._downloaded
          wanted,       \* by run, the cell it is saving the rate of
          answers,      \* by run, the rates the calculation used
          questions,    \* by run, how many rates it has asked for
          typed,        \* rows typed while no run had the file open
          disturbed,    \* runs during which another run or a person wrote
          edits

ratesVars == <<exchange_rates_file, temporary, stage, named, cache, downloaded, wanted, answers,
               questions, typed, disturbed, edits>>

Stages == {"waiting", "running", "saving", "moving", "finished", "stopped"}
Live == {r \in Runs : stage[r] \in {"running", "saving", "moving"} /\ r \in named}

RatesInit ==
    /\ exchange_rates_file = NoRows
    /\ temporary = [r \in Runs |-> NoRows]
    /\ stage = [r \in Runs |-> "waiting"]
    /\ named = {}
    /\ cache = [r \in Runs |-> NoRows]
    /\ downloaded = [r \in Runs |-> NoMonths]
    /\ wanted = [r \in Runs |-> Nothing]
    /\ answers = [r \in Runs |-> NoRows]
    /\ questions = [r \in Runs |-> 0]
    /\ typed = NoRows
    /\ disturbed = {}
    /\ edits = 0

----------------------------------------------------------------------------
(***************************************************************************)
(* CurrencyConverter.__init__: the file is read whole, if one was given.   *)
(***************************************************************************)
Begin(r, given) ==
    /\ stage[r] = "waiting"
    /\ stage' = [stage EXCEPT ![r] = "running"]
    /\ named' = IF given THEN named \cup {r} ELSE named
    /\ cache' = [cache EXCEPT ![r] = IF given THEN exchange_rates_file ELSE NoRows]
    /\ disturbed' = IF given /\ Live # {} THEN disturbed \cup Live \cup {r} ELSE disturbed
    /\ UNCHANGED <<exchange_rates_file, temporary, downloaded, wanted, answers, questions, typed, edits>>

----------------------------------------------------------------------------
(***************************************************************************)
(* currency_to_gbp_rate: a shipped rate overrules the row on file, unless  *)
(* the date is one nothing was ever downloaded for: then the row was typed *)
(* in.  Otherwise the row on file; NoRate when there is none either.       *)
(***************************************************************************)
IsTyped(d) == d < FIRST_DOWNLOADED_RATES_MONTH

RateIn(rows, d, c) ==
    IF Shipped[d][c] = NoRate \/ (rows[<<d, c>>] # NoRate /\ IsTyped(d))
    THEN rows[<<d, c>>]
    ELSE Shipped[d][c]

\* _recorded_rate: whether the rate is one a download may bring.
Downloadable(d) ==
    d >= FIRST_DOWNLOADED_RATES_MONTH /\ MonthOf[d] \notin ShippedMonths

Asks(r) ==
    /\ stage[r] = "running"
    /\ questions[r] < MaxQuestions
    /\ questions' = [questions EXCEPT ![r] = @ + 1]

\* A run that ends takes what it held in memory with it.
Ends(r, how) ==
    /\ stage' = [stage EXCEPT ![r] = how]
    /\ cache' = [cache EXCEPT ![r] = NoRows]
    /\ downloaded' = [downloaded EXCEPT ![r] = NoMonths]
    /\ wanted' = [wanted EXCEPT ![r] = Nothing]
    /\ UNCHANGED answers

Known(r, d, c) == RateIn(cache[r], d, c) # NoRate

AnswerKnown(r, d, c) ==
    /\ Asks(r)
    /\ Known(r, d, c)
    /\ answers' = [answers EXCEPT ![r][<<d, c>>] = RateIn(cache[r], d, c)]
    /\ UNCHANGED <<exchange_rates_file, temporary, stage, named, cache, downloaded, wanted, typed,
                   disturbed, edits>>

\* HmrcRateMissingError without asking anyone.
RateMissing(r, d, c) ==
    /\ Asks(r)
    /\ ~Known(r, d, c) /\ ~Downloadable(d)
    /\ Ends(r, "stopped")
    /\ UNCHANGED <<exchange_rates_file, temporary, named, typed, disturbed, edits>>

(***************************************************************************)
(* _query_hmrc_api: a month is downloaded once in a run, and joins the     *)
(* date beside the rows already held for it, which stay in use.            *)
(***************************************************************************)
Merged_TableWins(table, rows, date) ==
    [cell \in Cells |->
       IF cell[1] = date /\ table[cell[2]] # NoRate THEN table[cell[2]] ELSE rows[cell]]

Merged(table, rows, date) ==
    [cell \in Cells |->
       IF cell[1] = date /\ rows[cell] = NoRate THEN table[cell[2]] ELSE rows[cell]]

HasMonth(r, d) == downloaded[r][MonthOf[d]] # NotDownloaded

Query(r, d, c, table) ==
    /\ Asks(r)
    /\ ~Known(r, d, c) /\ Downloadable(d)
    /\ HasMonth(r, d) => table = downloaded[r][MonthOf[d]]
    /\ downloaded' = [downloaded EXCEPT ![r][MonthOf[d]] = table]
    /\ cache' = [cache EXCEPT ![r] = Merged(table, cache[r], d)]
    /\ wanted' = [wanted EXCEPT ![r] = <<d, c>>]
    /\ stage' = [stage EXCEPT ![r] = "saving"]
    /\ UNCHANGED <<exchange_rates_file, temporary, named, answers, typed, disturbed, edits>>

\* ExternalApiError: no reply, an error reply, or one that cannot be read.
DownloadFails(r, d, c) ==
    /\ Asks(r)
    /\ ~Known(r, d, c) /\ Downloadable(d) /\ ~HasMonth(r, d)
    /\ Ends(r, "stopped")
    /\ UNCHANGED <<exchange_rates_file, temporary, named, typed, disturbed, edits>>

----------------------------------------------------------------------------
(***************************************************************************)
(* save_csv: the rows are written beside the file under a name of this     *)
(* save's own, then moved into its place; only then does the caller get    *)
(* its rate, or learn that the month has none for the currency.  Nothing   *)
(* is saved when no file was given.                                        *)
(***************************************************************************)
Replies(r) ==
    /\ cache[r][wanted[r]] # NoRate
    /\ answers' = [answers EXCEPT ![r][wanted[r]] = cache[r][wanted[r]]]
    /\ stage' = [stage EXCEPT ![r] = "running"]
    /\ wanted' = [wanted EXCEPT ![r] = Nothing]
    /\ UNCHANGED <<cache, downloaded>>
HasNoneListed(r) == cache[r][wanted[r]] = NoRate /\ Ends(r, "stopped")

Saved_DateAskedFor(r) ==
    [cell \in Cells |-> IF cell[1] = wanted[r][1] THEN cache[r][cell] ELSE NoRate]

Saved(r) == cache[r]

WriteBeside(r) ==
    /\ stage[r] = "saving" /\ r \in named
    /\ temporary' = [temporary EXCEPT ![r] = Saved(r)]
    /\ stage' = [stage EXCEPT ![r] = "moving"]
    /\ UNCHANGED <<exchange_rates_file, named, cache, downloaded, wanted, answers, questions, typed,
                   disturbed, edits>>

MoveIntoPlace(r) ==
    /\ stage[r] = "moving"
    /\ exchange_rates_file' = temporary[r]
    /\ temporary' = [temporary EXCEPT ![r] = NoRows]
    /\ Replies(r) \/ HasNoneListed(r)
    /\ UNCHANGED <<named, questions, typed, disturbed, edits>>

NothingToSave(r) ==
    /\ stage[r] = "saving" /\ r \notin named
    /\ Replies(r) \/ HasNoneListed(r)
    /\ UNCHANGED <<exchange_rates_file, temporary, named, questions, typed, disturbed, edits>>

\* The file cannot be written or replaced: the temporary one is removed.
SaveFails(r) ==
    /\ stage[r] \in {"saving", "moving"} /\ r \in named
    /\ temporary' = [temporary EXCEPT ![r] = NoRows]
    /\ Ends(r, "stopped")
    /\ UNCHANGED <<exchange_rates_file, named, questions, typed, disturbed, edits>>

Finish(r) ==
    /\ stage[r] = "running"
    /\ Ends(r, "finished")
    /\ UNCHANGED <<exchange_rates_file, temporary, named, questions, typed, disturbed, edits>>

\* Killed, or stopped by an error elsewhere; what it wrote beside the file stays.
Crash(r) ==
    /\ stage[r] \in {"running", "saving", "moving"}
    /\ Ends(r, "stopped")
    /\ UNCHANGED <<exchange_rates_file, temporary, named, questions, typed, disturbed, edits>>

----------------------------------------------------------------------------
\* A person types a row, or removes one (NoRate).
Edit(d, c, rate) ==
    /\ edits < MaxEdits /\ edits' = edits + 1
    /\ exchange_rates_file[<<d, c>>] # rate
    /\ exchange_rates_file' = [exchange_rates_file EXCEPT ![<<d, c>>] = rate]
    /\ typed' = [typed EXCEPT ![<<d, c>>] = IF Live = {} THEN rate ELSE NoRate]
    /\ disturbed' = disturbed \cup {r \in Runs : stage[r] # "waiting"}
    /\ UNCHANGED <<temporary, stage, named, cache, downloaded, wanted, answers, questions>>

\* A currency is asked for under the code it is listed under: CNH as CNY.
RunStep(r) ==
    \/ \E d \in Dates, c \in {Listed[code] : code \in Currencies} :
         \/ AnswerKnown(r, d, c) \/ RateMissing(r, d, c) \/ DownloadFails(r, d, c)
         \/ \E table \in Tables[MonthOf[d]] : Query(r, d, c, table)
    \/ WriteBeside(r) \/ MoveIntoPlace(r) \/ NothingToSave(r) \/ SaveFails(r)
    \/ Finish(r) \/ Crash(r)

RatesNext ==
    \/ \E r \in Runs, given \in BOOLEAN : Begin(r, given)
    \/ \E r \in Runs : RunStep(r)
    \/ \E row \in Typable : Edit(row[1], row[2], row[3])

RatesSpec == RatesInit /\ [][RatesNext]_ratesVars
=============================================================================
