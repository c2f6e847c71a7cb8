# A verification of the capital gains calculator

`cgt_calc` reads broker histories and works out what an individual owes in UK
capital gains tax.  One run is a sequential program: nothing in it runs
concurrently.  What makes it hard is order.  A disposal is identified with
purchases that come *after* it, units are promised to disposals that have not
been reached yet, cost moves between a pool, a disposal and a repurchase in
pieces rounded to ten decimals, and two passes over the same history must agree
to the last decimal.  Before that, brokers export one event as several rows,
newest first, in overlapping files and in mixed units.  Two files outlive a run,
the exchange rates and the ISIN translations, and there runs do overlap, fail
half way, and meet a person's edits.  The modules here state what those steps
promise, check it on every small instance of several families with TLC, and prove
the most important of it for all instances with TLAPS.

## The system

| Component | State it keeps | Operations | Correct when |
|---|---|---|---|
| Schwab exports (`parsers/schwab*.py`) | class-level award prices; per account the rows, the pairs of cancellations, open option lots | one file or a directory to one list of transactions: read, join mergers and redemptions, drop cancelled purchases, allocate option outcomes first in first out, settle assignments | pairs are one to one, every contract ends once, the cut into files does not matter |
| Schwab equity awards (`schwab_equity_award_json.py`) | the rows converted so far | check the lapses against the split table, convert every row to current units | every count is the true count in today's shares, or there is a warning |
| Trading 212 (`trading212.py`) | the merged rows, the paired halves | merge overlapping exports, pair and combine reorganisation halves, check chronology | each transaction counted once, on its side of an event |
| Other parsers | none beyond a row, or a balance check | one row of a file to one `BrokerTransaction` | column layout: out of scope |
| Ingestion, the first pass (`ingestion.py`) | `PreparedHistory`, a provisional portfolio, cash balances, the accounts each holding came from | one handler per action: acquisitions, disposals, gifts, transfers, fees, ERI, renames, dividends, interest | refuses exactly the histories that give up more than they hold or overdraw a day; records each row once |
| Split and rename planning (`stock_split_planning.py`, `rename_planning.py`) | the day's `SplitTransformation`s and `RenameComponent`s, in the prepared history | run once per day before its rows | both passes restate the same holding by the same figures |
| Matching, the second pass (`matching.py`) | the Section 104 pools, `bnb_list`, `eris_distribution`, the totals of `WalkResult` | one walk over the days: split openings, acquisitions, reconciliations, disposals, renames, transfers to a spouse, close checks, ERI | order of identification, each unit and each pound used once, agreement with the first pass |
| Income (`income.py`) | totals and a cached attribution | interest by month, dividends, treaty relief, withholding tax attributed to one payment | each withholding counted once, in one year |
| Exchange rates (`currency_converter.py`) | a cache of monthly tables, in memory and in a file | look up, download, save | what a person typed stays, what was used is on file |
| ISIN translation (`isin_converter.py`) | tables in both directions, a saved file | read the rows' identities, look up, save | a row's identity does not depend on order, the saved file loads again |
| Prices, spin-off answers | caches over files and web services | look up | out of scope |
| Report and command line | none that evolves | format | out of scope |

The parsers feed one merged, date-ordered list to ingestion.  Ingestion fills a
`PreparedHistory` and is never run twice.  The matching walk and the income
calculation read it, may be run again, and write only the `RunState`.  The only
channel between the passes is the prepared history; the only channel between two
disposals is the pool and `bnb_list`, which records what an earlier disposal
claimed of a later purchase.  The converters are called from both passes and talk
to later runs through their files.

Failure has two forms.  A `CalculationError` or `ParsingError` is a refusal: the
program says it cannot work the figure out.  An `AssertionError` is a broken
invariant.  `Matcher` keeps them apart as the phases `refused` and `fault`; the
other modules model the refusals.

## The modules

| Module | What it is |
|---|---|
| `Amounts` | The decimal arithmetic of `util.py`, `_share_of_cost`, `Position` and the unit conversions, over integers: a *grid unit* is `GRID` fine units apart, so an amount off the ten-decimal grid can be written down. |
| `History` | The prepared history of one holding, one record per day, and which histories the first pass accepts. |
| `SchwabOptions` | `reconcile_written_options`: written contracts as lots, their outcomes allocated one lot per step, assignments settled by a share row. |
| `SchwabExport` | The loading of a Schwab account around it, twice in one process: from one file, then from a directory of two. |
| `EquityAwards` | The equity awards export of one symbol: the check of its lapses, the conversion of each row, the check of disposals. |
| `Trading212` | A directory of overlapping exports: the merge, the pairing of reorganisation halves, the chronology, the statement. |
| `Ingestion` | The first pass over the merged rows of several tickers and accounts: one action per handler, the planning of a day's renames and reorganisations before its first row, the cash check and the gathering of renamed holdings at its last. |
| `Matcher` | The matching walk. Each step of `Matcher.walk` is an action; `process_disposal` is several, and its 30-day search one per day searched. |
| `ShareIdentification` | The abstract specification: the order of identification in units alone, with no costs, claims lists, phases or reports. |
| `Income` | Dividends, withholding and interest through both passes, a calculator per tax year, with passes that stop half way. |
| `Rates` | The rates file shared by several runs, each of which asks, downloads, saves in two steps, fails or is killed. |
| `Isins` | The identities of a run's rows and the translation file it leaves for the next. |
| `…Properties` | What must hold of each: `IngestionProperties`, `MatcherProperties` (with the refinement mapping to `ShareIdentification`), `SchwabProperties`, `AwardProperties`, `Trading212Properties`, `IncomeProperties`, `RatesProperties`, `IsinsProperties`. |
| `MCIngestion`, `MCMatcher`, `MCSchwab`, `MCAwards`, `MCTrading212`, `MCIncome`, `MCRates`, `MCIsins` | Families of small instances for TLC. |
| `MCExports` | Equity awards or a Trading 212 directory, the other not given. |
| `MCRecords` | Income, the rates file or the translation file; `record` says which is in use. |
| `MatcherProofs` | Types of the walk; the pool covers the disposal; the same-day rule, no unit identified twice, claims made before their acquisition is priced and in the ratio of the reorganisations between, and each step of the walk a step of `ShareIdentification` or a stutter; both passes count the same units, reports of excess income reach every unit, and no assertion fails outside two corners. |
| `IngestionProofs` | Types of the first pass; connected gifts stand alone; overdrafts are real; reports reach every name of their fund. |
| `CloseProofs` | The first pass's counts are what the walk rebuilds from its records at each day's close, and never short; what it hands over about a holding never renamed is a history the walk may be given, a reorganised day closes on the broker's count, the accounts kept beside a holding are those it came from, and a day that renames its holding sells too much by the sum of its sales, in whatever order they are read. |
| `Induction` | Induction over the natural numbers and over finite sets, and the laws of sums that follow from it. |
| `SchwabProofs` | The rows of a Schwab account keep their order through every loop; cancelled purchases leave in pairs; every written contract ends once; settlements have one reading. |
| `IncomeProofs` | All four properties of the income reports and of the withholding summaries. |
| `RatesProofs` | Both properties of the rates file. |
| `IsinsProofs` | Both properties of the identities and the translation file. |

`MCExports` and `MCRecords` put components side by side, not in interaction: the
registry loads brokers one after the other and none reads what another left, and
income takes a rate as given.  They only save on runs.

### How the Schwab modules correspond to the code

`transactions` is the list each loop works on, `open_lots`, `assignments` and
`settled_share_rows` the values of those names, `awards_prices` the class attribute
that outlives a load, `consumed` the set of the cancellation search.

| Phase | Action | Code |
|---|---|---|
| award | `LoadAwardFile` | `_load_award_file` |
| read | `ReadRows`, `RefuseRow` | `SchwabTransaction.create` over one file, priced by `AwardPrices.get` |
| read | `RejectOverlap`, `AcceptExports` | `load_from_dir`: the check of date ranges, the order of files |
| unify | `KeepRow`, `JoinCashMerger`, `JoinFullRedemption`, `RefuseHalf`, `NextFile` | `_unify_schwab_paired_transactions` |
| merge | `MergeExport`, `EndMerge` | the order of exports by their newest row, `load_from_dir` |
| cancel | `PassTransaction`, `CancelBuy`, `RefuseCancellation` | `_filter_cancelled_buy_transactions`, `_find_matching_buy` |
| cancel | `RejectSplit`, `FinalizeTransactions` | `_reject_split_of_a_lapse_priced_symbol`, the reversal to oldest first |
| scan | `PassRow`, `OpenLot`, `StartOutcome`, `RefuseOptionRow` | `_scan_option_activity` |
| allocate | `PassLot`, `TakeFromLot`, `RefuseUncovered`, `EndOutcome` | `_allocate_option_outcome`, closes, expiries, assignments |
| settle | `SettleAssignment`, `RefuseSettlement`, `EmitOptionTransactions` | `_find_assignment_share_transaction`, `_emit_option_transactions` |
| done | `LoadDirectory` | the same account again, as a directory, with the class-level prices as they are |

A row is the columns that decide something.  Fees are left out, so amounts are net;
so are bonds known by a CUSIP and the layout of columns.  A premium folded into the
shares of an assignment stays in `allocations`.

### How EquityAwards corresponds to the code

`at` counts the rows passed in a stage.  `CheckLapse` and `RefuseLapse` are
`_check_lapse_units`; `ConvertRow`, `DiscardRow` and `RefuseAwardRow` the conversion
of one row with its sale lots, ESPP net shares and split multiplier;
`CheckDisposalUnits` is `_check_disposal_units`.  The module never reads `truth`,
`money`, `twice` and `actual`, which say how the export was printed; the properties
do.  Field names of the JSON schema and the wording of money are left out.

### How Trading212 corresponds to the code

`ReadExport`, `RefuseExport` and `MergeExports` are the reading of files and
`_deduplicate`; `SetAside`, `PairHalves`, `RefuseComponent` the matching of halves one
connected component at a time; `CombineHalves` and `RefuseCombination` the
reorganisation made of a pair and its ratio; `RefuseRowBetween` the chronology check;
`FinishAccount` the statement.  An instant is a number of ticks and an older export
states whole seconds; money is in pence, so the tolerance of a penny is equality.
Fees and the check of totals against prices are left out.

### How Ingestion corresponds to the code

`rows` is the merged list and `next` its index.  `portfolio`, `sources`, `renames`,
`components`, `capacities` and `splits` are `run.portfolio`, `holding_sources`,
`rename_list`, `rename_components`, `split_day_capacity` and `splits`; `pool_quantity`
is the property of that name of each row; a record of `logs` holds one day and
ticker's entries in `acquisition_list`, `disposal_list`, `transfer_to_spouse_list`,
`sale_days`, `fee_days`, `gift_disposals`, `gift_prices` and `eris`.

| Phase | Action | Code |
|---|---|---|
| open | `OpenTransactionDay` | the first row of a date: `_open_transaction_day`, `plan_renames` |
| plan | `PlanStockSplit` | `plan_stock_splits`, one ticker per step: `_sole_reorganisation`, `_plan_stock_split` |
| open, plan | `NoteSource` | the end of `_open_transaction_day` |
| row | `AddAcquisition`, `AddDisposal`, `AddTransferToSpouse`, `AddGift`, `AddManagementFee`, `AddRename`, `AddEri` | the handlers of those names |
| row | `PassOver`, `RefuseOther` | rows that move only cash; rows that are not processed |
| post | `PostRow` | the balance, its end-of-day check, `reconcile_rename_day` |
| open | `Finish` | the end of `prepare_history` |

Abstractions.  A ticker is its place in alphabetical order, which decides the order
of planning and of recording a report.  Columns missing or malformed make a row
`OTHER`; the check that amount, count and price agree is one of them.  An account
stands for both the broker and currency its cash is kept under and the declared
source its units come from.  A row whose money moves on another row
(`affects_cash_balance`) has no cash, and all actions that only move cash are `CASH`.
The provisional cost of the first pass is left out: it is a figure no check and no
later step reads.  `place` orders the rows of one RAW file, the only source that
states its order; no other evidence places a row beside timestamps.  Left out
altogether: spin-offs, written options, the classification of a broker's gifts, the
splits a Trading 212 export leaves out, and periods of non-residence.  The dividend
and interest logs are in `Income`.

### How Matcher corresponds to the code

`day` is `date_index`, `portfolio` the holding's entry in `run.portfolio`,
`bnb_list` and `eris_distribution` those of `RunState`, `claimed_before` is
`bnb_claimed_before_today`, `ctx` the `DisposalContext` with the locals of the
30-day search, `report` the totals of `WalkResult`.  `identified` records what
the same-day step took and `previous` what earlier calculations returned; neither
influences a step.

| Phase | Action | Code |
|---|---|---|
| open | `OpenDay` | `bnb_claimed_before_today`, `apply_split_openings` |
| acquire | `ProcessAcquisition` | `process_acquisition` |
| reconcile | `RecordSplitReconciliations` | `record_split_reconciliations` |
| dispose | `StartSale` | the disposal loop of `walk`, `process_disposal` up to its steps |
| same_day | `MatchSameDay` | `_match_same_day` |
| bed_and_breakfast | `SearchPassesDay`, `SearchMatchesDay`, `SearchRefusesDay`, `EndSearch` | `_match_bed_and_breakfast`, `_match_across_splits` |
| section_104 | `MatchSection104` | `_match_section_104` |
| finish | `FinishDisposal` | the end of `process_disposal`, the totals and assertions of `walk` |
| transfer | `StartTransfer` | `_record_transfers_to_spouse`, `_contending_acquisitions` |
| close | `CloseDay` | `verify_split_day_closes`, `process_eri` |
| done | `Recalculate` | `calculate_capital_gain` again, `RunState.reset` |

Abstractions.  Counts are integers, a smallest unit standing for the ten decimals
the code keeps.  A disposal's fees are left out: they are shared as the proceeds
are and added to both sides of each gain.  `eris_distribution` is keyed by the day
of the report rather than six months later, and its cut at the tax year is left
out.  The calculation log is left out except for its totals.  A management fee of
nothing is not told from no fee.  A holding keeps one name, so the steps that ask
what a holding is called collapse; so does the source side of a spin-off, whose
corrected cost is simply the day's `reorganised` amount.

### How Income corresponds to the code

`history` is the `PreparedHistory`'s dividend and interest logs, `attribution`
`_attributed_dividend_tax`, `run` the one-shot flags and totals of `RunState`.

| Action | Code |
|---|---|
| `BeginFirstPass`, `RecordDividend`, `RecordDividendTax`, `RecordInterest`, `RecordOther`, `FirstPassStops` | `prepare_history`: its guard, the branches for dividends, tax and interest, a row that raises |
| `FinishFirstPass` | `_attribute_dividend_tax`, `_warn_unattributed_dividend_tax`, the summary |
| `CalculateCapitalGain` | `RunState.reset`, the guard against an unfinished first pass |
| `ProcessDividend`, `DividendsStop` | `process_dividends`, one payment per step, with `_dividend_source_country` and treaty relief |
| `FinishCalculation`, `CalculationStops` | `process_interests` and the report |
| `NextYear` | another calculator, for the next tax year, over the same account |

Amounts are multiples of every rate, so no conversion rounds; `AccountsAssumption` says
so, and that a rate is positive and a row dated within the years.  A treaty has the two
rates of `const.py`: `country_rate`, which the tax deducted is compared with, and
`treaty_rate`, which is paid as relief and is not above it (`TreatyAssumption`).  The
comparison is `approx_equal`'s, to within a penny.  Relief is kept in
parts of a currency unit too small to round; the rounding of the report's totals to
the penny is left out.

### How Rates and Isins correspond to the code

In `Rates`, `Begin` is the constructor, `AnswerKnown`, `RateMissing`, `Query` and
`DownloadFails` the branches of `currency_to_gbp_rate` and `_query_hmrc_api`,
`WriteBeside` and `MoveIntoPlace` the two halves of `save_csv`.  `Crash` may happen
between any two steps and `Edit` is a person's.  `typed` and `disturbed` are kept for
the properties alone.  HMRC's answer is any of a set of tables and may differ from
one download to the next.  The converters of the two test modes and the rate limiter
are left out.

In `Isins`, `Construct` reads and validates both tables, `LoadTransactions` sets London
tickers aside and gathers the identities, `AddFromTransaction` is the handler of one
row, `AnswerReport`, `LookUp` and `LookUpFails` the answers for one ERI row and the
saving of what was found.  A run may follow another over the same file.  Saving is
one step: its two halves are checked in `Rates`.

### Comparison with the program

The modules of a component that only reads data were compared with the program
itself: each instance the runs explore was printed as the program's input and the
program's result compared with the model's.  53,370 histories of the first pass,
121,187 loads of Schwab accounts, 10,877 equity award exports, 4,829 Trading 212
directories and 14,496 income calculations agree, in what is refused and in what
is returned.  `Rates`, `Isins` and `Matcher` were not compared this way; the
findings about `Matcher` and `Isins` were reproduced on the program.

## What is checked

The runs of `Matcher` explore every history of a family, each a sequence of day records,
and a second calculation over it.  A window of two days stands for the thirty:
the search treats all days of its window alike, so two are enough for a nearer
and a farther day, and the third day of the history falls outside it.

| Run | Question | Bounds |
|---|---|---|
| `identification` | Is every unit identified in the statutory order, once? Also: does the walk implement `ShareIdentification`, and does a second calculation agree with the first? | 5 days, the report covering days 2 to 4 so that a repurchase may fall after the year; purchases that are smaller than, equal to and larger than the disposals, sales, gifts, exempt disposals and transfers to a spouse, on days that also buy |
| `costs` | Is cost conserved, do both passes agree on units, does no assertion fail, does a claim across reorganisations take the same shares on both sides, is every unit held or treated as held charged? | 4 days; amounts of thousands to a hundred thousand fine units, against roundings of one or two each, that do not divide and are off the grid (`GRID = 3`), a penny of two grid units, fees, spun-off shares, splits 2:1, 3:2 and 1:2, corrected by one up and down, and one with no ratio; and reports on quiet days, on days that sell and on days that buy, at two prices |
| `first_pass` | Is an overdraft one of a day's close and of one account; does a gift to a connected person stand alone; do both passes end every day with the same count under every name, a reorganisation day with the broker's where it counted this holding; are sales on a rename or reorganisation day judged by the whole day; are the accounts kept right; do reports reach every name; is what the walk gets acceptable? In every order of the rows. | 4 rows of two accounts over 2 days: cash, purchases, sales, fees of either sign and a report, and gifts of two values to either kind of recipient, transfers, vests and a report; 4 rows over 3 days around a reorganisation: a RAW change, an account's change with and without a time, paired counts that the holding meets and does not meet, one without a ratio, several reports of one event or two; 4 rows of 3 tickers over 3 days: two renames into one, chains and conflicts, trades under either name, a second account, reorganisations and a report on the same days; and 4 rows of reports, repeated, of nothing or of a second fund, among the renames that connect them |
| `schwab` | Is each cancellation, contract, assignment and vest read the one way it can be, and does the cut of an account into files change nothing? | accounts of 2 to 5 rows over up to 4 days, both windows 2 days, 2 shares to a contract; every order of purchases and cancellations, of both halves of mergers and redemptions, of vests with each kind of award file, of grants and outcomes of one series and of two; every cut into two files, under either order of names |
| `exports` | Is every count in today's shares, every trade counted once and on its side of an event, every recovered ratio the true one? | award exports of 3 rows with splits 2:1 and 4:1 before, between and after them, split tables right, incomplete and a day late, 2 fine units to a share, price floor 3; up to 3 exports of up to 4 transactions over 2 days of 4 seconds of 3 ticks, with and without fractions, identifiers and the old split row; halves within a gap of 3 ticks and beyond it; 3 anonymous candidates; counts rounded to 2 units, ratios up to 6 |
| `records` | Is each withholding counted in one year and no relief given beyond it; do rates on file stay and suffice; is a row's identity free of order and the saved table readable? | 2 tax years of 3 days in months of 2, up to 4 rows of two brokers and three currencies, treaties of one rate and of two, tax that meets its rate to within a penny, passes that stop at every place; 2 runs over 4 dates of 3 months, 1 edit, 2 questions a run, 2 tables HMRC may answer; inputs of up to 3 rows of 16 kinds, 2 consecutive runs, 4 translation files |
| `eri_charged_twice`, `eri_off_grid`, `free_shares`, `eri_renamed_twice`, `schwab_cancellation`, `set_aside_ticker` | The findings below: each must be violated. | as above |

Four rows are enough for the first pass: every hazard it has relates two or three
rows and an opening holding, and the order they are read in.  One ticker is enough
where no row names another; three make two renames that meet, or a chain.  A
cancellation's search needs two cancellations and two purchases, a contract's
allocation two lots and an outcome that spans them, an overlap three like rows, a
boundary of tax years a day on either side and a window that crosses it.  Two runs
are enough for one to read before and save after the other; they are
interchangeable, so the symmetry over them is sound.

The families are values of constants (`Histories`, `Ledgers`, `Accounts`, `Exports`,
`Directories`, `Inputs`), so the properties are about the module and the family only
decides what TLC sees.  A history begins with a purchase because what comes
before one is quiet days.  `MaxRuns`, `MaxEdits` and `MaxQuestions` bound how often
something is repeated.  Deadlock is not checked: every one of these programs stops
for good when it is done or refused.

No liveness property is stated and no fairness assumed: every loop of the program
is a `for` over a finite list or range of days, so that it ends is plain from its form.

The properties of the walk, with what each could catch:

* `NoAcquisitionIdentifiedTwice`: the day's own disposals and earlier claims share
  out a purchase and never more than it. The refusal of contending sales and
  transfers is what makes it true.
* `OwnDayComesFirst`: a claim made days earlier leaves the units its day's own
  disposals will need.
* `ImplementsIdentification`: both, and that nothing reaches the pool while a
  purchase in the window has a unit to give, as step refinement.
* `ClaimsPrecedeAcquisition`: no claim lands on a day already priced.
* `CostConserved`: what was acquired or charged is in the pool, was allowed, or
  is on its way to a repurchase, up to the roundings the walk actually made: a count
  of them, each worth at most its own step.  It is checked on amounts thousands of times
  larger, so that a claim priced over the wrong units, a report left out of a basis or
  a share taken twice is far outside the bound.
* `ClaimsFollowTheRatio`: a claim takes the same shares on both sides of what lies
  between, by the ratio of the reorganisations on the way; and where one of them
  states no ratio, no claim reaches across it.
* `PassesAgreeOnUnits`, `NoAssertionFails`, `EriReachesEveryUnit`,
  `RecalculationAgrees`.

Of the first pass:

* `PassesAgreeAtEachClose`: at every day's close the provisional count under each
  name is the count the walk will rebuild from the logs; and no count is short, as
  long as no day pools a reorganised holding with another name that holds units,
  which the walk refuses, or that is reorganised as well.
* `HandsOverAcceptedHistory`: the record of a holding that is never renamed
  satisfies `Accepted`, which is what the families of `Matcher` assume.
* `ClosesOnBrokersCount`: a holding the broker counted closes its reorganisation
  day on the broker's count and what came after it.
* `BrokerDeltaIsWhole` and `SourcesMatchHolding`: an account's own change is read as
  the whole holding's only when every unit came from that account, and the accounts
  kept are those, through same-day sales, renames and emptied holdings.
* `RenameDayOrderFree`: sales on a rename day are refused exactly when together they
  exceed what the names can give up, provided none of the names closed the day before
  short: names that cancel out to a capacity of 0 are read as a holding that was never
  there (`rename_planning.py:210`), and each row is then held to its own name's count.
* `ReorganisationDayOrderFree`: the day of a reorganisation is judged as a whole, before its
  rows: none of its sales is refused for where it stands among the rows that add, and
  what the day gives up is no more than its opening count, restated and corrected, and
  what it adds.
* `OverdraftsAreReal`: only an account's balance at its last row of a day is judged,
  whatever the order and wherever in the day a report stands, which moves no cash.
* `ConnectedGiftStandsAlone`.
* `ReportsReachEveryName`: a report of excess income is recorded under every name its
  fund is held under in the run, also one a later row renames it to, when no ticker is
  renamed twice (finding 4) and no name belongs to two funds that report on one date.
  The second condition is needed: of two funds that renames join through a name
  neither ISIN states, the later report meets the earlier one's under that name and is
  skipped as its duplicate if the prices agree, and refused if they do not
  (`ingestion.py:1444`), so the fund's own ticker may be left without it.

Of Schwab accounts:

* `CancelledInPairs`: the cancellations passed so far and the purchases gone with
  them are in a one-to-one pairing within the window.
* `DirectoryEqualsOneFile`: an account cut into exports is loaded as the one file
  was, or refused, and refused only if the file was or a date is cut in two.
* `ContractsEndOnce`: of each series, outcomes and lots come to the same contracts
  and cost, the oldest lot first.
* `OneReadingOfSettlements`: no other choice of share rows fits the assignments.
* `CashAndSharesKept`: lifecycles move shares in time, never cash.
* `VestCostsAreTheirs`: a vest is priced from this load's award file, though the
  prices are a class attribute, and never across a split.

Of the other exports:

* `UnitsAreCurrent`: each count is what really changed hands in today's shares,
  wherever the split table is right or a lapse of the same stretch witnesses it.
* `RestatedDisposalWarned`: as long as prices move less than the square root of the
  split, exactly the disposals that would be converted twice are warned about.
* `AccountCountedOnce`: overlapping exports come to the shares and cash of the
  transactions reported, each once.
* `EveryTradeOnItsSide`: the statement puts each trade on the side of a paired
  reorganisation it really was on, though a copy states only its second.
* `RatioIsTrue`: a ratio recovered from two rounded counts is the true one.
* `MergeIgnoresFileNames`: the merge does not depend on the order of the files.

Of income and the files:

* `WithholdingInOneYear`: over consecutive years a withholding with one payment it
  could be of is counted there, once; any other is counted nowhere and every year
  concerned is warned.
* `SummariesCountEachOnce`: between them the years' summaries state each withholding
  once.
* `ReportMatchesRows`: a report is of the whole history, whatever stopped before it
  and however often it was calculated.
* `ReliefIsWithheld`: relief goes to payments of a treaty country and is less than a penny
  more than the tax withheld.  A penny of what: `approx_equal` compares in the payment's
  currency when payment and tax are in the same one, and in pounds otherwise.
* `TypedRowsSurvive`: a row typed while no run had the file open is never lost.
* `EveryRateUsedIsOnFile`: the rates an undisturbed run has used are those the next
  reader gets.
* `IdentityOrderFree`: which security a row is, and whether the rows are refused,
  depends on the rows as a set.
* `SavedTableLoads`: a run that could read the translation file leaves one that agrees
  with the bundled table on every ticker that run did not set aside.  The file of a run
  that set none aside is one the next run can read; about a ticker that was, finding 6.

### Findings

1. **ERI off the grid** (`eri_off_grid`). `process_eri` adds an unrounded charge to
   the pool, and the 30-day step asserts that a pool emptied of units is empty of
   cost to 23 decimals. A fund reporting in a foreign currency, sold whole and
   bought back within 30 days, ends the run in an `AssertionError`.
2. **ERI charged twice** (`eri_charged_twice`). A repurchase on the report's own
   day is charged once by the search, as units treated as held, and once at the
   day's close, as units held. The documentation of `add_eri` has it due on the
   shares owned at the end of the day.
3. **Negative remainder** (`free_shares`). Two separately rounded shares of one
   purchase can exceed it by one grid unit. The pool is left with that unit below
   zero, and an acquisition of free shares that inherits it fails the assertion
   that a basis is never negative.
4. **Ticker renamed twice** (`eri_renamed_twice`). The renames of the run are kept in
   a dictionary by old ticker, so of two renames of one ticker on different dates the
   first is lost, and a report does not reach the shares held under that name.
5. **Cancellations served newest first** (`schwab_cancellation`). A cancellation
   takes the nearest purchase on an older line before one of its own date above it.
   With a purchase and a cancellation of one day, and before them a cancellation and
   then a purchase, the first takes the older purchase and the second finds none:
   the account is refused, though a pairing exists.  The comment at `schwab.py:749`
   gives only two causes for the refusal; the message itself allows a third,
   that the purchase is "already reversed by another cancellation".

6. **A London ticker saved for another security** (`set_aside_ticker`).  A bundled London
   ticker that is also the symbol of a row from the US is taken out of the run's
   reference data.  A lookup for another security may then bring that very ticker; the
   check before the save looks at the reference data and lets it pass, and the next run
   reads the file against the bundled table and refuses it.  The comment at
   `isin_converter.py:452` has the check there so that the save does not "break that
   run's construction".

All six were reproduced on the program itself, the last with the lookup's answer given
to the converter.  `CostConserved` and
`NoAssertionFails` are checked on families that leave these corners out; the
bound of `CostConserved` covers the double charge, which enters both sides.

## What is proved

`tlapm` checks every proof from nothing.  The theorems hold for every family of
histories, every length, every window and every grid, for every Schwab account
however it is cut into files, and for any number of runs, dates and currencies,
for any rows, tables and lookups of the identities, for any rows of income, rates,
windows of days, treaties and number of tax years,
under the assumptions named in `Amounts`, `History`, `Matcher`, `Ingestion`, `SchwabOptions`,
`SchwabExport`, `Income`, `Rates` and `Isins`.  These say that the constants have their types, in
`Ingestion` that merged rows are sorted by date and none moves less than a unit, in
`Rates` that a shipped rate belongs to a shipped month, in `Isins` that a run's rows and
reports are finite lists, in `Income` that amounts are multiples of their rates and that
the value for a missing currency is none, and in `SchwabExport` that an
account's rows are newest first and dated the day they were posted, as Schwab exports
them; the vests get other dates only when they are priced.

Of the walk:

* `TypeCorrect` (`Spec => []TypeOK`). The invariant is inductive as it stands, but
  each amount a step computes needs its bound: the lemmas on `RoundHalfUp`,
  `normalize_amount`, `ShareOfCost`, `scale_quantity` and the split conversions say
  which operators return naturals and which integers.
* `PoolAlwaysCovers` (`Spec => []PoolCoversDisposal`): the units left are never
  more than the pool the disposal sees, from the assertion that opens
  `process_disposal` and the fact that each step takes equally from both.
* `OwnDayAlwaysFirst` (`Spec => []OwnDayComesFirst`).
* `IdentifiedOnce` (`Spec => []NoAcquisitionIdentifiedTwice`). Not inductive alone:
  nothing in it says that the day's own disposals still fit when claims were made
  first. The strengthening `OnceEach` adds that a claimed day keeps room for its
  own disposals, that what a day's own disposals took is at most what they ask for,
  how far the sale of a day has got by phase (so that a transfer after a sale finds
  either nothing in dispute or an accepted remainder), that days not reached are
  untouched, and that the counts noted at the day's opening are the claims of that
  moment whenever the day has a transfer.
* `ClaimsAlwaysPrecede` (`Spec => ClaimsPrecedeAcquisition`): a claim is made only on
  a day after the one being walked.
* `ClaimsAlwaysFollowTheRatio` (`Spec => ClaimsFollowTheRatio`).  The code composes the
  ratios of the splits it passes one after the other (`RatioOnTheWay`), the property
  folds them over a set of days in whatever order; both give the same because
  composing is commutative and associative, and a fold over the days up to one is
  the fold over the days before it and that day (`RatioExtends`).
* `WalkImplementsIdentification` (`ImplementsIdentification`, for a holding that
  `NeverReorganised`): the refinement, action by action.  That a step may take what it
  takes is in `OnceEach`; that nothing reaches the pool too early needs `InOrder`, which
  adds what the search has passed (`PassedDaysAreSpent`) and where it stands
  (`SearchOrder`).  `ShareIdentification` counts units of one kind, so it says nothing
  of a history that restates them on the way; the hypothesis is the same as that of
  the family TLC checks it on.
* `PassesAlwaysAgree` (`Spec => []PassesAgreeOnUnits`), for every history, reorganised
  or not.  The invariant `CountsAgree` gives the pool at every phase of a day as the
  first pass's count carried as far as that phase.  The count, `Holding`, is a
  recursion over the days: that it satisfies its own equation is shown by induction.
* `EriAlwaysReaches` (`Spec /\ NeverReorganised => []EriReachesEveryUnit`).  Every
  claim is recorded on the reports passed on the way to it (`ReportsPassed`), so what
  is charged on a report not yet closed covers the claims of the days after it
  (`ClaimsCharged`), and the day's close adds the holding.  The property adds up
  claims of several days, which a reorganisation between them puts in different
  units: hence the hypothesis; no holding TLC checks reports on is reorganised.
* `AssertionsHold` (`Spec /\ Accepted(history) /\ ReportsOnGrid /\
  []RepurchaseBasisNotNegative => []NoAssertionFails`).  Each hypothesis is a claim
  of the code's own, and two of them are false in a corner: `ReportsOnGrid` of a report
  in a foreign currency (finding 1), `RepurchaseBasisNotNegative` of free shares
  bought back (finding 3).  The theorem says that these corners are the only ones, for
  every history the first pass accepts.  `Unfailing` collects what the assertions
  lean on: the pool holds what the first pass counted (`CountsAgree`), so no disposal
  finds it short; the claims on an acquisition leave room for its own day
  (`OnceEach`); and in `Faultless`, that every cost is on the grid, so that what is
  left of an emptied pool is nothing and not merely less than a grid unit, and that
  the proceeds given out and the proceeds left add up to the disposal's (`Balanced`).

Of the first pass, for any merged history of any tickers and accounts:

* `FirstPassTyped` (`Spec => []Typed`).  The units a reorganisation restates are
  integers only because the planning accepted it; the types of what is planned are
  part of the invariant (`PlansTyped`).
* `GiftsAlwaysStandAlone` (`Spec => []ConnectedGiftStandsAlone`).  The property speaks
  of rows and of the day's log, which reading builds one row at a time: `GiftsInv` says
  that each gift, sale and fee read has left its mark on its day's log, and that no
  log marked by a connected gift is marked by a sale: so a sale read after the gift
  is refused as surely as one read before it.
* `OverdraftsAlwaysReal` (`Spec => []OverdraftsAreReal`).  `CashInv` gives each account's
  balance as the cash of the rows read so far, a sum over a growing set; at an
  account's last row of a day that set is all of the account's rows up to the day.
* `ReportsAlwaysReachEveryName` (`Spec => []ReportsReachEveryName`).  A fund's names are a
  matter of the history, not of how far it is read (`HistoryAlone`); the names are a
  closure over any set of pairs, and nothing of the closure is used but that two
  funds' are disjoint.  `ReportsInv` says that a report read stands under every name of
  its fund, and that no report stands under a name that none of a fund's put there: so
  a name found reported means that all are, at that price, and the loop that stops at
  the first has nothing left to record.

* `ClosesAlwaysAgree` (`Spec => []PassesAgreeAtEachClose`).  In the middle of a day
  the two sides of the property are far apart: planning has restated some names and
  not others, rows have been recorded that a rename will move, and the gathering of
  renamed holdings is one step at the day's last row.  Three invariants carry it.
  * `Structure`: days are opened in order (`Calendar`), a day not opened has nothing
    recorded (`DaysBlank`), the names renamed into one end in one place (`EndsMerged`),
    and the figures planned for a reorganisation are those of a holding that opened the
    day with them (`PlansFit`).
  * `Agreement`: what the names that end together hold is, together, what the walk
    rebuilds of the day so far.  It is stated three times, for the places of the loop:
    between days (`Settled`), with the names still to be planned (`AtOpening`) and among
    the day's rows (`InDay`).  Only the sum over such names is invariant, since a row
    may state either name; a handler adds to one of its terms what it records.
  * `Covered`: the day's rows still to be read cannot bring the close below zero.  What
    covers them differs: for a reorganised holding what its plan left
    (`ReorganisedLeaves`), for a renamed one the capacity `plan_renames` gave the day
    (`RenamedLeaves`), for any other what the row's own check finds (`OtherLeaves`).
  The non-negativity keeps the property's own hypothesis `ReorganisedApart`: no holding
  is reorganised on a day that pools it with another name that holds units, or that
  is reorganised too.  The walk refuses the first kind of day; the first pass plans
  either as if each name were the whole holding, so what it accepts there is no bound
  on what is left.  The equality of counts needs no hypothesis.
* `HandsOverAlways` (`Spec => []HandsOverAcceptedHistory`).  This is where the proofs of
  the two passes meet: the walk's theorems start from any history that satisfies
  `PreparedHistory` and `Accepted`, and this one says that the first pass hands over
  nothing else about a holding that is never renamed.  A reorganisation planned at the
  day's opening states a close that only the day's last row makes true, so `HandOver`
  counts what is still to come: the replayed count of a planned day, with what the rows
  still ahead move, is the close its plan states, and the plan's opening count is the
  replayed close of the day before; any other day is at no moment below nothing.  The
  close is kept for any name the day itself does not rename (`PlansMet`), the rest for
  a holding never renamed at all (`DaysAccepted`).  It leans on `Agreement` twice: for the provisional count the plan
  read, and for the count against which a row's own check refused to go short.
  A holding that a rename touches stays outside, since the walk has one name.
* `ClosesAlwaysOnBrokersCount` (`Spec => []ClosesOnBrokersCount`).  The property reads rows
  as the broker stated them, the plan reads them as they are pooled; `PlansCounted` says
  that the two are the same until the plan of their own holding is made, since a plan
  restates rows of the names its day pools with it and of no others, and that each plan
  made states as its close the broker's count and what the later rows move.  That the
  day's rows then arrive there is `PlansMet` of `HandOver`.
* `SourcesAlwaysMatch` (`Spec => []SourcesMatchHolding`) and `BrokerDeltaAlwaysWhole`
  (`Spec => []BrokerDeltaIsWhole`).  `CameFrom` is a recursion over the days of the whole
  history; `CameFromByDay` proves by induction over days that it satisfies its own
  equation, and `CameFromSame` that a day's value depends on nothing recorded later.
  `SourcesInv` then says what the accounts kept beside a holding are, for the places
  of the loop: what it came from, between days (`SourcesSettled`) and for a name whose
  day is being planned (`SourcesAtPlan`); and among the day's rows (`SourcesInDay`), for
  names that end together only, what all of them came from with the increases noted
  so far, since a rename moves accounts before it moves units.  The plan of a broker's
  own row asks this set whether the row speaks of the whole holding, and
  `BrokerDeltaIsWhole` asks the rows.  Both properties once carried the hypothesis
  `ReorganisedApart`; the proof never used it, so they are stated, checked and proved
  without it.
* `RenameDayAlwaysOrderFree` (`Spec => []RenameDayOrderFree`).  The rows of a day are
  checked one at a time, under the name each states, before or after the row that
  renames it; the property adds them up under all the names.  `RenameDays` carries the
  sum: what `plan_renames` counted is what the names closed the day before with and what
  the day's rows add (`CapacityIs`, by `Agreement` at the day's opening), it stands
  because no reorganisation restates a row of such a holding (`AsStated`), and what is
  left of it after the sales read so far is what their logs say, and not below nothing
  (`SalesWithin`).  A refusal is then a row that, with the sales before it, is already too much,
  and a history read to its end has every sale among those counted.  The proof gave the
  property its hypothesis that no name closed short: a capacity of 0 means that nothing
  was there (`EmptyToday`) only when no count is negative.

Of a Schwab account:

* `RowsStayInOrder` (`Spec => [](TypeInv /\ OrderInv)`).  Joining removes rows but never
  moves one past another, the files do not overlap once they are accepted, and
  merging takes the file with the newest row first: so the rows the searches run
  over are newest first, whichever file each came from.
* `PurchasesCancelInPairs` (`Spec => []CancelledInPairs`).  The pairing is built as the
  search goes: the purchase a cancellation takes is in no earlier pair because it
  is not `consumed`, and it is inside the window because the rows are in order.
* `SettlementsReadOneWay` (`Spec => []OneReadingOfSettlements`).  Each assignment was
  given the only row that fitted among those left by the earlier ones (`SettledInv`);
  by induction on the assignments any other way of serving them all agrees with it
  on the first, and so leaves the second the same choice.
* `EveryContractEndsOnce` (`Spec => []ContractsEndOnce`).  `EndsInv` adds to the
  property what it leans on: the rows read were valid (`RowsRead`); no lot is newer
  than the rows still to come, so the test of dates in `_allocate_option_outcome` never
  passes over a lot and leaves it for a later outcome (`LotsInv`); what the outcome
  has taken so far, from lots before the one it looks at, all of its own series and
  each once (`OutcomeInv`); the sums per series (`SumsInv`); and where the assigned
  contracts came from (`AssignedInv`).  A step changes a sum over lots in one place, or
  in the places the allocations name; the laws of sums in `Induction` and the lemma
  `CloseSpreads` say how, and `SharesAddUp` that the last lot takes what rounding left.

Of income, with one invariant, `IncomeInvariant` (`IncomeSpec => []IncomeInv`), under
all four.  The properties read the rows, the code reads five logs of them that add
up what they share a key with, and combines what is in two currencies.  `Recorded`
says what the logs are of the rows read so far: a payment is in one currency and
worth its rows' pounds, a withholding and interest keep their rows' currency and are
their sums.  `Stages` adds where the two methods stand, and that
an attribution once made gives each payment what was withheld from it (`TaxSound`);
`Calculated` what a calculation half way has counted, which are the payments of the
year already taken (`Done`) and never anything of an earlier one; `Results` what the
finished years' reports, summaries and warnings say of the rows.  A stopped
calculation leaves only its run behind, and the next one resets that.

* `ReportsAlwaysMatchTheRows` (`IncomeSpec => []ReportMatchesRows`).  Interest is added
  by month and converted at the rate of the month's last day; the property converts
  row by row (`GroupInPounds`).  Both agree because a row belongs to one group
  (`LastKeyIs`) and pounds add up where amounts are multiples of the rates
  (`SumOfWhole`).
* `WithholdingAlwaysInOneYear` (`IncomeSpec => []WithholdingInOneYear`).  Several
  withholdings may meet on one payment, pounds and a foreign currency among them;
  what `SumOn` makes of them is worth what the rows are (`CarriedInPounds`).  Keys whose
  rows cancel out are dropped before, and change nothing (`TakenInPounds`).
* `SummariesAlwaysCountEachOnce` (`IncomeSpec => []SummariesCountEachOnce`).  Each row is
  dated by its one payment or by itself (`CountedOn`), which puts it in one year; a
  year's line is the sum of the rows dated in it (`SummaryIs`), so the years' lines add
  up to all rows, part by part (`YearsHoldEachOnce`).
* `ReliefAlwaysWithheld` (`IncomeSpec => []ReliefIsWithheld`).  The relief is
  at most the tax expected at `country_rate`, because the rate paid is not above the rate
  compared (`ReliefAtTheRate`), and the tax expected is within a penny of the tax
  withheld.  That is in the currency both are in; where they differ, both were compared in
  pounds (`ReliefExchanged`).  `TreatyRelief` joins the two cases.

Of identities and the translation file:

* `SavedTableAlwaysLoads` (`IsinsSpec => []SavedTableLoads`).  The next run reads the file
  under the bundled table, while the write check looks at the run's reference data.
  `Saved` ties the two: every row of the bundled table with the file on top is in the
  reference data but for the tickers this run set aside, whatever lookups have added
  to both since; a part of a valid table is valid.
* `IdentityNeverByOrder` (`IsinsSpec => []IdentityOrderFree`).  The code reads rows one
  by one into two dictionaries; the property speaks of the set of rows.  `Ordered` says
  what they hold after each row as operators of the rows read so far (`ReadUpTo`),
  none of which knows their order, and the refusals as conditions on such a set that
  no later row can undo.

Of the rates file:

* `TypedRowsAlwaysSurvive` (`RatesSpec => []TypedRowsSurvive`) and `AnswersStayOnFile`
  (`RatesSpec => []EveryRateUsedIsOnFile`).  A save writes a run's whole cache, so
  neither is inductive: something must tie each cache to the file.  `RatesInvariant`
  adds that a typed row is in the cache of every run that has the file open
  (`TypedRowsRead`), that two such runs disturb each other (`Overlapping`), that the
  cache of an undisturbed run between saves is the file (`CacheIsTheFile`), that
  whoever has the file open would give the same answers (`AnswersAreShared`), and
  how far a run has got (`Progress`, `Shapes`).  A download only adds to a cache,
  which is why a later save keeps what an earlier one wrote.

`Induction` derives induction over sets of naturals, and over the subsets of a finite
set, from the library's facts about well-founded relations; its lemmas are stated
over a set the proof defines, which avoids the library's theorems that take an
operator.  From it follow the laws of `SumFunctionOnSet`: a fold over a set, in an
order nobody states, gives the same sum whichever index is taken first.

Only model-checked: `CostConserved` (its bound is on an accumulation of roundings),
`RecalculationAgrees` (the relation of two
executions), `DirectoryEqualsOneFile` (likewise), `CashAndSharesKept`,
`VestCostsAreTheirs`, `ReorganisationDayOrderFree`, and everything about equity
awards and Trading 212.

## Not modelled

* How the walk follows the names of a holding on a day that renames it.  The first
  pass's side is modelled, and that both agree at the day's close; the walk has one
  name.  Spin-offs move cost between two holdings and need two in the walk.
* The composition of both passes as one specification: the families of `Matcher` are
  histories that satisfy what `HandsOverAlways` proves of the last states of
  `Ingestion`, not those states themselves.
* The classification of a broker's gifts (`_match_gifts_to_rows`), the splits that a
  Trading 212 export leaves out, written options after the parser, disposal fees,
  periods of non-residence.
* Vanguard and Sharesight, and the parsers that translate a row alone: columns and text.
* The ERI importers, which fill the bundled files; market prices and spin-off answers,
  which are lookups; the command line and the reports, which format finished figures.
* Column layouts, wording, rendering and web requests anywhere.
