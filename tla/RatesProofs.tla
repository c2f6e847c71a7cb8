----------------------------- MODULE RatesProofs -----------------------------
(***************************************************************************)
(* The two properties of the rates file hold for any runs, dates, tables   *)
(* and edits.  Both come from one invariant: between saves an undisturbed  *)
(* run's cache is the file, and a download only adds to a cache.           *)
(***************************************************************************)
EXTENDS RatesProperties, TLAPS

IsRows(rows) == rows = [cell \in Cells |-> rows[cell]]
ByRun(f) == f = [r \in Runs |-> f[r]]

(***************************************************************************)
(* The shapes of what is written and read; nothing is asked of a rate.     *)
(***************************************************************************)
Shapes ==
    /\ IsRows(exchange_rates_file) /\ IsRows(typed)
    /\ stage \in [Runs -> Stages]
    /\ ByRun(cache) /\ \A r \in Runs : IsRows(cache[r])
    /\ ByRun(answers) /\ \A r \in Runs : IsRows(answers[r])
    /\ ByRun(temporary) /\ ByRun(wanted)
    /\ named \subseteq Runs

(***************************************************************************)
(* Where a run has got to, and what that says of what it holds.            *)
(***************************************************************************)
Progress ==
    \A r \in Runs :
      /\ stage[r] = "waiting" => r \notin named /\ answers[r] = NoRows
      /\ stage[r] = "moving" => r \in named /\ temporary[r] = cache[r]
      /\ stage[r] \in {"saving", "moving"} =>
           \E d \in Dates, c \in Currencies : wanted[r] = <<d, c>> /\ Downloadable(d)

(***************************************************************************)
(* A row typed while no run had the file open is in every cache since.     *)
(***************************************************************************)
TypedRowsRead ==
    \A r \in Live, cell \in Cells : typed[cell] # NoRate => cache[r][cell] = typed[cell]

(***************************************************************************)
(* Two runs that have the file open disturb each other; one undisturbed    *)
(* holds, between saves, exactly what is on file.                          *)
(***************************************************************************)
Overlapping == \A r, q \in Live : r # q => r \in disturbed
CacheIsTheFile ==
    \A r \in Live \ disturbed : stage[r] = "running" => cache[r] = exchange_rates_file

(***************************************************************************)
(* Whoever has the file open would give an undisturbed run's answers.      *)
(***************************************************************************)
AnswersAreShared ==
    \A r \in named \ disturbed, q \in Live, d \in Dates, c \in Currencies :
      answers[r][<<d, c>>] # NoRate => RateIn(cache[q], d, c) = answers[r][<<d, c>>]

RatesInvariant ==
    /\ Shapes /\ Progress
    /\ TypedRowsSurvive /\ TypedRowsRead
    /\ Overlapping /\ CacheIsTheFile
    /\ EveryRateUsedIsOnFile /\ AnswersAreShared

----------------------------------------------------------------------------
(***************************************************************************)
(* A rate that may be downloaded is never a shipped one, so what a reader  *)
(* is given for it is the row itself.                                      *)
(***************************************************************************)
LEMMA DownloadedRateIsTheRow ==
  ASSUME NEW rows, NEW d \in Dates, NEW c \in Currencies, Downloadable(d)
  PROVE  RateIn(rows, d, c) = rows[<<d, c>>]
BY RatesAssumption DEF RateIn, Downloadable

(***************************************************************************)
(* A download changes no rate that the rows it joins already answer.       *)
(***************************************************************************)
LEMMA MergedKeepsRates ==
  ASSUME NEW rows, NEW table, NEW date \in Dates, Downloadable(date),
         NEW d \in Dates, NEW c \in Currencies, RateIn(rows, d, c) # NoRate
  PROVE  RateIn(Merged(table, rows, date), d, c) = RateIn(rows, d, c)
<1>1. <<d, c>> \in Cells
  BY DEF Cells
<1>2. CASE d = date
  <2>1. rows[<<d, c>>] # NoRate
    BY <1>2, DownloadedRateIsTheRow
  <2>2. Merged(table, rows, date)[<<d, c>>] = rows[<<d, c>>]
    BY <1>1, <2>1 DEF Merged
  <2> QED BY <2>2 DEF RateIn
<1>3. CASE d # date
  <2>1. Merged(table, rows, date)[<<d, c>>] = rows[<<d, c>>]
    BY <1>1, <1>3 DEF Merged
  <2> QED BY <2>1 DEF RateIn
<1> QED BY <1>2, <1>3

----------------------------------------------------------------------------
LEMMA InitHolds == RatesInit => RatesInvariant
<1> SUFFICES ASSUME RatesInit PROVE RatesInvariant
  OBVIOUS
<1>1. Shapes /\ Progress
  BY DEF RatesInit, Shapes, Progress, IsRows, ByRun, NoRows, Stages
<1>2. TypedRowsSurvive /\ EveryRateUsedIsOnFile
  BY DEF RatesInit, TypedRowsSurvive, EveryRateUsedIsOnFile, NoRows
<1>3. Live = {} /\ named = {}
  BY DEF RatesInit, Live
<1> QED
  BY <1>1, <1>2, <1>3 DEF RatesInvariant, TypedRowsRead, Overlapping, CacheIsTheFile,
     AnswersAreShared

(***************************************************************************)
(* A run that begins reads the file as it is; it answers what the file does.*)
(***************************************************************************)
LEMMA BeginKeeps ==
  ASSUME RatesInvariant, NEW r \in Runs, NEW given \in BOOLEAN, Begin(r, given)
  PROVE  RatesInvariant'
<1>1. Shapes'
  BY DEF RatesInvariant, Begin, Shapes, IsRows, ByRun, NoRows, Stages
<1>2. /\ stage[r] = "waiting" /\ r \notin named /\ r \notin Live
      /\ stage' = [stage EXCEPT ![r] = "running"] /\ stage \in [Runs -> Stages]
      /\ answers[r] = NoRows
  BY DEF RatesInvariant, Begin, Shapes, Progress, Live
<1>3. Progress'
  BY <1>2 DEF RatesInvariant, Begin, Progress, Shapes, ByRun, Downloadable
<1>4. TypedRowsSurvive'
  BY DEF RatesInvariant, Begin, TypedRowsSurvive
<1>5. CASE given
  <2>1. Live' = Live \cup {r} /\ named' = named \cup {r}
    BY <1>2, <1>5 DEF Begin, Live
  <2>2. /\ cache'[r] = exchange_rates_file
        /\ \A q \in Runs \ {r} : cache'[q] = cache[q]
        /\ UNCHANGED <<exchange_rates_file, typed, answers>>
    BY <1>5 DEF RatesInvariant, Begin, Shapes, ByRun
  <2>3. /\ disturbed \subseteq disturbed' /\ Live \subseteq disturbed'
        /\ Live # {} => r \in disturbed'
    BY <1>5 DEF Begin
  <2>4. TypedRowsRead'
    BY <1>2, <2>1, <2>2 DEF RatesInvariant, TypedRowsRead, TypedRowsSurvive, Live
  <2>5. Overlapping' /\ CacheIsTheFile'
    BY <1>2, <2>1, <2>2, <2>3 DEF RatesInvariant, Overlapping, CacheIsTheFile
  <2>6. \A q \in (named \ disturbed)', d \in Dates, c \in Currencies :
          answers'[q][<<d, c>>] # NoRate => q \in named \ disturbed
    BY <1>2, <2>1, <2>2, <2>3 DEF Cells, NoRows
  <2>7. EveryRateUsedIsOnFile'
    BY <2>2, <2>6 DEF RatesInvariant, EveryRateUsedIsOnFile, RateIn
  <2>8. AnswersAreShared'
    <3> SUFFICES ASSUME NEW q \in (named \ disturbed)', NEW s \in Live',
                        NEW d \in Dates, NEW c \in Currencies,
                        answers'[q][<<d, c>>] # NoRate
                 PROVE  RateIn(cache'[s], d, c) = answers'[q][<<d, c>>]
      BY DEF AnswersAreShared, RateIn
    <3>1. q \in named \ disturbed
      BY <2>6
    <3>2. CASE s = r
      BY <3>1, <3>2, <2>2 DEF RatesInvariant, EveryRateUsedIsOnFile
    <3>3. CASE s # r
      BY <3>1, <3>3, <2>1, <2>2 DEF RatesInvariant, AnswersAreShared, Live
    <3> QED BY <3>2, <3>3
  <2> QED BY <1>1, <1>3, <1>4, <2>4, <2>5, <2>7, <2>8 DEF RatesInvariant
<1>6. CASE ~given
  <2>1. Live' = Live
    BY <1>2, <1>6 DEF Begin, Live
  <2>2. /\ \A q \in Live : cache'[q] = cache[q] /\ stage'[q] = stage[q]
        /\ UNCHANGED <<exchange_rates_file, typed, answers, named, disturbed>>
    BY <1>2, <1>6 DEF RatesInvariant, Begin, Shapes, ByRun, Live
  <2>3. TypedRowsRead' /\ Overlapping' /\ CacheIsTheFile'
    BY <2>1, <2>2 DEF RatesInvariant, TypedRowsRead, Overlapping, CacheIsTheFile
  <2>4. EveryRateUsedIsOnFile' /\ AnswersAreShared'
    BY <2>1, <2>2 DEF RatesInvariant, EveryRateUsedIsOnFile, AnswersAreShared, RateIn
  <2> QED BY <1>1, <1>3, <1>4, <2>3, <2>4 DEF RatesInvariant
<1> QED BY <1>5, <1>6

(***************************************************************************)
(* What is answered at once comes from the cache, and so from the file if  *)
(* nobody disturbed the run.                                               *)
(***************************************************************************)
LEMMA AnswerKeeps ==
  ASSUME RatesInvariant, NEW r \in Runs, NEW d \in Dates, NEW c \in Currencies,
         AnswerKnown(r, d, c)
  PROVE  RatesInvariant'
<1>1. /\ UNCHANGED <<exchange_rates_file, temporary, stage, named, cache, wanted, typed,
                     disturbed>>
      /\ answers' = [answers EXCEPT ![r][<<d, c>>] = RateIn(cache[r], d, c)]
      /\ stage[r] = "running" /\ <<d, c>> \in Cells
  BY DEF AnswerKnown, Asks, Cells
<1>2. Live' = Live
  BY <1>1 DEF Live
<1>3. Shapes'
  BY <1>1 DEF RatesInvariant, Shapes, IsRows, ByRun
<1>4. \A q \in Runs : q # r => answers'[q] = answers[q]
  BY <1>1 DEF RatesInvariant, Shapes, ByRun
<1>5. Progress'
  BY <1>1, <1>4 DEF RatesInvariant, Progress, Downloadable
<1>6. TypedRowsSurvive' /\ TypedRowsRead' /\ Overlapping' /\ CacheIsTheFile'
  BY <1>1, <1>2 DEF RatesInvariant, TypedRowsSurvive, TypedRowsRead, Overlapping,
     CacheIsTheFile
<1>7. ASSUME NEW q \in (named \ disturbed)', NEW date \in Dates, NEW code \in Currencies,
             answers'[q][<<date, code>>] # NoRate
      PROVE  /\ RateIn(exchange_rates_file, date, code) = answers'[q][<<date, code>>]
             /\ \A s \in Live : RateIn(cache[s], date, code) = answers'[q][<<date, code>>]
  <2>1. q \in named \ disturbed /\ q \in Runs
    BY <1>1, <1>7 DEF RatesInvariant, Shapes
  <2>2. CASE q = r /\ <<date, code>> = <<d, c>>
    <3>1. answers'[q][<<date, code>>] = RateIn(cache[r], date, code)
      BY <1>1, <2>1, <2>2 DEF RatesInvariant, Shapes, IsRows, ByRun
    <3>2. r \in Live
      BY <1>1, <2>1, <2>2 DEF Live
    <3>3. cache[r] = exchange_rates_file
      BY <1>1, <2>1, <2>2, <3>2 DEF RatesInvariant, CacheIsTheFile
    <3>4. \A s \in Live : s = r
      BY <2>1, <2>2, <3>2 DEF RatesInvariant, Overlapping
    <3> QED BY <3>1, <3>3, <3>4
  <2>3. CASE q # r \/ <<date, code>> # <<d, c>>
    <3>1. answers'[q][<<date, code>>] = answers[q][<<date, code>>]
      BY <1>1, <2>1, <2>3 DEF RatesInvariant, Shapes, IsRows, ByRun, Cells
    <3> QED BY <1>7, <2>1, <3>1 DEF RatesInvariant, EveryRateUsedIsOnFile, AnswersAreShared
  <2> QED BY <2>2, <2>3
<1>8. EveryRateUsedIsOnFile' /\ AnswersAreShared'
  BY <1>1, <1>2, <1>7 DEF EveryRateUsedIsOnFile, AnswersAreShared, RateIn
<1> QED BY <1>3, <1>5, <1>6, <1>8 DEF RatesInvariant

(***************************************************************************)
(* A download adds rows and takes none away.                               *)
(***************************************************************************)
LEMMA QueryKeeps ==
  ASSUME RatesInvariant, NEW r \in Runs, NEW d \in Dates, NEW c \in Currencies, NEW table,
         Query(r, d, c, table)
  PROVE  RatesInvariant'
<1>1. /\ UNCHANGED <<exchange_rates_file, temporary, named, answers, typed, disturbed>>
      /\ stage[r] = "running" /\ Downloadable(d)
      /\ stage' = [stage EXCEPT ![r] = "saving"]
      /\ cache' = [cache EXCEPT ![r] = Merged(table, cache[r], d)]
      /\ wanted' = [wanted EXCEPT ![r] = <<d, c>>]
  BY DEF Query, Asks
<1>2. Shapes'
  BY <1>1 DEF RatesInvariant, Shapes, IsRows, ByRun, Stages, Merged
<1>3. /\ stage'[r] = "saving" /\ wanted'[r] = <<d, c>>
      /\ cache'[r] = Merged(table, cache[r], d)
      /\ \A q \in Runs \ {r} : /\ stage'[q] = stage[q] /\ wanted'[q] = wanted[q]
                              /\ cache'[q] = cache[q]
  BY <1>1 DEF RatesInvariant, Shapes, ByRun
<1>4. Live' = Live
  BY <1>1, <1>3 DEF Live
<1>5. Progress'
  BY <1>1, <1>3 DEF RatesInvariant, Progress, Downloadable
<1>6. TypedRowsSurvive' /\ Overlapping' /\ CacheIsTheFile'
  BY <1>1, <1>3, <1>4 DEF RatesInvariant, TypedRowsSurvive, Overlapping, CacheIsTheFile, Live
<1>7. TypedRowsRead'
  BY <1>1, <1>3, <1>4 DEF RatesInvariant, TypedRowsRead, Live, Merged
<1>8. EveryRateUsedIsOnFile'
  BY <1>1 DEF RatesInvariant, EveryRateUsedIsOnFile, RateIn
<1>9. AnswersAreShared'
  <2> SUFFICES ASSUME NEW q \in named \ disturbed, NEW s \in Live,
                      NEW date \in Dates, NEW code \in Currencies,
                      answers[q][<<date, code>>] # NoRate
               PROVE  RateIn(cache'[s], date, code) = answers[q][<<date, code>>]
    BY <1>1, <1>4 DEF AnswersAreShared, RateIn
  <2>1. RateIn(cache[s], date, code) = answers[q][<<date, code>>]
    BY DEF RatesInvariant, AnswersAreShared
  <2>2. CASE s = r
    BY <1>1, <1>3, <2>1, <2>2, MergedKeepsRates
  <2>3. CASE s # r
    BY <1>3, <2>1, <2>3 DEF Live
  <2> QED BY <2>2, <2>3
<1> QED BY <1>2, <1>5, <1>6, <1>7, <1>8, <1>9 DEF RatesInvariant

LEMMA WriteKeeps ==
  ASSUME RatesInvariant, NEW r \in Runs, WriteBeside(r)
  PROVE  RatesInvariant'
<1>1. /\ UNCHANGED <<exchange_rates_file, named, cache, wanted, answers, typed, disturbed>>
      /\ stage[r] = "saving" /\ r \in named
      /\ stage' = [stage EXCEPT ![r] = "moving"]
      /\ temporary' = [temporary EXCEPT ![r] = cache[r]]
  BY DEF WriteBeside, Saved
<1>2. Shapes'
  BY <1>1 DEF RatesInvariant, Shapes, IsRows, ByRun, Stages
<1>3. /\ stage'[r] = "moving" /\ temporary'[r] = cache[r]
      /\ \A q \in Runs \ {r} : stage'[q] = stage[q] /\ temporary'[q] = temporary[q]
  BY <1>1 DEF RatesInvariant, Shapes, ByRun
<1>4. Live' = Live
  BY <1>1, <1>3 DEF Live
<1>5. Progress'
  BY <1>1, <1>3 DEF RatesInvariant, Progress, Downloadable
<1>6. TypedRowsSurvive' /\ TypedRowsRead' /\ Overlapping' /\ CacheIsTheFile'
  BY <1>1, <1>3, <1>4 DEF RatesInvariant, TypedRowsSurvive, TypedRowsRead, Overlapping,
     CacheIsTheFile, Live
<1>7. EveryRateUsedIsOnFile' /\ AnswersAreShared'
  BY <1>1, <1>4 DEF RatesInvariant, EveryRateUsedIsOnFile, AnswersAreShared, RateIn
<1> QED BY <1>2, <1>5, <1>6, <1>7 DEF RatesInvariant

(***************************************************************************)
(* A run that ends, however it ends, leaves the file and its answers.      *)
(***************************************************************************)
LEMMA EndKeeps ==
  ASSUME RatesInvariant, NEW r \in Runs, NEW how \in {"finished", "stopped"}, Ends(r, how),
         stage[r] # "waiting",
         UNCHANGED <<exchange_rates_file, named, typed, disturbed>>,
         ByRun(temporary'), \A q \in Runs \ {r} : temporary'[q] = temporary[q]
  PROVE  RatesInvariant'
<1>1. Shapes'
  BY DEF RatesInvariant, Ends, Shapes, IsRows, ByRun, NoRows, Stages
<1>2. /\ stage'[r] = how
      /\ \A q \in Runs \ {r} : /\ stage'[q] = stage[q] /\ wanted'[q] = wanted[q]
                              /\ cache'[q] = cache[q]
  BY DEF RatesInvariant, Ends, Shapes, ByRun
<1>3. Live' \subseteq Live \ {r}
  BY <1>2 DEF Live
<1>4. UNCHANGED answers
  BY DEF Ends
<1>5. Progress'
  BY <1>2, <1>4 DEF RatesInvariant, Progress, Downloadable
<1>6. TypedRowsSurvive' /\ TypedRowsRead' /\ Overlapping' /\ CacheIsTheFile'
  BY <1>2, <1>3 DEF RatesInvariant, TypedRowsSurvive, TypedRowsRead, Overlapping,
     CacheIsTheFile, Live
<1>7. EveryRateUsedIsOnFile' /\ AnswersAreShared'
  BY <1>2, <1>3, <1>4 DEF RatesInvariant, EveryRateUsedIsOnFile, AnswersAreShared, RateIn, Live
<1> QED BY <1>1, <1>5, <1>6, <1>7 DEF RatesInvariant

(***************************************************************************)
(* A run with no file answers with what it downloaded and saves nothing.   *)
(***************************************************************************)
LEMMA NothingToSaveKeeps ==
  ASSUME RatesInvariant, NEW r \in Runs, NothingToSave(r)
  PROVE  RatesInvariant'
<1>1. CASE HasNoneListed(r)
  <2>1. ByRun(temporary') /\ \A q \in Runs \ {r} : temporary'[q] = temporary[q]
    BY DEF NothingToSave, RatesInvariant, Shapes, ByRun
  <2> QED BY <1>1, <2>1, EndKeeps DEF HasNoneListed, NothingToSave
<1>2. CASE Replies(r)
  <2>1. /\ UNCHANGED <<exchange_rates_file, temporary, named, cache, typed, disturbed>>
        /\ stage[r] = "saving" /\ r \notin named
        /\ stage' = [stage EXCEPT ![r] = "running"]
        /\ wanted' = [wanted EXCEPT ![r] = Nothing]
        /\ answers' = [answers EXCEPT ![r][wanted[r]] = cache[r][wanted[r]]]
    BY <1>2 DEF Replies, NothingToSave
  <2>2. Shapes'
    BY <2>1 DEF RatesInvariant, Shapes, IsRows, ByRun, Stages
  <2>3. /\ stage'[r] = "running"
        /\ \A q \in Runs \ {r} : /\ stage'[q] = stage[q] /\ wanted'[q] = wanted[q]
                                /\ answers'[q] = answers[q]
    BY <2>1 DEF RatesInvariant, Shapes, ByRun
  <2>4. Live' = Live /\ r \notin Live
    BY <2>1, <2>3 DEF Live
  <2>5. Progress'
    BY <2>1, <2>3 DEF RatesInvariant, Progress, Downloadable
  <2>6. TypedRowsSurvive' /\ TypedRowsRead' /\ Overlapping' /\ CacheIsTheFile'
    BY <2>1, <2>3, <2>4 DEF RatesInvariant, TypedRowsSurvive, TypedRowsRead, Overlapping,
       CacheIsTheFile, Live
  <2>7. \A q \in named : q \in Runs \ {r}
    BY <2>1 DEF RatesInvariant, Shapes
  <2>8. EveryRateUsedIsOnFile' /\ AnswersAreShared'
    BY <2>1, <2>3, <2>4, <2>7 DEF RatesInvariant, EveryRateUsedIsOnFile, AnswersAreShared, RateIn
  <2> QED BY <2>2, <2>5, <2>6, <2>8 DEF RatesInvariant
<1> QED BY <1>1, <1>2 DEF NothingToSave

(***************************************************************************)
(* The file becomes what its run holds, which answers for every other run  *)
(* that nobody disturbed, and has every row that was typed.                *)
(***************************************************************************)
LEMMA MoveKeeps ==
  ASSUME RatesInvariant, NEW r \in Runs, MoveIntoPlace(r)
  PROVE  RatesInvariant'
<1>1. /\ UNCHANGED <<named, typed, disturbed>>
      /\ stage[r] = "moving" /\ r \in named /\ r \in Live
      /\ temporary' = [temporary EXCEPT ![r] = NoRows]
      /\ exchange_rates_file' = cache[r]
  BY DEF RatesInvariant, MoveIntoPlace, Progress, Live
<1>2. \A q \in Live : q # r => q \in disturbed /\ r \in disturbed
  BY <1>1 DEF RatesInvariant, Overlapping
<1>3. /\ TypedRowsSurvive'
      /\ IsRows(exchange_rates_file)' /\ ByRun(temporary)'
  BY <1>1 DEF RatesInvariant, TypedRowsSurvive, TypedRowsRead, Shapes, IsRows, ByRun
<1>4. \A q \in named \ disturbed, d \in Dates, c \in Currencies :
        answers[q][<<d, c>>] # NoRate => RateIn(cache[r], d, c) = answers[q][<<d, c>>]
  BY <1>1 DEF RatesInvariant, AnswersAreShared
<1>5. CASE HasNoneListed(r)
  <2>1. /\ stage' = [stage EXCEPT ![r] = "stopped"] /\ UNCHANGED answers
        /\ cache' = [cache EXCEPT ![r] = NoRows]
        /\ wanted' = [wanted EXCEPT ![r] = Nothing]
    BY <1>5 DEF HasNoneListed, Ends
  <2>2. Shapes'
    <3>1. IsRows(NoRows)
      BY DEF IsRows, NoRows
    <3>2. ByRun(cache)' /\ \A q \in Runs : IsRows(cache[q])'
      BY <2>1, <3>1 DEF RatesInvariant, Shapes, ByRun, IsRows
    <3>3. (stage \in [Runs -> Stages])' /\ ByRun(wanted)'
      BY <2>1 DEF RatesInvariant, Shapes, ByRun, Stages
    <3>4. IsRows(typed)' /\ ByRun(answers)' /\ \A q \in Runs : IsRows(answers[q])'
      BY <1>1, <2>1 DEF RatesInvariant, Shapes, ByRun, IsRows
    <3> QED BY <1>1, <1>3, <3>2, <3>3, <3>4 DEF RatesInvariant, Shapes
  <2>3. /\ stage'[r] = "stopped"
        /\ \A q \in Runs \ {r} : /\ stage'[q] = stage[q] /\ wanted'[q] = wanted[q]
                                /\ cache'[q] = cache[q] /\ temporary'[q] = temporary[q]
    BY <1>1, <2>1 DEF RatesInvariant, Shapes, ByRun
  <2>4. Live' \subseteq Live \ {r}
    BY <1>1, <2>3 DEF Live
  <2>5. Progress'
    BY <1>1, <2>1, <2>3 DEF RatesInvariant, Progress, Downloadable
  <2>6. TypedRowsRead' /\ Overlapping' /\ CacheIsTheFile'
    BY <1>1, <1>2, <2>3, <2>4 DEF RatesInvariant, TypedRowsRead, Overlapping, CacheIsTheFile, Live
  <2>7. EveryRateUsedIsOnFile'
    BY <1>1, <1>4, <2>1 DEF EveryRateUsedIsOnFile, RateIn
  <2>8. AnswersAreShared'
    BY <1>1, <2>1, <2>3, <2>4 DEF RatesInvariant, AnswersAreShared, RateIn, Live
  <2> QED BY <1>3, <2>2, <2>5, <2>6, <2>7, <2>8 DEF RatesInvariant
<1>6. CASE Replies(r)
  <2>1. /\ stage' = [stage EXCEPT ![r] = "running"] /\ UNCHANGED cache
        /\ wanted' = [wanted EXCEPT ![r] = Nothing]
        /\ answers' = [answers EXCEPT ![r][wanted[r]] = cache[r][wanted[r]]]
    BY <1>6 DEF Replies
  <2>2. Shapes'
    BY <1>1, <1>3, <2>1 DEF RatesInvariant, Shapes, IsRows, ByRun, Stages
  <2>3. /\ stage'[r] = "running"
        /\ \A q \in Runs \ {r} : /\ stage'[q] = stage[q] /\ wanted'[q] = wanted[q]
                                /\ answers'[q] = answers[q] /\ temporary'[q] = temporary[q]
    BY <1>1, <2>1 DEF RatesInvariant, Shapes, ByRun
  <2>4. Live' = Live
    BY <1>1, <2>3 DEF Live
  <2>5. Progress'
    BY <1>1, <2>1, <2>3 DEF RatesInvariant, Progress, Downloadable
  <2>6. TypedRowsRead' /\ Overlapping' /\ CacheIsTheFile'
    BY <1>1, <1>2, <2>1, <2>3, <2>4 DEF RatesInvariant, TypedRowsRead, Overlapping,
       CacheIsTheFile, Live
  <2>7. PICK date \in Dates, code \in Currencies :
          wanted[r] = <<date, code>> /\ Downloadable(date)
    BY <1>1 DEF RatesInvariant, Progress
  <2>8. ASSUME NEW q \in named \ disturbed, NEW d \in Dates, NEW c \in Currencies,
               answers'[q][<<d, c>>] # NoRate
        PROVE  RateIn(cache[r], d, c) = answers'[q][<<d, c>>]
    <3>1. <<d, c>> \in Cells /\ q \in Runs
      BY DEF Cells, RatesInvariant, Shapes
    <3>2. CASE q = r /\ <<d, c>> = <<date, code>>
      <4>1. answers'[q][<<d, c>>] = cache[r][<<d, c>>]
        BY <2>1, <2>7, <3>1, <3>2 DEF RatesInvariant, Shapes, IsRows, ByRun
      <4>2. Downloadable(d)
        BY <2>7, <3>2
      <4> QED BY <4>1, <4>2, DownloadedRateIsTheRow
    <3>3. CASE q # r \/ <<d, c>> # <<date, code>>
      <4>1. answers'[q][<<d, c>>] = answers[q][<<d, c>>]
        BY <2>1, <2>7, <3>1, <3>3 DEF RatesInvariant, Shapes, IsRows, ByRun
      <4> QED BY <1>4, <2>8, <4>1
    <3> QED BY <3>2, <3>3
  <2>9. EveryRateUsedIsOnFile'
    BY <1>1, <2>8 DEF EveryRateUsedIsOnFile, RateIn
  <2>10. AnswersAreShared'
    <3> SUFFICES ASSUME NEW q \in named \ disturbed, NEW s \in Live,
                        NEW d \in Dates, NEW c \in Currencies,
                        answers'[q][<<d, c>>] # NoRate
                 PROVE  RateIn(cache[s], d, c) = answers'[q][<<d, c>>]
      BY <1>1, <2>1, <2>4 DEF AnswersAreShared, RateIn
    <3>1. CASE s = r
      BY <2>8, <3>1
    <3>2. CASE s # r
      BY <1>2, <2>3, <3>2 DEF RatesInvariant, Shapes, AnswersAreShared
    <3> QED BY <3>1, <3>2
  <2> QED BY <1>3, <2>2, <2>5, <2>6, <2>9, <2>10 DEF RatesInvariant
<1> QED BY <1>5, <1>6 DEF MoveIntoPlace

(***************************************************************************)
(* An edit disturbs every run that has begun.                              *)
(***************************************************************************)
LEMMA EditKeeps ==
  ASSUME RatesInvariant, NEW d, NEW c, NEW rate, Edit(d, c, rate)
  PROVE  RatesInvariant'
<1>1. /\ UNCHANGED <<temporary, stage, named, cache, wanted, answers>>
      /\ exchange_rates_file' = [exchange_rates_file EXCEPT ![<<d, c>>] = rate]
      /\ typed' = [typed EXCEPT ![<<d, c>>] = IF Live = {} THEN rate ELSE NoRate]
      /\ disturbed' = disturbed \cup {r \in Runs : stage[r] # "waiting"}
  BY DEF Edit
<1>2. Shapes'
  BY <1>1 DEF RatesInvariant, Shapes, IsRows, ByRun
<1>3. Live' = Live /\ Live \subseteq disturbed'
  BY <1>1 DEF Live
<1>4. named \subseteq disturbed'
  BY <1>1 DEF RatesInvariant, Progress, Shapes
<1>5. Progress'
  BY <1>1 DEF RatesInvariant, Progress, Downloadable
<1>6. TypedRowsSurvive' /\ TypedRowsRead'
  BY <1>1, <1>3 DEF RatesInvariant, Shapes, IsRows, TypedRowsSurvive, TypedRowsRead
<1>7. Overlapping' /\ CacheIsTheFile' /\ EveryRateUsedIsOnFile' /\ AnswersAreShared'
  BY <1>1, <1>3, <1>4 DEF Overlapping, CacheIsTheFile, EveryRateUsedIsOnFile, AnswersAreShared
<1> QED BY <1>2, <1>5, <1>6, <1>7 DEF RatesInvariant

----------------------------------------------------------------------------
LEMMA RunStepKeeps ==
  ASSUME RatesInvariant, NEW r \in Runs, RunStep(r)
  PROVE  RatesInvariant'
<1>1. ASSUME NEW d \in Dates, NEW c \in Currencies,
             AnswerKnown(r, d, c) \/ \E table \in Tables[MonthOf[d]] : Query(r, d, c, table)
      PROVE  RatesInvariant'
  BY <1>1, AnswerKeeps, QueryKeeps
<1>2. ASSUME NEW d \in Dates, NEW c \in Currencies,
             RateMissing(r, d, c) \/ DownloadFails(r, d, c)
      PROVE  RatesInvariant'
  <2>1. /\ Ends(r, "stopped") /\ stage[r] # "waiting"
        /\ UNCHANGED <<exchange_rates_file, temporary, named, typed, disturbed>>
    BY <1>2 DEF RateMissing, DownloadFails, Asks
  <2> QED BY <2>1, EndKeeps DEF RatesInvariant, Shapes, ByRun
<1>3. CASE SaveFails(r)
  <2>1. /\ Ends(r, "stopped") /\ stage[r] # "waiting"
        /\ UNCHANGED <<exchange_rates_file, named, typed, disturbed>>
        /\ temporary' = [temporary EXCEPT ![r] = NoRows]
    BY <1>3 DEF SaveFails
  <2> QED BY <2>1, EndKeeps DEF RatesInvariant, Shapes, ByRun
<1>4. CASE Finish(r) \/ Crash(r)
  <2>1. PICK how \in {"finished", "stopped"} :
          /\ Ends(r, how) /\ stage[r] # "waiting"
          /\ UNCHANGED <<exchange_rates_file, temporary, named, typed, disturbed>>
    BY <1>4 DEF Finish, Crash
  <2> QED BY <2>1, EndKeeps DEF RatesInvariant, Shapes, ByRun
<1>5. {Listed[code] : code \in Currencies} \subseteq Currencies
  BY RatesAssumption
<1> QED
  BY <1>1, <1>2, <1>3, <1>4, <1>5, WriteKeeps, MoveKeeps, NothingToSaveKeeps DEF RunStep

LEMMA StepKeeps == RatesInvariant /\ [RatesNext]_ratesVars => RatesInvariant'
<1> SUFFICES ASSUME RatesInvariant, [RatesNext]_ratesVars PROVE RatesInvariant'
  OBVIOUS
<1>1. CASE RatesNext
  BY <1>1, BeginKeeps, RunStepKeeps, EditKeeps DEF RatesNext
<1>2. CASE UNCHANGED ratesVars
  <2>1. UNCHANGED <<exchange_rates_file, temporary, stage, named, cache, wanted, answers,
                    typed, disturbed>>
    BY <1>2 DEF ratesVars
  <2>2. Live' = Live
    BY <2>1 DEF Live
  <2>3. Shapes' /\ Progress'
    BY <2>1 DEF RatesInvariant, Shapes, Progress, IsRows, ByRun, Downloadable
  <2>4. TypedRowsSurvive' /\ TypedRowsRead' /\ Overlapping' /\ CacheIsTheFile'
    BY <2>1, <2>2 DEF RatesInvariant, TypedRowsSurvive, TypedRowsRead, Overlapping,
       CacheIsTheFile
  <2>5. EveryRateUsedIsOnFile' /\ AnswersAreShared'
    BY <2>1, <2>2 DEF RatesInvariant, EveryRateUsedIsOnFile, AnswersAreShared, RateIn
  <2> QED BY <2>3, <2>4, <2>5 DEF RatesInvariant
<1> QED BY <1>1, <1>2

(***************************************************************************)
(* For any number of overlapping, failing and killed runs, a row typed     *)
(* while none had the file open is never replaced or dropped by a save     *)
(* (CurrencyConverter._query_hmrc_api, _write_exchange_rates_file).        *)
(***************************************************************************)
THEOREM TypedRowsAlwaysSurvive == RatesSpec => []TypedRowsSurvive
<1>1. RatesInvariant => TypedRowsSurvive
  BY DEF RatesInvariant
<1> QED BY <1>1, InitHolds, StepKeeps, PTL DEF RatesSpec

(***************************************************************************)
(* What an undisturbed run answered can be read back from the file it      *)
(* leaves, now and after any later run (currency_to_gbp_rate).             *)
(***************************************************************************)
THEOREM AnswersStayOnFile == RatesSpec => []EveryRateUsedIsOnFile
<1>1. RatesInvariant => EveryRateUsedIsOnFile
  BY DEF RatesInvariant
<1> QED BY <1>1, InitHolds, StepKeeps, PTL DEF RatesSpec
=============================================================================
