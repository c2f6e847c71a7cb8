----------------------------- MODULE IsinsProofs -----------------------------
(***************************************************************************)
(* Proofs about the identities of a run's rows and the translation file it *)
(* leaves: a file that was read once agrees with the bundled table on all  *)
(* tickers but those set aside, and whether the rows are accepted does not *)
(* depend on the order they were exported in.                              *)
(***************************************************************************)
EXTENDS IsinsProperties, Induction

----------------------------------------------------------------------------
(***************************************************************************)
(* The file.  While a run works, the reference data it checks against      *)
(* holds every row it would save, less the tickers set aside, so what      *)
(* passes that check agrees with the bundled table on all the others.      *)
(***************************************************************************)
Working == {"loaded", "identities", "rows", "reports"}

\* Every row of one table is a row of another, which may lack those tickers.
Within(part, whole, tickers) ==
    /\ DOMAIN part \subseteq DOMAIN whole
    /\ \A k \in DOMAIN part : whole[k] \subseteq part[k] /\ part[k] \subseteq whole[k] \cup tickers

\* No row has the empty ticker beside a real one.
Whole(table) == \A i \in DOMAIN table : NoTicker \in table[i] => table[i] = {NoTicker}

SavedTable == OnTop(translation_file, Bundled)
Saved ==
    begun > 0 /\ phase # "unreadable" =>
      /\ AgreeBut(SavedTable, set_aside)
      /\ phase \in Working =>
           /\ translation_file = write_data
           /\ Within(OnTop(write_data, Bundled), data, set_aside)
           /\ phase = "loaded" => set_aside = {}

\* A valid table is one whose rows agree, whatever is set aside.
LEMMA ValidAgrees ==
  ASSUME NEW table, Valid(table), NEW tickers
  PROVE  AgreeBut(table, tickers)
  BY DEF Valid, AgreeBut

\* The rows of a valid table agree once they have back the tickers it lacks.
LEMMA PartAgrees ==
  ASSUME NEW part, NEW whole, NEW tickers, Within(part, whole, tickers), Valid(whole),
         Whole(part)
  PROVE  AgreeBut(part, tickers)
<1> SUFFICES ASSUME NEW i \in DOMAIN part, NEW j \in DOMAIN part, i # j
             PROVE  part[i] \cap part[j] \subseteq {NoTicker} \cup tickers
  BY DEF AgreeBut, Whole
<1>1. whole[i] \cap whole[j] \subseteq {NoTicker}
  BY DEF Within, Valid
<1>2. part[i] \subseteq whole[i] \cup tickers /\ part[j] \subseteq whole[j] \cup tickers
  BY DEF Within
<1> QED
  BY <1>1, <1>2

\* A row for a key neither table has goes on top of both alike.
LEMMA NewRowOnTop ==
  ASSUME NEW upper, NEW lower, NEW whole, NEW key, NEW row, NEW tickers,
         Within(OnTop(upper, lower), whole, tickers), key \notin DOMAIN whole
  PROVE  /\ Within(OnTop(With(upper, key, row), lower), With(whole, key, row), tickers)
         /\ Whole(OnTop(upper, lower)) /\ (NoTicker \in row => row = {NoTicker})
              => Whole(OnTop(With(upper, key, row), lower))
<1> DEFINE old == OnTop(upper, lower)
           new == OnTop(With(upper, key, row), lower)
<1>1. DOMAIN With(upper, key, row) = DOMAIN upper \cup {key}
  BY DEF With
<1>2. DOMAIN old = DOMAIN upper \cup DOMAIN lower
  BY DEF OnTop
<1>3. DOMAIN new = DOMAIN old \cup {key}
  BY <1>1, <1>2 DEF OnTop
<1>4. DOMAIN With(whole, key, row) = DOMAIN whole \cup {key}
  BY DEF With
<1>5. new[key] = row /\ With(whole, key, row)[key] = row
  BY <1>1, <1>3, <1>4 DEF OnTop, With, Value
<1>6. ASSUME NEW k \in DOMAIN old
      PROVE  k \in DOMAIN whole /\ new[k] = old[k] /\ With(whole, key, row)[k] = whole[k]
  <2>1. k \in DOMAIN whole /\ k # key
    BY DEF Within
  <2>2. With(whole, key, row)[k] = whole[k]
    BY <1>4, <2>1 DEF With
  <2>3. new[k] = old[k]
    BY <1>1, <1>2, <2>1 DEF OnTop, With, Value
  <2> QED
    BY <2>1, <2>2, <2>3
<1> HIDE DEF old, new
<1>7. Within(new, With(whole, key, row), tickers)
  BY <1>3, <1>4, <1>5, <1>6 DEF Within, old
<1>8. Whole(old) /\ (NoTicker \in row => row = {NoTicker}) => Whole(new)
  BY <1>3, <1>5, <1>6 DEF Whole
<1> QED
  BY <1>7, <1>8 DEF old, new

LEMMA ConstructSaves ==
  ASSUME Saved, NEW given, Construct(given)
  PROVE  Saved'
<1>1. /\ data' = SavedTable /\ SavedTable' = SavedTable
      /\ write_data' = translation_file /\ translation_file' = translation_file
      /\ phase' = IF Valid(data') THEN "loaded" ELSE "unreadable"
      /\ set_aside' = {}
  BY DEF Construct, SavedTable
<1>2. phase' # "unreadable" => AgreeBut(SavedTable', set_aside')
  BY <1>1, ValidAgrees
<1>3. Within(OnTop(write_data', Bundled), data', set_aside')
  BY <1>1 DEF Within, SavedTable
<1> QED
  BY <1>1, <1>2, <1>3 DEF Saved

\* What a step leaves alone, and a run that stops, stays as it was saved.
LEMMA SavedKept ==
  ASSUME Saved, UNCHANGED <<translation_file, begun>>, phase # "unreadable",
         set_aside \subseteq set_aside',
         phase' \in Working =>
           /\ phase \in Working /\ phase' # "loaded" /\ write_data' = write_data
           /\ Within(data, data', set_aside')
  PROVE  Saved'
<1> SUFFICES ASSUME begun' > 0, phase' # "unreadable"
             PROVE  /\ AgreeBut(SavedTable', set_aside')
                    /\ phase' \in Working =>
                         /\ translation_file' = write_data'
                         /\ Within(OnTop(write_data', Bundled), data', set_aside')
  BY DEF Saved
<1>1. /\ AgreeBut(SavedTable, set_aside)
      /\ phase \in Working =>
           /\ translation_file = write_data
           /\ Within(OnTop(write_data, Bundled), data, set_aside)
  BY DEF Saved
<1>2. SavedTable' = SavedTable
  BY DEF SavedTable
<1>3. AgreeBut(SavedTable', set_aside')
  BY <1>1, <1>2 DEF AgreeBut
<1>4. ASSUME phase' \in Working
      PROVE  Within(OnTop(write_data', Bundled), data', set_aside')
  <2>1. Within(OnTop(write_data, Bundled), data, set_aside) /\ Within(data, data', set_aside')
    BY <1>1, <1>4
  <2>2. Within(OnTop(write_data, Bundled), data', set_aside')
    BY <2>1 DEF Within
  <2> QED
    BY <1>4, <2>2
<1> QED
  BY <1>1, <1>3, <1>4

LEMMA LoadSaves ==
  ASSUME Saved, LoadTransactions
  PROVE  Saved'
<1>1. /\ phase = "loaded" /\ UNCHANGED <<translation_file, write_data, begun>>
      /\ set_aside' = SetsAside
      /\ phase' \in {"two securities", "identities"}
  BY DEF LoadTransactions, Refuse
<1>2. phase' = "identities" => Within(data, data', set_aside')
  <2> SUFFICES ASSUME phase' = "identities" PROVE Within(data, data', set_aside')
    OBVIOUS
  <2>1. data' = [i \in DOMAIN data |-> data[i] \ London(i)]
    BY DEF LoadTransactions, Refuse
  <2>2. \A i \in DOMAIN data : London(i) \subseteq set_aside'
    BY <1>1 DEF SetsAside
  <2> QED
    BY <2>1, <2>2 DEF Within
<1> QED
  BY <1>1, <1>2, SavedKept DEF Working, Saved

LEMMA WithinItself == \A tickers : Within(data, data, tickers)
  BY DEF Within

LEMMA LookUpSaves ==
  ASSUME Saved, NEW tickers, LookUp(tickers)
  PROVE  Saved'
<1>1. /\ phase = "reports" /\ Report \notin DOMAIN data
      /\ data' = With(data, Report, tickers) /\ UNCHANGED <<begun, set_aside>>
  BY DEF LookUp, Answered, Finds
<1> SUFFICES ASSUME begun' > 0, phase' # "unreadable"
             PROVE  /\ AgreeBut(SavedTable', set_aside)
                    /\ phase' \in Working =>
                         /\ translation_file' = write_data'
                         /\ Within(OnTop(write_data', Bundled), data', set_aside)
                         /\ phase' # "loaded"
  BY <1>1 DEF Saved
<1>2. /\ AgreeBut(SavedTable, set_aside) /\ translation_file = write_data
      /\ Within(OnTop(write_data, Bundled), data, set_aside)
  BY <1>1 DEF Saved, Working
<1>3. CASE tickers = {}
  <2>1. UNCHANGED <<translation_file, write_data>> /\ phase' = phase
    BY <1>3 DEF LookUp, Finds
  <2>2. Within(data, data', set_aside)
    BY <1>1 DEF Within, With
  <2>3. Within(OnTop(write_data, Bundled), data', set_aside)
    BY <1>2, <2>2 DEF Within
  <2> QED
    BY <1>1, <1>2, <2>1, <2>3 DEF SavedTable
<1>4. CASE tickers # {}
  <2>1. write_data' = With(write_data, Report, tickers)
    BY <1>4 DEF LookUp
  <2>2. /\ Within(OnTop(write_data', Bundled), data', set_aside)
        /\ Whole(OnTop(write_data, Bundled)) /\ (NoTicker \in tickers => tickers = {NoTicker})
             => Whole(OnTop(write_data', Bundled))
    BY <1>1, <1>2, <2>1, NewRowOnTop
  <2>3. CASE Writable(data', write_data')
    <3>1. translation_file' = write_data' /\ phase' = phase
      BY <1>4, <2>3 DEF LookUp, Finds
    <3>2. Valid(data')
      BY <2>3 DEF Writable
    <3>3. Whole(OnTop(write_data, Bundled))
      BY <1>2 DEF AgreeBut, SavedTable, Whole
    <3>4. Report \in DOMAIN data' /\ data'[Report] = tickers
      BY <1>1 DEF With
    <3>5. NoTicker \in tickers => tickers = {NoTicker}
      BY <3>2, <3>4 DEF Valid
    <3>6. SavedTable' = OnTop(write_data', Bundled)
      BY <3>1 DEF SavedTable
    <3>7. AgreeBut(SavedTable', set_aside)
      BY <2>2, <3>2, <3>3, <3>5, <3>6, PartAgrees
    <3> QED
      BY <1>1, <2>2, <3>1, <3>7
  <2>4. CASE ~Writable(data', write_data')
    <3>1. phase' = "lookup" /\ UNCHANGED translation_file
      BY <1>4, <2>4 DEF LookUp
    <3>2. SavedTable' = SavedTable
      BY <3>1 DEF SavedTable
    <3> QED
      BY <1>2, <3>1, <3>2 DEF Working
  <2> QED
    BY <2>3, <2>4
<1> QED
  BY <1>3, <1>4

LEMMA StepSaves == Saved /\ [IsinsNext]_isinVars => Saved'
<1> SUFFICES ASSUME Saved, [IsinsNext]_isinVars PROVE Saved'
  OBVIOUS
<1>1. CASE UNCHANGED isinVars
  BY <1>1 DEF isinVars, Saved, SavedTable
<1>2. CASE \E given \in Inputs : Construct(given)
  BY <1>2, ConstructSaves
<1>3. CASE LoadTransactions
  BY <1>3, LoadSaves
<1>4. CASE ReadIdentities \/ AddFromTransaction \/ RowsEnd \/ AnswerReport
           \/ LookUpFails \/ ReportsEnd
  <2>1. UNCHANGED <<translation_file, begun, data, write_data, set_aside>>
    BY <1>4 DEF ReadIdentities, AddFromTransaction, RowsEnd, AnswerReport,
                LookUpFails, ReportsEnd, Refuse, Finds
  <2>2. phase \in {"identities", "rows", "reports"} /\ phase' # "loaded"
    BY <1>4 DEF ReadIdentities, AddFromTransaction, RowsEnd, AnswerReport,
                LookUpFails, ReportsEnd, Refuse, Finds
  <2>3. Within(data, data', set_aside')
    BY <2>1, WithinItself
  <2> QED
    BY <2>1, <2>2, <2>3, SavedKept DEF Working
<1>5. CASE \E tickers \in UNION {Lookups[i] : i \in DOMAIN Lookups} : LookUp(tickers)
  BY <1>5, LookUpSaves
<1> QED
  BY <1>1, <1>2, <1>3, <1>4, <1>5 DEF IsinsNext

(***************************************************************************)
(* Whatever the tables, the rows, the runs and what a lookup brings: a     *)
(* file that a run could read is left in agreement with the bundled table  *)
(* on every ticker that run did not set aside                              *)
(* (_write_isin_translation_file).                                         *)
(***************************************************************************)
THEOREM SavedTableAlwaysLoads == IsinsSpec => []SavedTableLoads
<1>1. IsinsInit => Saved
  <2>1. IsinsInit => begun = 0
    BY DEF IsinsInit
  <2>2. IsinsInit => ~(begun > 0)
    BY <2>1
  <2> QED
    BY <2>2 DEF Saved
<1>2. Saved => SavedTableLoads
  BY DEF Saved, SavedTable, SavedTableLoads
<1> QED
  BY <1>1, <1>2, StepSaves, PTL DEF IsinsSpec

----------------------------------------------------------------------------
(***************************************************************************)
(* The rows.  What has been recorded after any number of them is what the  *)
(* rows read so far say as a set, so a row is refused only when the rows   *)
(* disagree, and no disagreement is missed.                                *)
(***************************************************************************)
Row(k) == input.rows[k]
Indices == DOMAIN input.rows
Known(k) == Row(k).symbol # NoTicker /\ SecurityOf(Row(k)) # NoIsin

\* The tickers the first rows, up to but not including n, give a security.
TickersBefore(n, i) ==
    {TickerOf(Row(k)) : k \in {j \in Indices : j < n /\ Known(j) /\ SecurityOf(Row(j)) = i}}

Listed ==
    /\ input = [rows |-> input.rows, reports |-> input.reports]
    /\ Indices = 1 .. Len(input.rows) /\ Len(input.rows) \in Nat

IdentitiesRead == ~ExportedTwice /\ exported_isins = ExportedBy(Indices)

RecordedTickers(n) ==
    \A i : /\ Value(transaction_symbols, i, {}) = TickersBefore(n, i)
           /\ \/ \A s, t \in TickersBefore(n, i) : s = t
              \/ TickersBefore(n, i) \subseteq Value(data, i, {})

RecordedSecurities(n) ==
    /\ \A k \in Indices : k < n /\ Known(k) =>
         /\ TickerOf(Row(k)) \in DOMAIN transaction_isins
         /\ transaction_isins[TickerOf(Row(k))] = SecurityOf(Row(k))
         /\ IsinForSymbol(data, TickerOf(Row(k))) \in {NoIsin, SecurityOf(Row(k))}
    /\ \A s \in DOMAIN transaction_isins :
         \E k \in Indices : k < n /\ Known(k) /\ TickerOf(Row(k)) = s

RowsRenamed(n) ==
    /\ DOMAIN symbols = Indices
    /\ \A k \in Indices :
         symbols[k] = IF k < n THEN TickerOf(Row(k)) ELSE Row(k).symbol

ReadUpTo(n) == RecordedTickers(n) /\ RecordedSecurities(n) /\ RowsRenamed(n)

LEMMA RowOfRows ==
  ASSUME NEW k \in Indices
  PROVE  Row(k) \in Rows
  BY DEF Row, Rows, ToSet, Indices

LEMMA RowsByIndex ==
  ASSUME NEW r \in Rows
  PROVE  \E k \in Indices : r = Row(k)
  BY DEF Row, Rows, ToSet, Indices

\* A set of two things that differ has more than one, and no other set has.
LEMMA MoreThanOne ==
  ASSUME NEW S, IsFiniteSet(S), NEW a \in S, NEW b \in S, a # b
  PROVE  Cardinality(S) > 1
<1>1. Cardinality({a}) = 1 /\ IsFiniteSet({a})
  BY FS_Singleton
<1>2. Cardinality({a} \cup {b}) = 2
  BY <1>1, FS_AddElement
<1>3. {a} \cup {b} \in SUBSET S
  OBVIOUS
<1>4. Cardinality({a} \cup {b}) <= Cardinality(S) /\ Cardinality(S) \in Nat
  BY <1>3, FS_Subset, FS_CardinalityType
<1> QED
  BY <1>2, <1>4

LEMMA AtMostOne ==
  ASSUME NEW S, \A a, b \in S : a = b
  PROVE  ~(Cardinality(S) > 1)
<1>1. CASE S = {}
  BY <1>1, FS_EmptySet
<1>2. CASE S # {}
  <2>1. PICK a \in S : S = {a}
    BY <1>2
  <2>2. Cardinality({a}) = 1
    BY FS_Singleton
  <2> QED
    BY <2>1, <2>2
<1> QED
  BY <1>1, <1>2

LEMMA ImageFinite ==
  ASSUME NEW S, IsFiniteSet(S), NEW f, DOMAIN f = S
  PROVE  IsFiniteSet({f[x] : x \in S})
<1> DEFINE T == {f[x] : x \in S}
           g == [x \in S |-> f[x]]
<1>1. g \in Surjection(S, T)
  BY DEF Surjection
<1> QED
  BY <1>1, FS_Surjection

LEMMA RowsFinite ==
  ASSUME Listed
  PROVE  IsFiniteSet(Rows)
<1>1. IsFiniteSet(Indices)
  BY FS_Interval DEF Listed
<1>2. IsFiniteSet({input.rows[x] : x \in Indices})
  BY <1>1, ImageFinite DEF Indices
<1> QED
  BY <1>2 DEF Rows, ToSet, Indices

LEMMA ExportedFinite ==
  ASSUME Listed, NEW symbol
  PROVE  IsFiniteSet(Exported(symbol))
<1> DEFINE named == {q \in Rows : q.symbol = symbol}
           f == [r \in named |-> r.isin]
<1>1. IsFiniteSet(named)
  BY RowsFinite, FS_Subset
<1>2. IsFiniteSet({f[r] : r \in named})
  BY <1>1, ImageFinite
<1>3. Exported(symbol) \in SUBSET {f[r] : r \in named}
  BY DEF Exported
<1> QED
  BY <1>2, <1>3, FS_Subset

LEMMA TickersFinite ==
  ASSUME Listed, NEW i
  PROVE  IsFiniteSet(TickersOf(i))
<1> DEFINE named == {q \in Linked : SecurityOf(q) = i}
           f == [r \in named |-> TickerOf(r)]
<1>1. named \in SUBSET Rows
  BY DEF Linked
<1>2. IsFiniteSet(named)
  BY <1>1, RowsFinite, FS_Subset
<1>3. IsFiniteSet({f[r] : r \in named})
  BY <1>2, ImageFinite
<1>4. TickersOf(i) = {f[r] : r \in named}
  BY DEF TickersOf
<1> QED
  BY <1>3, <1>4

\* A ticker two rows name two securities for is refused, and no other is.
LEMMA ExportedTwiceShows ==
  ASSUME Listed, ExportedTwice
  PROVE  OneTickerForTwo
<1>1. PICK i \in Indices, j \in Indices :
        /\ Row(i).symbol # NoTicker /\ Row(i).isin # NoIsin
        /\ Row(j).symbol # NoTicker /\ Row(j).isin # NoIsin
        /\ Row(i).symbol = Row(j).symbol /\ Row(i).isin # Row(j).isin
  BY DEF ExportedTwice, Identified, Row, Indices
<1>2. Row(i) \in Rows /\ Row(j) \in Rows
  BY RowOfRows
<1>3. Row(i).isin \in Exported(Row(i).symbol) /\ Row(j).isin \in Exported(Row(i).symbol)
  BY <1>1, <1>2 DEF Exported
<1>4. Cardinality(Exported(Row(i).symbol)) > 1
  BY <1>1, <1>3, ExportedFinite, MoreThanOne
<1> QED
  BY <1>1, <1>2, <1>4 DEF OneTickerForTwo

LEMMA ExportedAgree ==
  ASSUME ~ExportedTwice, NEW symbol, symbol # NoTicker,
         NEW a \in Exported(symbol), NEW b \in Exported(symbol)
  PROVE  a = b
<1>1. PICK r \in Rows, q \in Rows :
        /\ r.symbol = symbol /\ r.isin = a /\ a # NoIsin
        /\ q.symbol = symbol /\ q.isin = b /\ b # NoIsin
  BY DEF Exported
<1>2. PICK i \in Indices, j \in Indices : r = Row(i) /\ q = Row(j)
  BY RowsByIndex
<1> QED
  BY <1>1, <1>2 DEF ExportedTwice, Identified, Row, Indices

\* Reading every identity first tells a row's security as the set does.
LEMMA ResolvedIsSecurity ==
  ASSUME Listed, IdentitiesRead, NEW k \in Indices, Row(k).symbol # NoTicker
  PROVE  Resolved(Row(k)) = SecurityOf(Row(k))
<1> DEFINE r == Row(k)
           s == Row(k).symbol
           holders == {j \in Identified(Indices) : Row(j).symbol = s}
<1>1. CASE r.isin # NoIsin
  BY <1>1 DEF Resolved, SecurityOf
<1>2. CASE r.isin = NoIsin /\ Exported(s) = {}
  <2>1. s \notin DOMAIN exported_isins
    <3>1. \A j \in Identified(Indices) : Row(j).symbol # s
      <4> SUFFICES ASSUME NEW j \in Identified(Indices), Row(j).symbol = s
                   PROVE  FALSE
        OBVIOUS
      <4>1. Row(j) \in Rows /\ Row(j).isin # NoIsin
        BY RowOfRows DEF Identified, Row
      <4>2. Row(j).isin \in Exported(s)
        BY <4>1 DEF Exported
      <4> QED
        BY <1>2, <4>2
    <3> QED
      BY <3>1 DEF IdentitiesRead, ExportedBy, Row
  <2> QED
    BY <1>2, <2>1 DEF Resolved, SecurityOf, Value
<1>3. CASE r.isin = NoIsin /\ Exported(s) # {}
  <2>1. holders \in SUBSET Nat /\ holders # {}
    <3>1. holders \in SUBSET Nat
      BY DEF Listed, Identified
    <3>2. PICK q \in Rows : q.symbol = s /\ q.isin # NoIsin
      BY <1>3 DEF Exported
    <3>3. PICK j \in Indices : q = Row(j)
      BY RowsByIndex
    <3>4. j \in holders
      BY <3>2, <3>3 DEF Identified, Row
    <3> QED
      BY <3>1, <3>4
  <2>2. PICK first \in holders : \A j \in holders : first <= j
    BY <2>1, LeastNatural
  <2> DEFINE chosen == CHOOSE i \in Identified(Indices) :
                         /\ input.rows[i].symbol = s
                         /\ \A j \in Identified(Indices) :
                              input.rows[j].symbol = s => i <= j
  <2>3. /\ first \in Identified(Indices) /\ input.rows[first].symbol = s
        /\ \A j \in Identified(Indices) : input.rows[j].symbol = s => first <= j
    BY <2>2 DEF Row
  <2>4. chosen \in Identified(Indices) /\ input.rows[chosen].symbol = s
    BY <2>3
  <2>5. exported_isins[s] = input.rows[chosen].isin /\ s \in DOMAIN exported_isins
    <3>1. s \in {input.rows[i].symbol : i \in Identified(Indices)}
      BY <2>3
    <3> QED
      BY <3>1 DEF IdentitiesRead, ExportedBy
  <2> HIDE DEF chosen
  <2>6. Row(chosen) \in Rows /\ Row(chosen).isin # NoIsin /\ Row(chosen).symbol = s
    BY <2>4, RowOfRows DEF Identified, Row
  <2>7. Row(chosen).isin \in Exported(s)
    BY <2>6 DEF Exported
  <2>8. (CHOOSE i \in Exported(s) : TRUE) \in Exported(s)
    BY <1>3
  <2>9. Row(chosen).isin = CHOOSE i \in Exported(s) : TRUE
    BY <2>7, <2>8, ExportedAgree DEF IdentitiesRead
  <2> QED
    BY <1>3, <2>5, <2>9 DEF Resolved, SecurityOf, Value, Row
<1> QED
  BY <1>1, <1>2, <1>3

\* While neither the rows nor the reference data change, neither does what they say.
LEMMA SameRows ==
  ASSUME UNCHANGED <<input, data>>
  PROVE  /\ Indices' = Indices /\ Rows' = Rows
         /\ \A k : Row(k)' = Row(k)
         /\ \A r : SecurityOf(r)' = SecurityOf(r) /\ TickerOf(r)' = TickerOf(r)
         /\ \A k : Known(k)' = Known(k)
         /\ \A k : SecurityOf(Row(k))' = SecurityOf(Row(k))
         /\ \A k : TickerOf(Row(k))' = TickerOf(Row(k))
         /\ \A n, i : TickersBefore(n, i)' = TickersBefore(n, i)
<1>1. Indices' = Indices /\ Rows' = Rows /\ \A k : Row(k)' = Row(k)
  BY DEF Indices, Rows, Row
<1>3. \A r : SecurityOf(r)' = SecurityOf(r)
  BY <1>1 DEF SecurityOf, Exported
<1>4. \A r : TickerOf(r)' = TickerOf(r)
  BY <1>3 DEF TickerOf
<1>5. \A k : /\ SecurityOf(Row(k))' = SecurityOf(Row(k))
             /\ TickerOf(Row(k))' = TickerOf(Row(k))
  BY <1>1 DEF SecurityOf, TickerOf, Exported
<1>6. \A k : Known(k)' = Known(k)
  BY <1>1, <1>5 DEF Known
<1>7. \A n, i : TickersBefore(n, i)' = TickersBefore(n, i)
  BY <1>1, <1>5, <1>6 DEF TickersBefore
<1> QED
  BY <1>1, <1>3, <1>4, <1>5, <1>6, <1>7

LEMMA SameVerdict ==
  ASSUME UNCHANGED <<input, data>>
  PROVE  /\ OneTickerForTwo' = OneTickerForTwo
         /\ TwoTickersForOne' = TwoTickersForOne
         /\ ExportedTwice' = ExportedTwice
         /\ ExportedBy(Indices)' = ExportedBy(Indices)
<1>1. Linked' = Linked
  BY SameRows DEF Linked
<1>2. \A i : TickersOf(i)' = TickersOf(i)
  BY <1>1, SameRows DEF TickersOf
<1>3. \A symbol : Exported(symbol)' = Exported(symbol)
  BY SameRows DEF Exported
<1>4. OneTickerForTwo' = OneTickerForTwo
  BY <1>1, <1>3, SameRows DEF OneTickerForTwo
<1>5. TwoTickersForOne' = TwoTickersForOne
  BY <1>1, <1>2, SameRows DEF TwoTickersForOne
<1>6. ExportedTwice' = ExportedTwice
  BY DEF ExportedTwice, Identified
<1>7. ExportedBy(Indices)' = ExportedBy(Indices)
  BY DEF ExportedBy, Identified, Indices
<1> QED
  BY <1>4, <1>5, <1>6, <1>7

\* The next row adds its own ticker, if it is known to be of a security at all.
LEMMA NextTickers ==
  ASSUME Listed, NEW n \in Indices, NEW i
  PROVE  TickersBefore(n + 1, i) =
           TickersBefore(n, i) \cup
             (IF Known(n) /\ SecurityOf(Row(n)) = i THEN {TickerOf(Row(n))} ELSE {})
<1>1. \A j \in Indices : j < n + 1 <=> j < n \/ j = n
  BY DEF Listed
<1>2. TickersBefore(n + 1, i) =
        {TickerOf(Row(k)) : k \in {j \in Indices : (j < n \/ j = n) /\ Known(j)
                                                  /\ SecurityOf(Row(j)) = i}}
  BY <1>1 DEF TickersBefore
<1> QED
  BY <1>2 DEF TickersBefore

LEMMA KnownTicker ==
  ASSUME Listed, NEW k \in Indices
  PROVE  /\ ~Known(k) => TickerOf(Row(k)) = Row(k).symbol
         /\ Known(k) => /\ Row(k) \in Linked
                        /\ TickerOf(Row(k)) = Canonical(SecurityOf(Row(k)), Row(k).symbol)
  BY RowOfRows DEF Known, TickerOf, Linked

LEMMA TickersAreOf ==
  ASSUME Listed, NEW n, NEW i
  PROVE  TickersBefore(n, i) \subseteq TickersOf(i)
<1> SUFFICES ASSUME NEW k \in Indices, Known(k), SecurityOf(Row(k)) = i
             PROVE  TickerOf(Row(k)) \in TickersOf(i)
  BY DEF TickersBefore
<1>1. Row(k) \in Linked
  BY KnownTicker
<1> QED
  BY <1>1 DEF TickersOf

\* A row refused for its ticker or its security is one of two that disagree.
LEMMA RefusedRow ==
  ASSUME Listed, NEW n \in Indices, RecordedTickers(n), RecordedSecurities(n), Known(n),
         \/ OtherTicker(SecurityOf(Row(n)), TickerOf(Row(n)))
         \/ OtherSecurity(SecurityOf(Row(n)), TickerOf(Row(n)))
  PROVE  OneTickerForTwo \/ TwoTickersForOne
<1> DEFINE i == SecurityOf(Row(n))
           symbol == TickerOf(Row(n))
<1>1. Row(n) \in Linked
  BY KnownTicker
<1>2. CASE OtherTicker(i, symbol)
  <2>1. /\ TickersBefore(n, i) # {} /\ symbol \notin TickersBefore(n, i)
        /\ ~(TickersBefore(n, i) \cup {symbol} \subseteq Value(data, i, {}))
    BY <1>2 DEF OtherTicker, RecordedTickers
  <2>2. TickersBefore(n, i) \cup {symbol} \subseteq TickersOf(i)
    BY <1>1, TickersAreOf DEF TickersOf
  <2>3. PICK other \in TickersOf(i) : other # symbol
    BY <2>1, <2>2
  <2>4. Cardinality(TickersOf(i)) > 1
    BY <2>2, <2>3, TickersFinite, MoreThanOne
  <2>5. ~(TickersOf(i) \subseteq Value(data, i, {}))
    BY <2>1, <2>2
  <2> QED
    BY <1>1, <2>4, <2>5 DEF TwoTickersForOne
<1>3. CASE OtherSecurity(i, symbol)
  <2>1. CASE symbol \in DOMAIN transaction_isins
    <3>1. transaction_isins[symbol] # i
      BY <1>3, <2>1 DEF OtherSecurity, Value
    <3>2. PICK k \in Indices : k < n /\ Known(k) /\ TickerOf(Row(k)) = symbol
      BY <2>1 DEF RecordedSecurities
    <3>3. transaction_isins[symbol] = SecurityOf(Row(k))
      BY <3>2 DEF RecordedSecurities
    <3>4. Row(k) \in Linked
      BY <3>2, KnownTicker
    <3> QED
      BY <1>1, <3>1, <3>2, <3>3, <3>4 DEF OneTickerForTwo
  <2>2. CASE symbol \notin DOMAIN transaction_isins
    <3>1. IsinForSymbol(data, symbol) \notin {NoIsin, i}
      BY <1>3, <2>2 DEF OtherSecurity, Value
    <3> QED
      BY <1>1, <3>1 DEF OneTickerForTwo
  <2> QED
    BY <2>1, <2>2
<1> QED
  BY <1>2, <1>3

\* Rows that are all recorded do not disagree.
LEMMA NoneRefused ==
  ASSUME Listed, IdentitiesRead, NEW n, n = Len(input.rows) + 1,
         RecordedTickers(n), RecordedSecurities(n)
  PROVE  ~OneTickerForTwo /\ ~TwoTickersForOne
<1>1. \A k \in Indices : k < n
  BY DEF Listed
<1>2. ASSUME NEW r \in Linked
      PROVE  \E k \in Indices : k < n /\ Known(k) /\ r = Row(k)
  <2>1. PICK k \in Indices : r = Row(k)
    BY <1>2, RowsByIndex DEF Linked
  <2> QED
    BY <1>1, <1>2, <2>1 DEF Linked, Known
<1>3. \A r \in Rows : r.symbol # NoTicker => ~(Cardinality(Exported(r.symbol)) > 1)
  <2> SUFFICES ASSUME NEW r \in Rows, r.symbol # NoTicker
               PROVE  ~(Cardinality(Exported(r.symbol)) > 1)
    OBVIOUS
  <2>1. \A a, b \in Exported(r.symbol) : a = b
    BY ExportedAgree DEF IdentitiesRead
  <2> QED
    BY <2>1, AtMostOne
<1>4. \A r, q \in Linked : TickerOf(r) = TickerOf(q) => SecurityOf(r) = SecurityOf(q)
  BY <1>2 DEF RecordedSecurities
<1>5. \A r \in Linked : IsinForSymbol(data, TickerOf(r)) \in {NoIsin, SecurityOf(r)}
  BY <1>2 DEF RecordedSecurities
<1>6. ASSUME NEW r \in Linked
      PROVE  \/ ~(Cardinality(TickersOf(SecurityOf(r))) > 1)
             \/ TickersOf(SecurityOf(r)) \subseteq Value(data, SecurityOf(r), {})
  <2> DEFINE i == SecurityOf(r)
  <2>1. TickersOf(i) \subseteq TickersBefore(n, i)
    <3> SUFFICES ASSUME NEW q \in Linked, SecurityOf(q) = i
                 PROVE  TickerOf(q) \in TickersBefore(n, i)
      BY DEF TickersOf
    <3> QED
      BY <1>2 DEF TickersBefore
  <2>2. CASE \A s, t \in TickersBefore(n, i) : s = t
    <3>1. \A s, t \in TickersOf(i) : s = t
      BY <2>1, <2>2
    <3> QED
      BY <3>1, AtMostOne
  <2>3. CASE TickersBefore(n, i) \subseteq Value(data, i, {})
    BY <2>1, <2>3
  <2> QED
    BY <2>2, <2>3 DEF RecordedTickers
<1> QED
  BY <1>3, <1>4, <1>5, <1>6 DEF OneTickerForTwo, TwoTickersForOne

(***************************************************************************)
(* The invariant.  n stands for the row to be read next.                   *)
(***************************************************************************)
Ordered ==
    /\ Listed
    /\ phase \in {"loaded", "identities"} =>
         /\ position = 1 /\ transaction_symbols = NoTable /\ transaction_isins = NoTable
         /\ symbols = [k \in Indices |-> Row(k).symbol]
    /\ phase = "rows" =>
         /\ IdentitiesRead
         /\ position \in 1 .. Len(input.rows) + 1
         /\ \A n \in {position} : ReadUpTo(n)
    /\ phase = "reports" => position \in Nat \ {0}
    /\ IdentityOrderFree

LEMMA ListedKept ==
  ASSUME Listed, UNCHANGED input
  PROVE  Listed'
  BY DEF Listed, Indices

LEMMA ConstructOrdered ==
  ASSUME NEW given \in Inputs, Construct(given)
  PROVE  Ordered'
<1>1. /\ input' = given /\ phase' \in {"loaded", "unreadable"}
      /\ position' = 1 /\ transaction_symbols' = NoTable /\ transaction_isins' = NoTable
      /\ symbols' = [k \in DOMAIN given.rows |-> given.rows[k].symbol]
  BY DEF Construct
<1>2. given \in [rows : Seq(ToSet(given.rows)), reports : Seq(ToSet(given.reports))]
  BY IsinsAssumption
<1>3. Listed'
  BY <1>1, <1>2 DEF Listed, Indices
<1>4. IdentityOrderFree'
  BY <1>1 DEF IdentityOrderFree
<1>5. symbols' = [k \in Indices |-> Row(k).symbol]'
  BY <1>1 DEF Indices, Row
<1> QED
  BY <1>1, <1>3, <1>4, <1>5 DEF Ordered

LEMMA LoadOrdered ==
  ASSUME Ordered, LoadTransactions
  PROVE  Ordered'
<1>1. /\ phase = "loaded" /\ phase' \in {"two securities", "identities"}
      /\ UNCHANGED <<symbols, position, transaction_symbols, transaction_isins>>
      /\ Listed
  BY DEF LoadTransactions, Refuse, Ordered
<1>2. input' = [rows |-> input.rows, reports |-> input'.reports]
  <2>1. CASE input' = input
    BY <1>1, <2>1 DEF Listed
  <2>2. CASE \E reports : input' = [input EXCEPT !.reports = reports]
    <3>1. PICK reports : input' = [input EXCEPT !.reports = reports]
      BY <2>2
    <3>2. DOMAIN input = {"rows", "reports"}
      BY <1>1 DEF Listed
    <3>3. input' = [rows |-> input.rows, reports |-> reports]
      BY <3>1, <3>2
    <3> QED
      BY <3>3
  <2> QED
    BY <2>1, <2>2 DEF LoadTransactions, Refuse
<1>3. input'.rows = input.rows
  BY <1>2
<1>4. Listed' /\ Indices' = Indices /\ \A k : Row(k)' = Row(k)
  BY <1>1, <1>2, <1>3 DEF Listed, Indices, Row
<1>5. symbols = [k \in Indices |-> Row(k).symbol]
  BY <1>1 DEF Ordered
<1>6. symbols' = [k \in Indices |-> Row(k).symbol]'
  BY <1>1, <1>4, <1>5
<1>7. IdentityOrderFree'
  BY <1>1 DEF IdentityOrderFree
<1> QED
  BY <1>1, <1>4, <1>6, <1>7 DEF Ordered

\* Before the first row nothing is recorded.
LEMMA NothingRead ==
  ASSUME Listed, transaction_symbols = NoTable, transaction_isins = NoTable,
         symbols = [k \in Indices |-> Row(k).symbol]
  PROVE  ReadUpTo(1)
<1>1. \A k \in Indices : ~(k < 1)
  BY DEF Listed
<1>2. \A i : TickersBefore(1, i) = {}
  BY <1>1 DEF TickersBefore
<1>3. RecordedTickers(1)
  BY <1>2 DEF RecordedTickers, Value, NoTable
<1>4. RecordedSecurities(1)
  BY <1>1 DEF RecordedSecurities, NoTable
<1>5. RowsRenamed(1)
  BY <1>1 DEF RowsRenamed
<1> QED
  BY <1>3, <1>4, <1>5 DEF ReadUpTo

\* What is recorded still stands when neither the rows nor the records change.
LEMMA ReadKept ==
  ASSUME UNCHANGED <<input, data, transaction_symbols, transaction_isins, symbols>>,
         NEW n, ReadUpTo(n)
  PROVE  ReadUpTo(n)'
<1>1. RecordedTickers(n)'
  BY SameRows DEF ReadUpTo, RecordedTickers
<1>2. RecordedSecurities(n)'
  BY SameRows DEF ReadUpTo, RecordedSecurities
<1>3. RowsRenamed(n)'
  BY SameRows DEF ReadUpTo, RowsRenamed
<1> QED
  BY <1>1, <1>2, <1>3 DEF ReadUpTo

LEMMA ReadIdentitiesOrdered ==
  ASSUME Ordered, ReadIdentities
  PROVE  Ordered'
<1>1. /\ phase = "identities" /\ Listed /\ UNCHANGED <<input, data, position,
           transaction_symbols, transaction_isins, symbols>>
      /\ position = 1 /\ transaction_symbols = NoTable /\ transaction_isins = NoTable
      /\ symbols = [k \in Indices |-> Row(k).symbol]
      /\ Listed'
  BY ListedKept DEF ReadIdentities, Refuse, Ordered
<1>2. CASE ExportedTwice
  <2>1. phase' = "exported twice"
    BY <1>2 DEF ReadIdentities, Refuse
  <2>2. OneTickerForTwo'
    BY <1>1, <1>2, ExportedTwiceShows, SameVerdict
  <2>3. IdentityOrderFree'
    BY <2>1, <2>2 DEF IdentityOrderFree
  <2> QED
    BY <1>1, <2>1, <2>3 DEF Ordered
<1>3. CASE ~ExportedTwice
  <2>1. phase' = "rows" /\ exported_isins' = ExportedBy(Indices)
    BY <1>3 DEF ReadIdentities, Indices
  <2>2. IdentitiesRead'
    BY <1>1, <1>3, <2>1, SameVerdict DEF IdentitiesRead
  <2>3. ReadUpTo(1)'
    BY <1>1, NothingRead, ReadKept
  <2>4. position' \in 1 .. Len(input'.rows) + 1
    BY <1>1 DEF Listed
  <2>5. IdentityOrderFree'
    BY <2>1 DEF IdentityOrderFree
  <2> QED
    BY <1>1, <2>1, <2>2, <2>3, <2>4, <2>5 DEF Ordered
<1> QED
  BY <1>2, <1>3

\* One more row recorded.
LEMMA RowRecorded ==
  ASSUME Listed, UNCHANGED <<input, data>>, NEW n \in Indices, ReadUpTo(n), Known(n),
         ~OtherTicker(SecurityOf(Row(n)), TickerOf(Row(n))),
         ~OtherSecurity(SecurityOf(Row(n)), TickerOf(Row(n))),
         symbols' = [symbols EXCEPT ![n] = TickerOf(Row(n))],
         transaction_symbols' =
           With(transaction_symbols, SecurityOf(Row(n)),
                Value(transaction_symbols, SecurityOf(Row(n)), {}) \cup {TickerOf(Row(n))}),
         transaction_isins' = With(transaction_isins, TickerOf(Row(n)), SecurityOf(Row(n)))
  PROVE  ReadUpTo(n + 1)'
<1> DEFINE i == SecurityOf(Row(n))
           symbol == TickerOf(Row(n))
<1>1. \A j \in Indices : j < n + 1 <=> j < n \/ j = n
  BY DEF Listed
<1>2. RecordedTickers(n) /\ RecordedSecurities(n) /\ RowsRenamed(n)
  BY DEF ReadUpTo
<1>3. i # NoIsin
  BY DEF Known
<1>4. RecordedTickers(n + 1)'
  <2> SUFFICES ASSUME NEW other
               PROVE  /\ Value(transaction_symbols', other, {}) = TickersBefore(n + 1, other)
                      /\ \/ \A s, t \in TickersBefore(n + 1, other) : s = t
                         \/ TickersBefore(n + 1, other) \subseteq Value(data, other, {})
    BY SameRows DEF RecordedTickers
  <2>1. /\ Value(transaction_symbols, other, {}) = TickersBefore(n, other)
        /\ \/ \A s, t \in TickersBefore(n, other) : s = t
           \/ TickersBefore(n, other) \subseteq Value(data, other, {})
    BY <1>2 DEF RecordedTickers
  <2>2. TickersBefore(n + 1, other) =
          TickersBefore(n, other) \cup (IF i = other THEN {symbol} ELSE {})
    BY NextTickers
  <2>3. Value(transaction_symbols', other, {}) =
          IF i = other THEN Value(transaction_symbols, other, {}) \cup {symbol}
          ELSE Value(transaction_symbols, other, {})
    BY DEF With, Value
  <2>4. CASE i = other
    <3>1. \/ TickersBefore(n, other) = {} \/ symbol \in TickersBefore(n, other)
          \/ TickersBefore(n, other) \cup {symbol} \subseteq Value(data, other, {})
      BY <2>1, <2>4 DEF OtherTicker
    <3> QED
      BY <2>1, <2>2, <2>3, <2>4, <3>1
  <2>5. CASE i # other
    BY <2>1, <2>2, <2>3, <2>5
  <2> QED
    BY <2>4, <2>5
<1>5. RecordedSecurities(n + 1)'
  <2>1. /\ DOMAIN transaction_isins' = DOMAIN transaction_isins \cup {symbol}
        /\ \A s \in DOMAIN transaction_isins' :
             transaction_isins'[s] = IF s = symbol THEN i ELSE transaction_isins[s]
    BY DEF With
  <2>2. Value(transaction_isins, symbol, IsinForSymbol(data, symbol)) \in {NoIsin, i}
    BY DEF OtherSecurity
  <2>3. \A k \in Indices : k < n /\ Known(k) /\ TickerOf(Row(k)) = symbol =>
          SecurityOf(Row(k)) = i
    <3> SUFFICES ASSUME NEW k \in Indices, k < n, Known(k), TickerOf(Row(k)) = symbol
                 PROVE  SecurityOf(Row(k)) = i
      OBVIOUS
    <3>1. symbol \in DOMAIN transaction_isins
          /\ transaction_isins[symbol] = SecurityOf(Row(k))
      BY <1>2 DEF RecordedSecurities
    <3>2. SecurityOf(Row(k)) \in {NoIsin, i}
      BY <2>2, <3>1 DEF Value
    <3> QED
      BY <3>2 DEF Known
  <2>4. IsinForSymbol(data, symbol) \in {NoIsin, i}
    <3>1. CASE symbol \notin DOMAIN transaction_isins
      BY <2>2, <3>1 DEF Value
    <3>2. CASE symbol \in DOMAIN transaction_isins
      <4>1. PICK k \in Indices : k < n /\ Known(k) /\ TickerOf(Row(k)) = symbol
        BY <1>2, <3>2 DEF RecordedSecurities
      <4>2. IsinForSymbol(data, symbol) \in {NoIsin, SecurityOf(Row(k))}
        BY <1>2, <4>1 DEF RecordedSecurities
      <4> QED
        BY <2>3, <4>1, <4>2
    <3> QED
      BY <3>1, <3>2
  <2>5. ASSUME NEW k \in Indices, k < n + 1, Known(k)
        PROVE  /\ TickerOf(Row(k)) \in DOMAIN transaction_isins'
               /\ transaction_isins'[TickerOf(Row(k))] = SecurityOf(Row(k))
               /\ IsinForSymbol(data, TickerOf(Row(k))) \in {NoIsin, SecurityOf(Row(k))}
    <3>1. CASE k = n
      BY <2>1, <2>4, <3>1
    <3>2. CASE k < n
      <4>1. /\ TickerOf(Row(k)) \in DOMAIN transaction_isins
            /\ transaction_isins[TickerOf(Row(k))] = SecurityOf(Row(k))
            /\ IsinForSymbol(data, TickerOf(Row(k))) \in {NoIsin, SecurityOf(Row(k))}
        BY <1>2, <2>5, <3>2 DEF RecordedSecurities
      <4> QED
        BY <2>1, <2>3, <2>5, <3>2, <4>1
    <3> QED
      BY <1>1, <2>5, <3>1, <3>2
  <2>6. ASSUME NEW s \in DOMAIN transaction_isins'
        PROVE  \E k \in Indices : k < n + 1 /\ Known(k) /\ TickerOf(Row(k)) = s
    <3>1. CASE s = symbol
      BY <1>1, <3>1
    <3>2. CASE s # symbol
      <4>1. PICK k \in Indices : k < n /\ Known(k) /\ TickerOf(Row(k)) = s
        BY <1>2, <2>1, <2>6, <3>2 DEF RecordedSecurities
      <4> QED
        BY <1>1, <4>1
    <3> QED
      BY <3>1, <3>2
  <2> QED
    BY <2>5, <2>6, SameRows DEF RecordedSecurities
<1>6. RowsRenamed(n + 1)'
  <2>1. DOMAIN symbols = Indices
        /\ \A k \in Indices :
             symbols[k] = IF k < n THEN TickerOf(Row(k)) ELSE Row(k).symbol
    BY <1>2 DEF RowsRenamed
  <2>2. DOMAIN symbols' = Indices
        /\ \A k \in Indices :
             symbols'[k] = IF k < n + 1 THEN TickerOf(Row(k)) ELSE Row(k).symbol
    BY <1>1, <2>1
  <2> QED
    BY <2>2, SameRows DEF RowsRenamed
<1> QED
  BY <1>4, <1>5, <1>6 DEF ReadUpTo

\* One more row of no known security.
LEMMA RowPassed ==
  ASSUME Listed, UNCHANGED <<input, data, transaction_symbols, transaction_isins, symbols>>,
         NEW n \in Indices, ReadUpTo(n), ~Known(n)
  PROVE  ReadUpTo(n + 1)'
<1>1. \A j \in Indices : j < n + 1 <=> j < n \/ j = n
  BY DEF Listed
<1>2. ReadUpTo(n + 1)
  <2>1. \A i : TickersBefore(n + 1, i) = TickersBefore(n, i)
    BY NextTickers
  <2>2. RecordedTickers(n + 1)
    BY <2>1 DEF ReadUpTo, RecordedTickers
  <2>3. RecordedSecurities(n + 1)
    BY <1>1 DEF ReadUpTo, RecordedSecurities
  <2>4. TickerOf(Row(n)) = Row(n).symbol
    BY KnownTicker
  <2>5. RowsRenamed(n + 1)
    BY <1>1, <2>4 DEF ReadUpTo, RowsRenamed
  <2> QED
    BY <2>2, <2>3, <2>5 DEF ReadUpTo
<1> QED
  BY <1>2, ReadKept

LEMMA AddFromTransactionOrdered ==
  ASSUME Ordered, AddFromTransaction
  PROVE  Ordered'
<1> DEFINE r == Row(position)
           i == Resolved(r)
           symbol == Canonical(i, r.symbol)
<1>1. /\ phase = "rows" /\ Listed /\ IdentitiesRead /\ ReadUpTo(position)
      /\ UNCHANGED <<input, data, exported_isins>>
      /\ position \in Indices /\ Listed'
  <2>1. /\ phase = "rows" /\ Listed /\ IdentitiesRead /\ \A n \in {position} : ReadUpTo(n)
        /\ UNCHANGED <<input, data, exported_isins>>
        /\ position \in 1 .. Len(input.rows) + 1 /\ position <= Len(input.rows)
    BY DEF AddFromTransaction, Ordered, Refuse
  <2>2. position \in Indices
    BY <2>1 DEF Listed
  <2> QED
    BY <2>1, <2>2, ListedKept
<1>2. PICK n \in Indices : n = position
  BY <1>1
<1>3. IdentitiesRead'
  BY <1>1, SameVerdict DEF IdentitiesRead
<1>4. r.symbol = NoTicker \/ i = SecurityOf(Row(n))
  BY <1>1, <1>2, ResolvedIsSecurity
<1>5. r.symbol = NoTicker \/ i = NoIsin <=> ~Known(n)
  BY <1>2, <1>4 DEF Known
<1>6. Known(n) => symbol = TickerOf(Row(n))
  BY <1>1, <1>2, <1>4, <1>5, KnownTicker
<1>7. /\ ~Known(n) =>
           /\ position' = position + 1
           /\ UNCHANGED <<transaction_symbols, transaction_isins, symbols, phase>>
      /\ Known(n) /\ OtherTicker(i, symbol) => phase' = "another ticker"
      /\ Known(n) /\ ~OtherTicker(i, symbol) /\ OtherSecurity(i, symbol) =>
           phase' = "another security"
      /\ Known(n) /\ ~OtherTicker(i, symbol) /\ ~OtherSecurity(i, symbol) =>
           /\ position' = position + 1 /\ UNCHANGED phase
           /\ symbols' = [symbols EXCEPT ![position] = symbol]
           /\ transaction_symbols' =
                With(transaction_symbols, i,
                     Value(transaction_symbols, i, {}) \cup {symbol})
           /\ transaction_isins' = With(transaction_isins, symbol, i)
  BY <1>5 DEF AddFromTransaction, Refuse, Row
<1> HIDE DEF r, i, symbol
<1>8. ASSUME phase' = "rows", position' = position + 1, ReadUpTo(n + 1)'
      PROVE  Ordered'
  <2>1. position' = n + 1 /\ position' \in 1 .. Len(input'.rows) + 1
    BY <1>1, <1>2, <1>8 DEF Listed
  <2>2. IdentityOrderFree'
    BY <1>8 DEF IdentityOrderFree
  <2> QED
    BY <1>1, <1>3, <1>8, <2>1, <2>2 DEF Ordered
<1>9. CASE ~Known(n)
  <2>1. ReadUpTo(n + 1)'
    BY <1>1, <1>2, <1>7, <1>9, RowPassed
  <2> QED
    BY <1>1, <1>7, <1>8, <1>9, <2>1
<1>10. CASE Known(n) /\ (OtherTicker(i, symbol) \/ OtherSecurity(i, symbol))
  <2>1. phase' \in {"another ticker", "another security"}
    BY <1>7, <1>10
  <2>2. OneTickerForTwo \/ TwoTickersForOne
    BY <1>1, <1>2, <1>4, <1>5, <1>6, <1>10, RefusedRow DEF ReadUpTo
  <2>3. IdentityOrderFree'
    BY <1>1, <2>1, <2>2, SameVerdict DEF IdentityOrderFree
  <2> QED
    BY <1>1, <2>1, <2>3 DEF Ordered
<1>11. CASE Known(n) /\ ~OtherTicker(i, symbol) /\ ~OtherSecurity(i, symbol)
  <2>1. i = SecurityOf(Row(n)) /\ symbol = TickerOf(Row(n))
    BY <1>4, <1>5, <1>6, <1>11
  <2>2. ReadUpTo(n + 1)'
    BY <1>1, <1>2, <1>7, <1>11, <2>1, RowRecorded
  <2> QED
    BY <1>1, <1>7, <1>8, <1>11, <2>2
<1> QED
  BY <1>9, <1>10, <1>11

LEMMA RowsEndOrdered ==
  ASSUME Ordered, RowsEnd
  PROVE  Ordered'
<1>1. /\ Listed /\ IdentitiesRead /\ position = Len(input.rows) + 1
      /\ ReadUpTo(position) /\ phase' = "reports" /\ position' = 1
      /\ UNCHANGED <<input, data, symbols>> /\ Listed'
  BY ListedKept DEF RowsEnd, Ordered
<1>2. ~OneTickerForTwo /\ ~TwoTickersForOne
  BY <1>1, NoneRefused DEF ReadUpTo
<1>3. \A k \in DOMAIN symbols : symbols[k] = TickerOf(input.rows[k])
  <2> SUFFICES ASSUME NEW k \in DOMAIN symbols
               PROVE  symbols[k] = TickerOf(Row(k))
    BY DEF Row
  <2>1. k \in Indices
    BY <1>1 DEF ReadUpTo, RowsRenamed
  <2>2. k < position
    BY <1>1, <2>1 DEF Listed
  <2> QED
    BY <1>1, <2>1, <2>2 DEF ReadUpTo, RowsRenamed
<1>4. \A k \in DOMAIN symbols' : symbols'[k] = TickerOf(input.rows[k])'
  BY <1>1, <1>3, SameRows DEF Row
<1>5. ~OneTickerForTwo' /\ ~TwoTickersForOne'
  BY <1>1, <1>2, SameVerdict
<1>6. IdentityOrderFree'
  BY <1>1, <1>4, <1>5 DEF IdentityOrderFree
<1> QED
  BY <1>1, <1>6 DEF Ordered

LEMMA ReportsOrdered ==
  ASSUME Ordered, \/ AnswerReport \/ LookUpFails \/ ReportsEnd
                  \/ \E tickers \in UNION {Lookups[i] : i \in DOMAIN Lookups} :
                       LookUp(tickers)
  PROVE  Ordered'
<1>1. /\ phase = "reports" /\ UNCHANGED input
      /\ \/ phase' = "reports" /\ position' = position + 1
         \/ phase' \in {"ended", "lookup"}
  <2>1. CASE AnswerReport
    BY <2>1 DEF AnswerReport, Finds
  <2>2. CASE LookUpFails \/ ReportsEnd
    BY <2>2 DEF LookUpFails, ReportsEnd, Refuse
  <2>3. CASE \E tickers \in UNION {Lookups[i] : i \in DOMAIN Lookups} : LookUp(tickers)
    BY <2>3 DEF LookUp, Finds
  <2> QED
    BY <2>1, <2>2, <2>3
<1>2. position \in Nat \ {0} /\ Listed /\ Listed'
  BY <1>1, ListedKept DEF Ordered
<1>3. phase' = "reports" => position' \in Nat \ {0} /\ position' # 1
  BY <1>1, <1>2
<1>4. IdentityOrderFree'
  BY <1>1, <1>3 DEF IdentityOrderFree
<1> QED
  BY <1>1, <1>2, <1>3, <1>4 DEF Ordered

LEMMA StutterOrdered ==
  ASSUME Ordered, UNCHANGED isinVars
  PROVE  Ordered'
<1>1. Listed /\ Listed' /\ UNCHANGED <<input, data, phase, position, symbols, exported_isins,
                                       transaction_symbols, transaction_isins>>
  BY ListedKept DEF Ordered, isinVars
<1>2. IdentityOrderFree'
  <2>1. (phase' \in {"exported twice", "another ticker", "another security"} =>
          OneTickerForTwo' \/ TwoTickersForOne')
    BY <1>1, SameVerdict DEF Ordered, IdentityOrderFree
  <2>2. phase' = "reports" /\ position' = 1 =>
          /\ ~OneTickerForTwo' /\ ~TwoTickersForOne'
          /\ \A k \in DOMAIN symbols' : symbols'[k] = TickerOf(Row(k))'
    BY <1>1, SameVerdict, SameRows DEF Ordered, IdentityOrderFree, Row
  <2> QED
    BY <2>1, <2>2 DEF IdentityOrderFree, Row
<1>3. phase' = "rows" => /\ IdentitiesRead'
                         /\ position' \in 1 .. Len(input'.rows) + 1
                         /\ \A n \in {position'} : ReadUpTo(n)'
  <2>1. phase' = "rows" => IdentitiesRead'
    BY <1>1, SameVerdict DEF Ordered, IdentitiesRead
  <2>2. phase' = "rows" => \A n \in {position} : ReadUpTo(n)'
    BY <1>1, ReadKept DEF Ordered
  <2> QED
    BY <1>1, <2>1, <2>2 DEF Ordered
<1>4. symbols = [k \in Indices |-> Row(k).symbol] =>
        symbols' = [k \in Indices |-> Row(k).symbol]'
  BY <1>1 DEF Indices, Row
<1> QED
  BY <1>1, <1>2, <1>3, <1>4 DEF Ordered

LEMMA StepOrdered == Ordered /\ [IsinsNext]_isinVars => Ordered'
<1> SUFFICES ASSUME Ordered, [IsinsNext]_isinVars
             PROVE  Ordered'
  OBVIOUS
<1>1. CASE UNCHANGED isinVars
  BY <1>1, StutterOrdered
<1>2. CASE IsinsNext
  BY <1>2, ConstructOrdered, LoadOrdered, ReadIdentitiesOrdered,
     AddFromTransactionOrdered, RowsEndOrdered, ReportsOrdered DEF IsinsNext
<1> QED
  BY <1>1, <1>2

LEMMA InitOrdered == IsinsInit => Ordered
<1> SUFFICES ASSUME IsinsInit
             PROVE  Ordered
  OBVIOUS
<1>1. /\ input = [rows |-> <<>>, reports |-> <<>>] /\ phase = "ended"
  BY DEF IsinsInit
<1>2. Listed
  BY <1>1 DEF Listed, Indices
<1>3. IdentityOrderFree
  BY <1>1 DEF IdentityOrderFree
<1> QED
  BY <1>1, <1>2, <1>3 DEF Ordered

(***************************************************************************)
(* Whatever a run's rows and tables: the rows are refused exactly when as  *)
(* a set they disagree, in whichever order the brokers exported them, and  *)
(* the rows of an accepted run carry the ticker that set gives them        *)
(* (add_from_transactions and add_from_transaction).                       *)
(***************************************************************************)
THEOREM IdentityNeverByOrder == IsinsSpec => []IdentityOrderFree
<1>1. Ordered => IdentityOrderFree
  BY DEF Ordered
<1> QED
  BY <1>1, InitOrdered, StepOrdered, PTL DEF IsinsSpec
==============================================================================
