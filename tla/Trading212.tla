----------------------------- MODULE Trading212 -----------------------------
(***************************************************************************)
(* Loading a directory of Trading 212 exports.  Exports are asked for by   *)
(* range of days, so they overlap: what two of them report is merged       *)
(* without losing what one of them reports twice.  A share reorganisation  *)
(* is two rows, which are paired only when the evidence leaves one way to  *)
(* do it.  Then dividends give up their foreign tax and conversions their  *)
(* cash.                                                                   *)
(*                                                                         *)
(* An instant is a whole number of ticks; an older export states whole     *)
(* seconds.  Money is in pence, so totals less than a penny apart are      *)
(* equal, and values rebuilt from prices are taken to be exact.            *)
(***************************************************************************)
EXTENDS Integers, Sequences, FiniteSets, FiniteSetsExt, SequencesExt

CONSTANTS Directories,       \* the directories: [history, files]
          TicksPerSecond,
          SecondsPerDay,
          SplitPairMaxGap,      \* SPLIT_PAIR_MAX_GAP, in ticks
          SplitCandidateWindow, \* SPLIT_CANDIDATE_WINDOW, in ticks
          CandidateLimit,       \* ANONYMOUS_CANDIDATE_LIMIT
          QuantityEpsilon,      \* QUANTITY_EPSILON, in units of a count
          RatioSearchBound,     \* RATIO_SEARCH_BOUND
          AccountCurrency,
          NoValue               \* an empty cell

ASSUME Trading212Assumption ==
    /\ TicksPerSecond \in Nat \ {0} /\ SecondsPerDay \in Nat \ {0}
    /\ SplitPairMaxGap \in Nat /\ SplitCandidateWindow \in Nat
    /\ CandidateLimit \in Nat \ {0}
    /\ QuantityEpsilon \in Nat /\ RatioSearchBound \in Nat \ {0}
    /\ NoValue \notin Int

VARIABLES directory,   \* the files, in the order of their names
          step,        \* read, pair, combine, chronology, done or refused
          reading,     \* the file to read next
          rows,        \* the rows read, each with its file and index
          visited,     \* the halves the matcher has looked at
          pairs,       \* a close and its open, as <<close, open>>
          events,      \* the reorganisations made of them
          statement    \* what the account comes to, in order

t212Vars == <<directory, step, reading, rows, visited, pairs, events, statement>>

SPLIT_ACTIONS == {"Stock split close", "Stock split open"}
UNSUPPORTED_ACTIONS == {"Stock distribution", "Transfer in", "Transfer out"}

Second(r) == r.instant \div TicksPerSecond
Fraction(r) == r.instant % TicksPerSecond
Date(r) == Second(r) \div SecondsPerDay
Provenance(r) == <<r.file, r.index>>

IsHalf(r) == r.action \in SPLIT_ACTIONS
IsReorganisation(r) == IsHalf(r) \/ r.action = "Stock Split"

(* Integer sequences of one length, in dictionary order. *)
Precedes(s, t) ==
    \E k \in DOMAIN s : s[k] < t[k] /\ \A j \in 1..(k - 1) : s[j] = t[j]

Least(S, key(_)) == CHOOSE x \in S : \A y \in S : ~Precedes(key(y), key(x))

InOrder(S, key(_)) == SetToSortSeq(S, LAMBDA a, b : Precedes(key(a), key(b)))

-----------------------------------------------------------------------------
(* One row *)

(* What a row has to be for Trading212Transaction to accept it. *)
RowReadable(r) ==
    /\ r.action \notin UNSUPPORTED_ACTIONS
    /\ ~(r.action = "Sell" /\ r.amount = 0 /\ r.price = 0)
    /\ r.action = "Conversion" => /\ NoValue \notin {r.moved.from, r.moved.to}
                                  /\ r.moved.from \in Nat /\ r.moved.to \in Nat

(* _read_split_half *)
HalfReadable(r) ==
    /\ NoValue \notin {r.symbol, r.quantity, r.price, r.currency, r.amount}
    /\ r.quantity > 0 /\ r.price > 0 /\ r.amount >= 0
    /\ IF r.rate = NoValue THEN r.currency = AccountCurrency ELSE r.rate > 0
    /\ ~r.money

(* The checks _deduplicate makes before a copy can be dropped. *)
Acceptable(r) ==
    /\ RowReadable(r)
    /\ IsHalf(r) => HalfReadable(r)
    /\ r.action = "Stock Split" => ~r.money

(* Purchases and withdrawals are stated without a sign. *)
Signed(r) ==
    IF r.action \in {"Buy", "Withdrawal"} /\ r.amount > 0
    THEN [r EXCEPT !.amount = -@] ELSE r

Rate(r) == IF r.rate = NoValue THEN 1 ELSE r.rate

-----------------------------------------------------------------------------
(* Overlapping exports *)

(* recorded_fields: what two reports of one transaction have in common.  An *)
(* identifier is reused across transactions, so it is not among them.       *)
RecordedFields(r) ==
    <<Second(r), r.action, r.symbol, r.isin, r.quantity, r.amount, r.moved,
      IF IsReorganisation(r) THEN <<r.instant, r.price, r.currency, r.rate>> ELSE <<>> >>

(* _collection_order_key: fractional stamps first, then distinct ones. *)
CollectionKey_Provenance(S) ==
    LET placed == InOrder(S, Provenance)
    IN FlattenSeq([i \in DOMAIN placed |-> Provenance(placed[i])])

CollectionKey(S) ==
    LET stamped == SetToSortSeq(S, LAMBDA a, b :
            Precedes(<<Fraction(a)>> \o Provenance(a), <<Fraction(b)>> \o Provenance(b)))
        placed == InOrder(S, Provenance)
    IN <<-Cardinality({r \in S : Fraction(r) # 0}),
         -Cardinality({Fraction(r) : r \in S})>>
       \o [i \in DOMAIN stamped |-> Fraction(stamped[i])]
       \o FlattenSeq([i \in DOMAIN placed |-> Provenance(placed[i])])

OfFile(S, f) == {r \in S : r.file = f}
Files(S) == {r.file : r \in S}
MostInOneFile(S) == Max({Cardinality(OfFile(S, f)) : f \in Files(S)})

(* Of the exports that report an identifier the most, one's rows. *)
BestBucket_EveryExport(bucket) == bucket

BestBucket(bucket) ==
    Least({OfFile(bucket, f) : f \in {f \in Files(bucket) :
                Cardinality(OfFile(bucket, f)) = MostInOneFile(bucket)}},
          CollectionKey)

Identified(group) ==
    UNION {BestBucket({r \in group : r.id = id}) :
                id \in {r.id : r \in group} \ {NoValue}}

RowOrderKey(r) == <<IF Fraction(r) = 0 THEN 1 ELSE 0, Fraction(r), r.index>>

(* _best_subset: every way to choose is ranked, unless there are too many. *)
BestSubset(identified, anonymous, needed) ==
    LET choices == kSubset(needed, anonymous) IN
    IF Cardinality(choices) <= CandidateLimit
    THEN Least(choices, LAMBDA S : CollectionKey(identified \cup S))
    ELSE LET ordered == InOrder(anonymous, RowOrderKey)
         IN {ordered[i] : i \in 1..needed}

BestAnonymous(group, identified, needed) ==
    LET eligible == {f \in Files(group) :
                        Cardinality(OfFile(group, f)) = MostInOneFile(group)}
        Of(f) == BestSubset(identified,
                            {r \in OfFile(group, f) : r.id = NoValue}, needed)
    IN Least({Of(f) : f \in eligible}, LAMBDA S : CollectionKey(identified \cup S))

(* _select_group: the export that reports the most says how many are real. *)
SelectGroup(group) ==
    LET identified == Identified(group)
        needed == MostInOneFile(group) - Cardinality(identified)
    IN IF needed > 0 THEN identified \cup BestAnonymous(group, identified, needed)
       ELSE identified

(* A kept row remembers every instant its copies stated. *)
Stamped(group) ==
    {[r EXCEPT !.stated = {c.instant : c \in group}] : r \in SelectGroup(group)}

Groups(S) == {{r \in S : RecordedFields(r) = fields} : fields \in {RecordedFields(r) : r \in S}}

Deduplicate(S) == UNION {Stamped(group) : group \in Groups(S)}

-----------------------------------------------------------------------------
(* Reading *)

Load(f) ==
    {Signed(directory.files[f][i]) @@
        [file |-> f, index |-> i, stated |-> {directory.files[f][i].instant}] :
            i \in DOMAIN directory.files[f]}

(* Each file is merged on its own first. *)
ReadExport ==
    /\ step = "read" /\ reading <= Len(directory.files)
    /\ \A r \in Load(reading) : Acceptable(r)
    /\ rows' = rows \cup Deduplicate(Load(reading))
    /\ reading' = reading + 1
    /\ UNCHANGED <<directory, step, visited, pairs, events, statement>>

RefuseExport ==
    /\ step = "read" /\ reading <= Len(directory.files)
    /\ \E r \in Load(reading) : ~Acceptable(r)
    /\ step' = "refused"
    /\ UNCHANGED <<directory, reading, rows, visited, pairs, events, statement>>

MergeExports ==
    /\ step = "read" /\ reading > Len(directory.files)
    /\ rows' = Deduplicate(rows)
    /\ step' = "pair"
    /\ UNCHANGED <<directory, reading, visited, pairs, events, statement>>

-----------------------------------------------------------------------------
(* Pairing the halves of a reorganisation *)

Halves == {r \in rows : IsHalf(r)}

(* _half_incompatibilities finds nothing, and the rows are of one holding. *)
Compatible(close, open) ==
    /\ close.action = "Stock split close" /\ open.action = "Stock split open"
    /\ close.symbol = open.symbol /\ close.currency = open.currency
    /\ open.instant - close.instant \in 0..SplitPairMaxGap
    /\ open.amount = close.amount
    /\ \A half \in {open, close} : half.quantity * half.price = half.amount * Rate(half)

Partners(half) == {h \in Halves : Compatible(h, half) \/ Compatible(half, h)}

(* The connected component of a half. *)
Component(half) ==
    LET reach[n \in Nat] ==
            IF n = 0 THEN {half}
            ELSE reach[n - 1] \cup UNION {Partners(h) : h \in reach[n - 1]}
    IN reach[Cardinality(Halves)]

Unvisited == Halves \ visited
next == Least(Unvisited, LAMBDA r : <<r.instant>> \o Provenance(r))

Visit(half) ==
    /\ step = "pair"
    /\ Unvisited # {}
    /\ half = next

SetAside ==
    \E half \in Unvisited :
        /\ Visit(half)
        /\ Partners(half) = {}
        /\ visited' = visited \cup {half}
        /\ UNCHANGED <<directory, step, reading, rows, pairs, events, statement>>

(* One close and one open have nothing else they could be paired with. *)
PairHalves ==
    \E half \in Unvisited :
        /\ Visit(half)
        /\ Cardinality(Component(half)) = 2
        /\ pairs' = pairs \cup {<<close, open>> \in Component(half) \X Component(half) :
                                    Compatible(close, open)}
        /\ visited' = visited \cup Component(half)
        /\ UNCHANGED <<directory, step, reading, rows, events, statement>>

RefuseComponent ==
    \E half \in Unvisited :
        /\ Visit(half)
        /\ Cardinality(Component(half)) > 2
        /\ step' = "refused"
        /\ UNCHANGED <<directory, reading, rows, visited, pairs, events, statement>>

EndPairing ==
    /\ step = "pair"
    /\ Unvisited = {}
    /\ step' = "combine"
    /\ UNCHANGED <<directory, reading, rows, visited, pairs, events, statement>>

-----------------------------------------------------------------------------
(* One event from two rows *)

(* recover_ratio: the fractions that carry some true count behind "before"   *)
(* to some true count behind "after".                                         *)
Reduced(n, d) == \A k \in 2..d : ~(n % k = 0 /\ d % k = 0)

Ratios(before, after) ==
    {<<n, d>> \in (1..RatioSearchBound) \X (1..RatioSearchBound) :
        /\ Reduced(n, d)
        /\ n * (before + QuantityEpsilon) >= d * (after - QuantityEpsilon)
        /\ before > QuantityEpsilon =>
            n * (before - QuantityEpsilon) <= d * (after + QuantityEpsilon)}

RecoverRatio_Simplest(before, after) ==
    IF Ratios(before, after) = {} THEN NoValue
    ELSE Least(Ratios(before, after), LAMBDA r : <<r[1] + r[2], r[1]>>)

RecoverRatio(before, after) ==
    IF Cardinality(Ratios(before, after)) = 1
    THEN CHOOSE ratio \in Ratios(before, after) : TRUE
    ELSE NoValue

(* _refuse_legacy_split: an older export may state the event in one row. *)
LegacyConflict(close, open) ==
    \E r \in rows :
        /\ r.action = "Stock Split" /\ r.symbol = open.symbol
        /\ \/ Date(r) \in {Date(close), Date(open)}
           \/ \E half \in {close, open} :
                r.instant - half.instant \in -SplitCandidateWindow..SplitCandidateWindow

OneSecurity(close, open) == NoValue \in {close.isin, open.isin} \/ close.isin = open.isin

Uncombined == {pair \in pairs : ~\E e \in events : e.halves = pair}

CombineHalves ==
    /\ step = "combine"
    /\ \E pair \in Uncombined :
        LET close == pair[1]  open == pair[2] IN
        /\ ~LegacyConflict(close, open)
        /\ OneSecurity(close, open)
        /\ events' = events \cup {
                [halves |-> pair, symbol |-> open.symbol,
                 first |-> close.instant, last |-> open.instant,
                 before |-> close.quantity, after |-> open.quantity,
                 ratio |-> RecoverRatio(close.quantity, open.quantity)]}
    /\ UNCHANGED <<directory, step, reading, rows, visited, pairs, statement>>

RefuseCombination ==
    /\ step = "combine"
    /\ \E pair \in Uncombined : LegacyConflict(pair[1], pair[2]) \/ ~OneSecurity(pair[1], pair[2])
    /\ step' = "refused"
    /\ UNCHANGED <<directory, reading, rows, visited, pairs, events, statement>>

Unpaired == Halves \ UNION {{pair[1], pair[2]} : pair \in pairs}

EndCombining ==
    /\ step = "combine"
    /\ Uncombined = {}
    /\ Unpaired = {}
    /\ step' = "chronology"
    /\ UNCHANGED <<directory, reading, rows, visited, pairs, events, statement>>

RefuseUnpaired ==
    /\ step = "combine"
    /\ Uncombined = {}
    /\ Unpaired # {}
    /\ step' = "refused"
    /\ UNCHANGED <<directory, reading, rows, visited, pairs, events, statement>>

-----------------------------------------------------------------------------
(* The account in order *)

MovesShares(r) == r.action \in {"Buy", "Sell"}

(* _refuse_rows_between_halves asks every instant an export stated. *)
Between_OwnInstant(r, e) ==
    MovesShares(r) /\ r.symbol = e.symbol /\ e.first <= r.instant /\ r.instant <= e.last

Between(r, e) ==
    MovesShares(r) /\ r.symbol = e.symbol
    /\ \E instant \in r.stated : e.first <= instant /\ instant <= e.last

RefuseRowBetween ==
    /\ step = "chronology"
    /\ \E r \in rows, e \in events : Between(r, e)
    /\ step' = "refused"
    /\ UNCHANGED <<directory, reading, rows, visited, pairs, events, statement>>

(* _foreign_tax: the tax in pounds, or that cannot be converted, stays in. *)
Received(r) == r.quantity * r.price

ForeignTax(r) ==
    IF r.action # "Dividend" \/ r.tax.currency \in {NoValue, "GBP", "GBX"}
       \/ r.amount <= 0 \/ r.tax.amount <= 0 THEN 0
    ELSE IF r.tax.currency = AccountCurrency THEN r.tax.amount
    ELSE IF r.tax.currency = r.currency /\ NoValue \notin {r.quantity, r.price}
         THEN IF Received(r) > 0 THEN (r.tax.amount * r.amount) \div Received(r) ELSE 0
    ELSE 0

Entry(r, action, amount, currency) ==
    [action |-> action, amount |-> amount, currency |-> currency, symbol |-> r.symbol,
     quantity |-> IF MovesShares(r) /\ action = r.action THEN r.quantity ELSE 0,
     instant |-> r.instant]

Entries(r) ==
    <<Entry(r, r.action, r.amount + ForeignTax(r), AccountCurrency)>>
    \o (IF ForeignTax(r) = 0 THEN <<>>
        ELSE <<Entry(r, "Dividend tax", -ForeignTax(r), AccountCurrency)>>)
    \o (IF r.action # "Conversion" THEN <<>>
        ELSE <<Entry(r, "Adjustment", -r.moved.from, r.moved.out),
               Entry(r, "Adjustment", r.moved.to, r.moved.in)>>)

EventEntry(e) ==
    [action |-> "Reorganisation", amount |-> 0, currency |-> AccountCurrency,
     symbol |-> e.symbol, quantity |-> 0, instant |-> e.last]

(* Sorted by instant; rows of one instant keep the order of the files, and a *)
(* reorganisation follows them.                                               *)
FinishAccount ==
    /\ step = "chronology"
    /\ ~\E r \in rows, e \in events : Between(r, e)
    /\ LET rest == InOrder(rows \ Halves, LAMBDA r : <<r.instant>> \o Provenance(r))
           made == InOrder(events, LAMBDA e : <<e.last, e.before, e.after>>)
           entries == FlattenSeq([i \in DOMAIN rest |-> Entries(rest[i])])
                        \o [i \in DOMAIN made |-> EventEntry(made[i])]
           order == InOrder(DOMAIN entries, LAMBDA i : <<entries[i].instant, i>>)
       IN statement' = [i \in DOMAIN order |-> entries[order[i]]]
    /\ step' = "done"
    /\ UNCHANGED <<directory, reading, rows, visited, pairs, events>>

-----------------------------------------------------------------------------

T212Init ==
    /\ directory \in Directories
    /\ step = "read"
    /\ reading = 1
    /\ rows = {}
    /\ visited = {}
    /\ pairs = {}
    /\ events = {}
    /\ statement = <<>>

T212Next ==
    \/ ReadExport \/ RefuseExport \/ MergeExports
    \/ SetAside \/ PairHalves \/ RefuseComponent \/ EndPairing
    \/ CombineHalves \/ RefuseCombination \/ EndCombining \/ RefuseUnpaired
    \/ RefuseRowBetween \/ FinishAccount

T212Spec == T212Init /\ [][T212Next]_t212Vars
=============================================================================
