---------------------------- MODULE SchwabExport -----------------------------
(***************************************************************************)
(* Loading one Schwab account: the award-price file, then one CSV or a     *)
(* directory of several, each newest first.  Per file the halves of a      *)
(* merger or redemption are joined; over the whole account cancelled       *)
(* purchases are paired with what they cancel; what is left is turned      *)
(* oldest first and its written options are reconciled (SchwabOptions).    *)
(*                                                                         *)
(* The account is loaded twice: as one file, and then again from a         *)
(* directory of two, perhaps with another award file, in the same process  *)
(* as the class-level award prices allow.                                  *)
(***************************************************************************)
EXTENDS SchwabOptions, SequencesExt

CONSTANTS Accounts,       \* the histories Schwab may hold, newest first
          AwardFiles(_),  \* the award inputs tried with one, each [kind, days]
          CancelBuySearchDays, \* CANCEL_BUY_SEARCH_DAYS
          AwardSearchDays      \* how far back AwardPrices.get looks

NewestFirst(list) ==
    \A i, j \in DOMAIN list : i < j => list[i].posted >= list[j].posted

AwardFile == [kind : {"none", "prices", "lapses", "complete"}, days : SUBSET Int]

ASSUME ExportAssumption ==
    /\ {CancelBuySearchDays, AwardSearchDays} \subseteq Nat
    /\ Accounts \subseteq Seq(Row)
    /\ \A list \in Accounts :
        /\ NewestFirst(list)
        /\ \A i \in DOMAIN list : list[i].day = list[i].posted
        /\ AwardFiles(list) \subseteq AwardFile

VARIABLES account,        \* the rows Schwab exports, newest first
          award_file,     \* the award input of this load
          load,           \* 1: one file; 2: a directory
          awards_prices,  \* AwardPrices, class-level state of the parser
          files,          \* the exports, in the order they are read
          file,           \* the export being read or joined
          rows,           \* the rows of that export not yet joined
          filtered,       \* the rows of that export after joining
          cancel_idx,     \* the row the search for cancellations has reached
          consumed,       \* rows already in a pair, cancellation or purchase
          outcome         \* what the first load gave, and with which award file

exportVars == <<account, award_file, load, awards_prices, files, file, rows,
                filtered, cancel_idx, consumed, outcome>>
vars == <<phase, optionVars, exportVars>>

(* The labels action_from_str reads, one or two for each way a row is treated;
   a purchased option, or a label nobody knows, is refused. *)
Labels == {"Buy", "Cancel Buy", "Sell", "Sell to Open", "Buy to Close", "Expired",
           "Assigned", "MoneyLink Transfer", "Stock Plan Activity", "Stock Split",
           "Cash Merger", "Cash Merger Adj", "Full Redemption", "Full Redemption Adj"}

Refuse == phase' = "refused" /\ UNCHANGED <<optionVars, exportVars>>

-----------------------------------------------------------------------------
(* The award file: vest prices, a complete history, or nothing *)

NoPrices == [award_prices |-> {}, lapse_priced_from |-> Missing,
             from_complete_export |-> FALSE]

(* _load_award_file: whatever the input, this run's prices replace the last. *)
PricesOf_KeepsOld(award) ==
    IF award.kind \in {"none", "complete"} THEN awards_prices
    ELSE [NoPrices EXCEPT !.award_prices = award.days,
                          !.lapse_priced_from = IF award.kind = "lapses"
                                                THEN Min(award.days) ELSE Missing]

PricesOf(award) ==
    [NoPrices EXCEPT
        !.award_prices = IF award.kind \in {"prices", "lapses"} THEN award.days ELSE {},
        !.lapse_priced_from = IF award.kind = "lapses" THEN Min(award.days) ELSE Missing,
        !.from_complete_export = award.kind = "complete"]

LoadAwardFile ==
    /\ phase = "award"
    /\ awards_prices' = PricesOf(award_file)
    /\ phase' = "read"
    /\ file' = 1
    /\ UNCHANGED <<optionVars, account, award_file, load, files, rows, filtered,
                   cancel_idx, consumed, outcome>>

(* AwardPrices.get: the vest is the last priced day on or before its posting. *)
AwardDays(r) == awards_prices.award_prices \cap (r.posted - AwardSearchDays)..r.posted

NeedsAward(r) == r.label = "Stock Plan Activity" /\ r.price = Missing

Readable(r) ==
    /\ r.label \in Labels
    /\ NeedsAward(r) => AwardDays(r) # {}

(* SchwabTransaction.create: a vest takes the date of its award with its price. *)
Created(r) ==
    IF NeedsAward(r)
    THEN [r EXCEPT !.day = Max(AwardDays(r)), !.price = Max(AwardDays(r))]
    ELSE r

ReadRows ==
    /\ phase = "read"
    /\ file <= Len(files)
    /\ \A i \in DOMAIN files[file] : Readable(files[file][i])
    /\ files' = [files EXCEPT ![file] = [i \in DOMAIN @ |-> Created(@[i])]]
    /\ file' = file + 1
    /\ UNCHANGED <<phase, optionVars, account, award_file, load, awards_prices,
                   rows, filtered, cancel_idx, consumed, outcome>>

RefuseRow ==
    /\ phase = "read"
    /\ file <= Len(files)
    /\ \E i \in DOMAIN files[file] : ~Readable(files[file][i])
    /\ Refuse

-----------------------------------------------------------------------------
(* Several exports of one account may not overlap *)

Oldest(export) == Min({export[i].posted : i \in DOMAIN export})
Newest(export) == Max({export[i].posted : i \in DOMAIN export})

Overlap_SharedDateAllowed(a, b) == Oldest(a) < Newest(b) /\ Oldest(b) < Newest(a)
Overlap(a, b) == Oldest(a) <= Newest(b) /\ Oldest(b) <= Newest(a)

SomeOverlap == \E i, j \in DOMAIN files : i < j /\ Overlap(files[i], files[j])

AllRead == phase = "read" /\ file > Len(files)

RejectOverlap == AllRead /\ SomeOverlap /\ Refuse

AcceptExports ==
    /\ AllRead
    /\ ~SomeOverlap
    /\ phase' = "unify"
    /\ file' = 1
    /\ rows' = files[1]
    /\ filtered' = <<>>
    /\ UNCHANGED <<optionVars, account, award_file, load, awards_prices, files,
                   cancel_idx, consumed, outcome>>

-----------------------------------------------------------------------------
(* Joining the halves of a merger or redemption, one file at a time *)

SameEvent(a, b) == a.symbol = b.symbol /\ a.day = b.day

(* One half states the proceeds only, the other the shares that left only. *)
JoinsWith(proceeds, shares) ==
    /\ SameEvent(proceeds, shares)
    /\ proceeds.amount # Missing /\ proceeds.amount >= 0
    /\ proceeds.quantity = Missing /\ proceeds.price = Missing
    /\ shares.quantity # Missing /\ shares.quantity < 0
    /\ shares.amount = Missing /\ shares.price = Missing

Joined(main, proceeds, shares) ==
    [main EXCEPT !.quantity = -shares.quantity,
                 !.amount = proceeds.amount,
                 !.price = proceeds.amount \div (-shares.quantity)]

Unifying(label) == phase = "unify" /\ rows # <<>> /\ Head(rows).label = label

KeepsUnify ==
    UNCHANGED <<phase, optionVars, account, award_file, load, awards_prices, files,
                file, cancel_idx, consumed, outcome>>

KeepRow ==
    /\ phase = "unify" /\ rows # <<>>
    /\ Head(rows).label \notin {"Cash Merger Adj", "Full Redemption Adj"}
    /\ filtered' = Append(filtered, Head(rows))
    /\ rows' = Tail(rows)
    /\ KeepsUnify

(* The adjustment of a merger follows the merger. *)
MergerJoins ==
    /\ filtered # <<>>
    /\ Last(filtered).label = "Cash Merger"
    /\ JoinsWith(Last(filtered), Head(rows))

JoinCashMerger ==
    /\ Unifying("Cash Merger Adj")
    /\ MergerJoins
    /\ filtered' = Append(Front(filtered),
                          Joined(Last(filtered), Last(filtered), Head(rows)))
    /\ rows' = Tail(rows)
    /\ KeepsUnify

(* The adjustment of a redemption precedes the redemption. *)
RedemptionJoins ==
    /\ Len(rows) > 1
    /\ rows[2].label = "Full Redemption"
    /\ JoinsWith(Head(rows), rows[2])

JoinFullRedemption ==
    /\ Unifying("Full Redemption Adj")
    /\ RedemptionJoins
    /\ filtered' = Append(filtered, Joined(rows[2], Head(rows), rows[2]))
    /\ rows' = Tail(Tail(rows))
    /\ KeepsUnify

RefuseHalf ==
    /\ \/ Unifying("Cash Merger Adj") /\ ~MergerJoins
       \/ Unifying("Full Redemption Adj") /\ ~RedemptionJoins
    /\ Refuse

NextFile ==
    /\ phase = "unify" /\ rows = <<>>
    /\ files' = [files EXCEPT ![file] = filtered]
    /\ file' = file + 1
    /\ filtered' = <<>>
    /\ IF file < Len(files)
       THEN rows' = files[file + 1] /\ UNCHANGED phase
       ELSE phase' = "merge" /\ UNCHANGED rows
    /\ UNCHANGED <<optionVars, account, award_file, load, awards_prices,
                   cancel_idx, consumed, outcome>>

(* The exports make one account, the one that reaches the latest day first. *)
Unmerged == {f \in DOMAIN files : files[f] # <<>>}

MergeExport ==
    /\ phase = "merge"
    /\ \E f \in Unmerged :
        /\ \A g \in Unmerged \ {f} : Newest(files[f]) >= Newest(files[g])
        /\ transactions' = transactions \o files[f]
        /\ files' = [files EXCEPT ![f] = <<>>]
    /\ UNCHANGED <<phase, scanned, open_lots, lot, needed, allocations, assignments,
                   settled_share_rows, reconciled, account, award_file, load,
                   awards_prices, file, rows, filtered, cancel_idx, consumed, outcome>>

EndMerge ==
    /\ phase = "merge"
    /\ Unmerged = {}
    /\ phase' = "cancel"
    /\ cancel_idx' = 1
    /\ consumed' = {}
    /\ UNCHANGED <<optionVars, account, award_file, load, awards_prices, files, file,
                   rows, filtered, outcome>>

-----------------------------------------------------------------------------
(* Cancelled purchases, over the whole account and still newest first *)

IsMatchingBuy(b, c) ==
    /\ transactions[b].label = "Buy"
    /\ transactions[b].symbol = transactions[c].symbol
    /\ transactions[b].quantity = transactions[c].quantity
    /\ transactions[b].price = transactions[c].price

DaysApart(b, c) ==
    LET gap == transactions[c].posted - transactions[b].posted
    IN IF gap < 0 THEN -gap ELSE gap

(* Rows below the cancellation, out to the edge of the window; the loop stops
   at the first row outside it. *)
OlderBuys_Reused(c) ==
    {b \in (c + 1)..Len(transactions) :
        /\ \A k \in (c + 1)..b : DaysApart(k, c) <= CancelBuySearchDays
        /\ IsMatchingBuy(b, c)}

OlderBuys(c) ==
    {b \in (c + 1)..Len(transactions) :
        /\ \A k \in (c + 1)..b : DaysApart(k, c) <= CancelBuySearchDays
        /\ b \notin consumed
        /\ IsMatchingBuy(b, c)}

(* Rows above it that share its date. *)
SameDateBuys(c) ==
    {b \in 1..(c - 1) :
        /\ \A k \in b..(c - 1) : transactions[k].posted = transactions[c].posted
        /\ b \notin consumed
        /\ IsMatchingBuy(b, c)}

HasBuy(c) == OlderBuys(c) # {} \/ SameDateBuys(c) # {}

MatchingBuy(c) == IF OlderBuys(c) # {} THEN Min(OlderBuys(c)) ELSE Max(SameDateBuys(c))

Searching == phase = "cancel" /\ cancel_idx <= Len(transactions)
IsCancellation == transactions[cancel_idx].label = "Cancel Buy"

KeepsSearch ==
    UNCHANGED <<phase, optionVars, account, award_file, load, awards_prices, files,
                file, rows, filtered, outcome>>

PassTransaction ==
    /\ Searching
    /\ ~IsCancellation
    /\ cancel_idx' = cancel_idx + 1
    /\ UNCHANGED consumed
    /\ KeepsSearch

CancelBuy ==
    /\ Searching
    /\ IsCancellation
    /\ HasBuy(cancel_idx)
    /\ consumed' = consumed \cup {cancel_idx, MatchingBuy(cancel_idx)}
    /\ cancel_idx' = cancel_idx + 1
    /\ KeepsSearch

RefuseCancellation == Searching /\ IsCancellation /\ ~HasBuy(cancel_idx) /\ Refuse

(* _reject_split_of_a_lapse_priced_symbol *)
SplitAfterLapse(list) ==
    /\ awards_prices.lapse_priced_from # Missing
    /\ \E i \in DOMAIN list :
        /\ list[i].label = "Stock Split"
        /\ list[i].day >= awards_prices.lapse_priced_from

(* What is left, oldest first. *)
Kept ==
    LET kept[i \in 0..Len(transactions)] ==
            IF i = 0 THEN <<>>
            ELSE IF i \in consumed THEN kept[i - 1]
            ELSE <<transactions[i]>> \o kept[i - 1]
    IN kept[Len(transactions)]

EndSearch == phase = "cancel" /\ cancel_idx > Len(transactions)

RejectSplit == EndSearch /\ SplitAfterLapse(Kept) /\ Refuse

FinalizeTransactions ==
    /\ EndSearch
    /\ ~SplitAfterLapse(Kept)
    /\ StartReconciliation(Kept)
    /\ phase' = "scan"
    /\ UNCHANGED exportVars

-----------------------------------------------------------------------------

Outcome == IF phase = "done" THEN reconciled ELSE <<"refused">>

Begin(list) ==
    /\ phase' = "award"
    /\ files' = list
    /\ file' = 0
    /\ rows' = <<>>
    /\ filtered' = <<>>
    /\ cancel_idx' = 0
    /\ consumed' = {}
    /\ StartReconciliation(<<>>)

(* load_from_dir, over the same account cut in two, named in either order. *)
LoadDirectory ==
    /\ phase \in {"done", "refused"}
    /\ load = 1
    /\ load' = 2
    /\ outcome' = [award |-> award_file, rows |-> Outcome]
    /\ award_file' \in AwardFiles(account)
    /\ \E cut \in 1..(Len(account) - 1) :
        LET newer == SubSeq(account, 1, cut)
            older == SubSeq(account, cut + 1, Len(account))
        IN Begin(<<newer, older>>) \/ Begin(<<older, newer>>)
    /\ UNCHANGED <<account, awards_prices>>

Init ==
    /\ account \in Accounts
    /\ award_file \in AwardFiles(account)
    /\ load = 1
    /\ awards_prices = NoPrices
    /\ files = <<account>>
    /\ outcome = [award |-> award_file, rows |-> <<>>]
    /\ phase = "award"
    /\ file = 0
    /\ rows = <<>> /\ filtered = <<>> /\ cancel_idx = 0 /\ consumed = {}
    /\ transactions = <<>> /\ scanned = 0 /\ open_lots = <<>>
    /\ lot = 0 /\ needed = 0 /\ allocations = <<>>
    /\ assignments = <<>> /\ settled_share_rows = <<>> /\ reconciled = <<>>

Next ==
    \/ LoadAwardFile
    \/ ReadRows \/ RefuseRow
    \/ RejectOverlap \/ AcceptExports
    \/ KeepRow \/ JoinCashMerger \/ JoinFullRedemption \/ RefuseHalf \/ NextFile
    \/ MergeExport \/ EndMerge
    \/ PassTransaction \/ CancelBuy \/ RefuseCancellation
    \/ RejectSplit \/ FinalizeTransactions
    \/ ReconcileWrittenOptions /\ UNCHANGED exportVars
    \/ LoadDirectory

Spec == Init /\ [][Next]_vars
=============================================================================
