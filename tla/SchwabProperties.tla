-------------------------- MODULE SchwabProperties ---------------------------
(***************************************************************************)
(* What must hold of the loading of a Schwab account.                      *)
(***************************************************************************)
EXTENDS SchwabExport

(* Both lists of rows: the account as exported, the account as delivered. *)
SumOver(list, Keep(_), Of(_)) ==
    MapThenSumSet(LAMBDA i : Of(list[i]), {i \in DOMAIN list : Keep(list[i])})

Blank(x) == IF x = Missing THEN 0 ELSE x

-----------------------------------------------------------------------------

(* Cancelled purchases leave in pairs: each cancellation passed takes one     *)
(* purchase of the same shares, made no later and no more than the window     *)
(* before, and no two take the same one (_filter_cancelled_buy_transactions). *)
CancelledInPairs ==
    phase = "cancel" =>
        LET cancellations == {c \in 1..(cancel_idx - 1) :
                                transactions[c].label = "Cancel Buy"}
            purchases == consumed \ cancellations
        IN /\ cancellations \subseteq consumed
           /\ \E pairing \in [cancellations -> purchases] :
                /\ {pairing[c] : c \in cancellations} = purchases
                /\ \A c, d \in cancellations : pairing[c] = pairing[d] => c = d
                /\ \A c \in cancellations :
                    /\ IsMatchingBuy(pairing[c], c)
                    /\ transactions[c].posted - transactions[pairing[c]].posted
                            \in 0..CancelBuySearchDays

(* The comment on the refusal says a cancellation left over has no purchase   *)
(* to reverse in the window.  Read so, an account is only refused for a       *)
(* cancellation when its cancellations cannot all be paired with purchases    *)
(* of their own.                                                              *)
RefusedOnlyWithoutABuy ==
    phase = "cancel" /\ Searching /\ IsCancellation /\ ~HasBuy(cancel_idx) =>
        LET cancellations == {c \in DOMAIN transactions :
                                transactions[c].label = "Cancel Buy"}
        IN ~\E pairing \in [cancellations -> DOMAIN transactions] :
                /\ \A c, d \in cancellations : pairing[c] = pairing[d] => c = d
                /\ \A c \in cancellations :
                    /\ IsMatchingBuy(pairing[c], c)
                    /\ transactions[c].posted - transactions[pairing[c]].posted
                            \in 0..CancelBuySearchDays

-----------------------------------------------------------------------------

(* A directory of exports is one account (load_from_dir): wherever the        *)
(* account is cut and whatever the files are called, it is read as the whole  *)
(* file was, or refused; and refused only if the whole was or a date is cut.  *)
DirectoryEqualsOneFile ==
    load = 2 /\ phase \in {"done", "refused"} /\ award_file = outcome.award =>
        \/ Outcome = outcome.rows
        \/ phase = "refused" /\ \E i, j \in DOMAIN account :
                i < j /\ account[i].posted = account[j].posted

-----------------------------------------------------------------------------

LotsOf(c) == {i \in DOMAIN open_lots : open_lots[i].contract = c}

RowsOf(c, labels) == {i \in 1..scanned : /\ transactions[i].contract = c
                                         /\ transactions[i].label \in labels}

LeftLots == [i \in DOMAIN open_lots |-> open_lots[i].quantity - open_lots[i].remaining]
ClosedAt == [i \in DOMAIN open_lots |-> open_lots[i].close_cost]
Stated == [i \in DOMAIN transactions |-> transactions[i].quantity]
Paid == [i \in DOMAIN transactions |-> -transactions[i].amount]
Contracts(list) == [k \in DOMAIN list |-> list[k][2]]

(* What the outcome being allocated has taken so far. *)
Taking(c) == IF allocations # <<>> /\ current.contract = c
             THEN SumFunctionOnSet(Contracts(allocations), DOMAIN allocations) ELSE 0

(* What the assignments took from lot i. *)
TakenByAssignments(i) ==
    SumFunctionOnSet([k \in DOMAIN assignments |->
                        SumFunctionOnSet(Contracts(assignments[k].allocations),
                                         TakenFrom(assignments[k].allocations, i))],
                     DOMAIN assignments)

(* Every written contract ends at most once and the oldest grant first        *)
(* (_allocate_option_outcome): of each series what outcomes took is what left *)
(* its lots, at what the closes of that series cost; no lot is drawn on while *)
(* an earlier one has contracts left; and an assigned contract is no longer   *)
(* taxed as a disposal of the option.                                         *)
ContractsEndOnce ==
    phase \in {"scan", "allocate", "settle"} =>
        /\ \A c \in {transactions[i].contract : i \in DOMAIN transactions} \ {Missing} :
            /\ SumFunctionOnSet(LeftLots, LotsOf(c))
                = SumFunctionOnSet(Stated, RowsOf(c, OptionOutcomes)) + Taking(c)
            /\ SumFunctionOnSet(ClosedAt, LotsOf(c))
                = SumFunctionOnSet(Paid, RowsOf(c, {"Buy to Close"}))
            /\ \A i, j \in LotsOf(c) :
                i < j /\ open_lots[j].remaining < open_lots[j].quantity
                    => open_lots[i].remaining = 0
        /\ \A i \in DOMAIN open_lots :
            TaxableQuantity(i) = open_lots[i].quantity - TakenByAssignments(i)

(* The row r is a delivery of the shares assignment a exercised. *)
Delivers(a, r) ==
    LET shares == a.quantity * OptionAssignmentShares
        gross == shares * a.contract.strike
    IN /\ r.contract = Missing /\ r.symbol = a.contract.underlying
       /\ r.quantity = shares /\ r.price = a.contract.strike
       /\ \/ a.contract.call /\ r.label = "Sell" /\ r.amount = gross
          \/ ~a.contract.call /\ r.label = "Buy" /\ r.amount = -gross
       /\ a.day <= r.day /\ r.day <= a.day + SettlementMatchDays

(* The stock rows chosen for the assignments are the only ones that could     *)
(* have been: no other way of giving each assignment a row of its own fits    *)
(* (_find_assignment_share_transaction refuses to guess).                     *)
OneReadingOfSettlements ==
    phase = "done" =>
        \A choice \in [DOMAIN assignments -> DOMAIN transactions] :
            /\ \A k \in DOMAIN assignments : Delivers(assignments[k], transactions[choice[k]])
            /\ \A k, n \in DOMAIN assignments : choice[k] = choice[n] => k = n
            => \A k \in DOMAIN assignments : choice[k] = settled_share_rows[k]

(* Reading lifecycles moves shares in time but never cash, and counts each    *)
(* share once (_apply_option_assignment, _unify_schwab_paired_transactions):  *)
(* per day the rows that move cash sum to what the account moved that day,    *)
(* and the shares bought and sold are those of the exported rows.             *)
CashAndSharesKept ==
    LET Amount(r) == Blank(r.amount)
        Shares(r) == IF Blank(r.quantity) < 0 THEN -r.quantity ELSE Blank(r.quantity)
        \* a cancellation gives back the shares, and the cash, of its purchase
        Bought(r) == CASE r.label = "Buy" -> r.quantity
                       [] r.label = "Cancel Buy" -> -r.quantity
                       [] OTHER -> 0
        Left == {"Sell", "Full Redemption", "Cash Merger", "Cash Merger Adj"}
        Sold(r) == IF r.label \in Left THEN Shares(r) ELSE 0
        Moves(r) == r.cash
        All(r) == TRUE
        cancels == \E i \in DOMAIN account : account[i].label = "Cancel Buy"
    IN phase = "done" =>
        /\ SumOver(reconciled, Moves, Amount) = SumOver(account, All, Amount)
        /\ SumOver(reconciled, All, Bought) = SumOver(account, All, Bought)
        /\ SumOver(reconciled, All, Sold) = SumOver(account, All, Sold)
        /\ ~cancels => \A d \in {account[i].posted : i \in DOMAIN account} :
                SumOver(reconciled, LAMBDA r : r.cash /\ r.day = d, Amount)
                    = SumOver(account, LAMBDA r : r.posted = d, Amount)

-----------------------------------------------------------------------------

(* A vest's cost comes from this run's award file, for the last award on or   *)
(* before its posting, and where that price is stated apart from the count    *)
(* no split of the shares falls on or after any of those awards               *)
(* (_load_award_file, AwardPrices.get, _reject_split_of_a_lapse_priced_symbol) *)
VestCostsAreTheirs ==
    phase = "done" =>
        \A i \in DOMAIN reconciled :
            LET v == reconciled[i] IN
            v.label = "Stock Plan Activity" =>
                /\ award_file.kind \in {"prices", "lapses"}
                /\ v.day \in award_file.days
                /\ \A d \in award_file.days : ~(v.day < d /\ d <= v.posted)
                /\ award_file.kind = "lapses" =>
                    \A j \in DOMAIN reconciled :
                        reconciled[j].label = "Stock Split" => reconciled[j].day < v.day
=============================================================================
