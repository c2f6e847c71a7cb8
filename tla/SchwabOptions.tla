---------------------------- MODULE SchwabOptions ----------------------------
(***************************************************************************)
(* reconcile_written_options: what one Schwab account's option rows say    *)
(* once they are read as lifecycles.  Written contracts are open lots, in  *)
(* the order their grants were read; a close, expiry or assignment takes   *)
(* from them first in first out, one lot per step of the loop.  Then each  *)
(* assignment is settled by the one stock row that delivered its shares,   *)
(* and every terminal row is replaced by what it was.                      *)
(*                                                                         *)
(* A row is a record of the export's columns.  Fees are left out: amounts  *)
(* are net.  Counts and money are integers, so approx_equal is equality.   *)
(***************************************************************************)
EXTENDS Integers, Sequences, FiniteSets, FiniteSetsExt, Functions

CONSTANTS OptionAssignmentShares,   \* OPTION_ASSIGNMENT_SHARES
          SettlementMatchDays,      \* OPTION_SETTLEMENT_MATCH_DAYS
          Symbol,                   \* the stocks an account may hold
          Missing                   \* a column left blank

ASSUME OptionAssumption ==
    /\ OptionAssignmentShares \in Nat \ {0}
    /\ SettlementMatchDays \in Nat
    /\ Missing \notin Int

(* A row of the export: the contract is of a row about an option, the stock   *)
(* of any other; cash says whether the row moves its amount in the account.   *)
Contract == [underlying : Symbol, strike : Nat, call : BOOLEAN, expiry : Int]
Row == [id : Nat, posted : Int, day : Int, label : STRING,
        symbol : Symbol \cup {Missing}, contract : Contract \cup {Missing},
        quantity : Int \cup {Missing}, price : Int \cup {Missing},
        amount : Int \cup {Missing}, cash : BOOLEAN]

VARIABLES phase,               \* which loop of the load is running
          transactions,        \* the account's rows, oldest first
          scanned,             \* rows _scan_option_activity has read
          open_lots,           \* written contracts, in the order they were read
          lot,                 \* the lot _allocate_option_outcome looks at
          needed,              \* contracts of the outcome still to allocate
          allocations,         \* what the outcome took, as <<lot, contracts>>
          assignments,         \* the assignment rows and their allocations
          settled_share_rows,  \* the stock row that settles each assignment
          reconciled           \* the account as the calculator sees it

optionVars == <<transactions, scanned, open_lots, lot, needed, allocations,
                assignments, settled_share_rows, reconciled>>

OptionOutcomes == {"Buy to Close", "Expired", "Assigned"}

-----------------------------------------------------------------------------
(* Validation *)

Premium(r) == r.quantity * OptionAssignmentShares * r.price

ValidWrittenOptionRow(r) ==
    /\ r.quantity # Missing /\ r.quantity > 0
    /\ \/ /\ r.label \in {"Sell to Open", "Buy to Close"}
          /\ r.price # Missing /\ r.price >= 0
          /\ r.amount = IF r.label = "Sell to Open" THEN Premium(r) ELSE -Premium(r)
       \/ /\ r.label \in {"Expired", "Assigned"}
          /\ r.price = Missing
          /\ r.amount \in {Missing, 0}

-----------------------------------------------------------------------------
(* Scanning: every outcome takes its contracts from earlier grants *)

current == transactions[scanned + 1]

Scanning == phase = "scan" /\ scanned < Len(transactions)

RefuseScan ==
    /\ phase' = "refused"
    /\ UNCHANGED optionVars

PassRow ==
    /\ Scanning
    /\ current.contract = Missing
    /\ scanned' = scanned + 1
    /\ UNCHANGED <<phase, transactions, open_lots, lot, needed, allocations,
                   assignments, settled_share_rows, reconciled>>

RefuseOptionRow ==
    /\ Scanning
    /\ current.contract # Missing
    /\ ~ValidWrittenOptionRow(current)
    /\ RefuseScan

OpenLot ==
    /\ Scanning
    /\ current.contract # Missing
    /\ ValidWrittenOptionRow(current)
    /\ current.label = "Sell to Open"
    /\ open_lots' = Append(open_lots,
            [row |-> scanned + 1, contract |-> current.contract, day |-> current.day,
             quantity |-> current.quantity, remaining |-> current.quantity,
             assigned |-> 0, close_cost |-> 0])
    /\ scanned' = scanned + 1
    /\ UNCHANGED <<phase, transactions, lot, needed, allocations, assignments,
                   settled_share_rows, reconciled>>

StartOutcome ==
    /\ Scanning
    /\ current.contract # Missing
    /\ ValidWrittenOptionRow(current)
    /\ current.label \in OptionOutcomes
    /\ phase' = "allocate"
    /\ lot' = 1
    /\ needed' = current.quantity
    /\ allocations' = <<>>
    /\ UNCHANGED <<transactions, scanned, open_lots, assignments,
                   settled_share_rows, reconciled>>

(* The loop of _allocate_option_outcome. *)
Available_AnyContract ==
    /\ open_lots[lot].day <= current.day
    /\ open_lots[lot].remaining # 0

Available ==
    /\ open_lots[lot].contract = current.contract
    /\ open_lots[lot].day <= current.day
    /\ open_lots[lot].remaining # 0

Allocating == phase = "allocate" /\ needed > 0

PassLot ==
    /\ Allocating
    /\ lot <= Len(open_lots)
    /\ ~Available
    /\ lot' = lot + 1
    /\ UNCHANGED <<phase, transactions, scanned, open_lots, needed, allocations,
                   assignments, settled_share_rows, reconciled>>

Taken == IF needed < open_lots[lot].remaining THEN needed ELSE open_lots[lot].remaining

TakeFromLot ==
    /\ Allocating
    /\ lot <= Len(open_lots)
    /\ Available
    /\ open_lots' = [open_lots EXCEPT ![lot].remaining = @ - Taken]
    /\ allocations' = Append(allocations, <<lot, Taken>>)
    /\ needed' = needed - Taken
    /\ lot' = lot + 1
    /\ UNCHANGED <<phase, transactions, scanned, assignments, settled_share_rows,
                   reconciled>>

RefuseUncovered ==
    /\ Allocating
    /\ lot > Len(open_lots)
    /\ RefuseScan

Allocated == phase = "allocate" /\ needed = 0

EndOutcome ==
    /\ phase' = "scan"
    /\ scanned' = scanned + 1
    /\ lot' = 0
    /\ allocations' = <<>>
    /\ UNCHANGED <<transactions, needed, settled_share_rows, reconciled>>

(* _record_close_costs: the last lot takes what the others left. *)
CostShare == [k \in DOMAIN allocations |->
                (-current.amount * allocations[k][2]) \div current.quantity]

CloseCost ==
    [k \in DOMAIN allocations |->
        IF k = Len(allocations)
        THEN -current.amount - SumFunctionOnSet(CostShare, 1..(k - 1))
        ELSE CostShare[k]]

(* The allocations that took from lot i. *)
TakenFrom(list, i) == {k \in DOMAIN list : list[k][1] = i}

RecordClose ==
    /\ Allocated
    /\ current.label = "Buy to Close"
    /\ open_lots' = [i \in DOMAIN open_lots |->
            [open_lots[i] EXCEPT !.close_cost =
                @ + SumFunctionOnSet(CloseCost, TakenFrom(allocations, i))]]
    /\ EndOutcome
    /\ UNCHANGED assignments

RecordExpiry ==
    /\ Allocated
    /\ current.label = "Expired"
    /\ EndOutcome
    /\ UNCHANGED <<open_lots, assignments>>

SameAssignment(a) == a.day = current.day /\ a.contract = current.contract

RecordAssignment ==
    /\ Allocated
    /\ current.label = "Assigned"
    /\ ~\E k \in DOMAIN assignments : SameAssignment(assignments[k])
    /\ open_lots' = [i \in DOMAIN open_lots |->
            [open_lots[i] EXCEPT !.assigned =
                IF TakenFrom(allocations, i) # {}
                THEN @ + allocations[CHOOSE k \in TakenFrom(allocations, i) : TRUE][2]
                ELSE @]]
    /\ assignments' = Append(assignments,
            [row |-> scanned + 1, day |-> current.day, contract |-> current.contract,
             quantity |-> current.quantity, allocations |-> allocations])
    /\ EndOutcome

RefuseSecondAssignment ==
    /\ Allocated
    /\ current.label = "Assigned"
    /\ \E k \in DOMAIN assignments : SameAssignment(assignments[k])
    /\ RefuseScan

EndScan ==
    /\ phase = "scan"
    /\ scanned = Len(transactions)
    /\ phase' = "settle"
    /\ UNCHANGED optionVars

(* An assigned contract's premium belongs to the shares it delivered. *)
TaxableQuantity(i) == open_lots[i].quantity - open_lots[i].assigned

-----------------------------------------------------------------------------
(* Settlement: one stock row for each assignment *)

settling == assignments[Len(settled_share_rows) + 1]

SettlementAction(contract) == IF contract.call THEN "Sell" ELSE "Buy"

AssignedShares(a) == a.quantity * OptionAssignmentShares

CouldSettle(a, i) ==
    LET r == transactions[i] IN
    /\ r.contract = Missing
    /\ r.label = SettlementAction(a.contract)
    /\ r.symbol = a.contract.underlying
    /\ r.quantity = AssignedShares(a)
    /\ r.day \in a.day..(a.day + SettlementMatchDays)

(* _settles_assignment: the cash is delivery at the strike. *)
Settles(a, i) ==
    LET r == transactions[i]
        gross == AssignedShares(a) * a.contract.strike
    IN /\ CouldSettle(a, i)
       /\ r.price = a.contract.strike
       /\ r.amount = IF r.label = "Sell" THEN gross ELSE -gross

UsedRows == {settled_share_rows[k] : k \in DOMAIN settled_share_rows}

Settlements_TakesFirst(a) ==
    LET fits == {i \in DOMAIN transactions \ UsedRows : Settles(a, i)}
    IN IF fits = {} THEN {} ELSE {Min(fits)}

Settlements(a) == {i \in DOMAIN transactions \ UsedRows : Settles(a, i)}

Settling == phase = "settle" /\ Len(settled_share_rows) < Len(assignments)

(* _find_assignment_share_transaction and _apply_option_assignment. *)
SettleAssignment ==
    /\ Settling
    /\ \E i \in DOMAIN transactions :
        /\ Settlements(settling) = {i}
        /\ settled_share_rows' = Append(settled_share_rows, i)
    /\ UNCHANGED <<phase, transactions, scanned, open_lots, lot, needed,
                   allocations, assignments, reconciled>>

RefuseSettlement ==
    /\ Settling
    /\ Cardinality(Settlements(settling)) # 1
    /\ RefuseScan

-----------------------------------------------------------------------------
(* Emission: every terminal row becomes what it really was *)

(* The shares move to the assignment's date, the cash stays where it settled. *)
CashOf(r) == [r EXCEPT !.label = "Settlement", !.symbol = Missing,
                       !.quantity = Missing, !.price = Missing]

SharesOf_CashTwice(a, r) == [r EXCEPT !.day = a.day]
SharesOf(a, r) == [r EXCEPT !.day = a.day, !.cash = FALSE]

Reconciled(i) ==
    LET assigned == {k \in DOMAIN assignments : assignments[k].row = i} IN
    IF i \in UsedRows THEN CashOf(transactions[i])
    ELSE IF assigned # {}
         THEN LET k == CHOOSE k \in assigned : TRUE
              IN SharesOf(assignments[k], transactions[settled_share_rows[k]])
         ELSE transactions[i]

EmitOptionTransactions ==
    /\ phase = "settle"
    /\ Len(settled_share_rows) = Len(assignments)
    /\ reconciled' = SelectSeq([i \in DOMAIN transactions |-> Reconciled(i)],
                               LAMBDA r : r.label # "Expired")
    /\ phase' = "done"
    /\ UNCHANGED <<transactions, scanned, open_lots, lot, needed, allocations,
                   assignments, settled_share_rows>>

-----------------------------------------------------------------------------

StartReconciliation(rows) ==
    /\ transactions' = rows
    /\ scanned' = 0
    /\ open_lots' = <<>>
    /\ lot' = 0
    /\ needed' = 0
    /\ allocations' = <<>>
    /\ assignments' = <<>>
    /\ settled_share_rows' = <<>>
    /\ reconciled' = <<>>

ReconcileWrittenOptions ==
    \/ PassRow \/ RefuseOptionRow \/ OpenLot \/ StartOutcome
    \/ PassLot \/ TakeFromLot \/ RefuseUncovered
    \/ RecordClose \/ RecordExpiry \/ RecordAssignment \/ RefuseSecondAssignment
    \/ EndScan \/ SettleAssignment \/ RefuseSettlement \/ EmitOptionTransactions
=============================================================================
