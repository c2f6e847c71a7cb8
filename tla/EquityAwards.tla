---------------------------- MODULE EquityAwards -----------------------------
(***************************************************************************)
(* Reading a complete Schwab Equity Awards export of one symbol.  Schwab   *)
(* prints records made before a split in a mixture of units, so the parser *)
(* keeps a table of splits: lapses, which state both units, are checked    *)
(* against it first, then every row is converted into current units.       *)
(*                                                                         *)
(* Counts are in fine units, WholeShare to a share; money is in units of   *)
(* price times fine unit, so that a product is exact.  A transaction's     *)
(* price is its gross money over its count.                                *)
(***************************************************************************)
EXTENDS Integers, Sequences, FiniteSets, FiniteSetsExt, Folds, SequencesExt

CONSTANTS Exports,      \* the exports: [rows, restatement, table]
          WholeShare,   \* fine units in a share
          PriceFloor,   \* presplit_price_floor
          Blank         \* a field the export leaves out

ASSUME AwardAssumption == WholeShare \in Nat \ {0} /\ Blank \notin Int

VARIABLES export,       \* the file
          stage,        \* lapses, convert, done or refused
          at,           \* rows passed in this stage
          awards, \* what the rows became, the last row first
          warned        \* disposals _check_disposal_units warns about

awardVars == <<export, stage, at, awards, warned>>

DISCARDED_ACTIONS == {"Journal", "Wire Transfer", "Lapse"}

EventRow == export.rows[at + 1]

-----------------------------------------------------------------------------
(* Units *)

(* split_multiplier: a count printed on a day, in today's shares. *)
Multiplier(table, day) ==
    MapThenFoldSet(LAMBDA x, y : x * y, 1, LAMBDA s : s.ratio,
                   LAMBDA S : CHOOSE s \in S : TRUE,
                   {s \in table : day < s.effective})

split_multiplier(day) == Multiplier(export.table, day)

AcquisitionsOnly == export.restatement = "ACQUISITIONS_ONLY"

(* _detail_counts_multiplier: counts inside a row are in units of their day. *)
DetailMultiplier(day) == IF AcquisitionsOnly THEN split_multiplier(day) ELSE 1

OrNone(x) == IF x = Blank THEN 0 ELSE x

-----------------------------------------------------------------------------
(* Lapses: the one record that states both units *)

(* _check_one_lapse: what it states contradicts the table. *)
LapseContradicts(r) ==
    /\ r.action = "Lapse"
    /\ AcquisitionsOnly
    /\ Blank \notin {r.deposited, r.withheld}
    /\ r.quantity # (r.deposited + r.withheld) * DetailMultiplier(r.day)

Checking == stage = "lapses" /\ at < Len(export.rows)

CheckLapse ==
    /\ Checking
    /\ ~LapseContradicts(EventRow)
    /\ at' = at + 1
    /\ UNCHANGED <<export, stage, awards, warned>>

RefuseLapse ==
    /\ Checking
    /\ LapseContradicts(EventRow)
    /\ stage' = "refused"
    /\ UNCHANGED <<export, at, awards, warned>>

StartConverting ==
    /\ stage = "lapses" /\ at = Len(export.rows)
    /\ stage' = "convert"
    /\ at' = 0
    /\ UNCHANGED <<export, awards, warned>>

-----------------------------------------------------------------------------
(* Sales: the count, where the row rounds it *)

Gross(r) == r.amount + r.fees
Whole(count) == count % WholeShare = 0

(* _sale_lots: what a lot states has to make sense. *)
LotsMakeSense(r) ==
    /\ r.lots # <<>>
    /\ \A i \in DOMAIN r.lots :
        /\ r.lots[i].shares \in {Blank} \cup Nat
        /\ r.lots[i].price \in {Blank} \cup (Nat \ {0})

LotPrices(r) == {r.lots[i].price : i \in DOMAIN r.lots}

LotsKeptDecimals(r) ==
    /\ \A i \in DOMAIN r.lots : r.lots[i].shares # Blank
    /\ \E i \in DOMAIN r.lots : ~Whole(r.lots[i].shares)

LotSum(r) == MapThenSumSet(LAMBDA i : r.lots[i].shares, DOMAIN r.lots)

OnePrice(r) == Cardinality(LotPrices(r)) = 1 /\ Blank \notin LotPrices(r)

ThePrice(r) == CHOOSE p \in LotPrices(r) : TRUE

(* The lots answer first, then the money where the row does not reconcile. *)
RecoveredSaleQuantity(r) ==
    IF LotsKeptDecimals(r) THEN LotSum(r)
    ELSE IF OnePrice(r) /\ r.quantity * ThePrice(r) - r.fees # r.amount
         THEN Gross(r) \div ThePrice(r)
    ELSE r.quantity

(* _parse_sale_subtransactions refuses what _recovered_sale_quantity lets by. *)
SaleReadable(r) ==
    /\ LotsMakeSense(r)
    /\ AcquisitionsOnly \/ ~Whole(r.quantity) \/ LotsKeptDecimals(r) \/ OnePrice(r)

SaleQuantity(r) ==
    IF ~AcquisitionsOnly /\ ~Whole(r.quantity) THEN r.quantity
    ELSE RecoveredSaleQuantity(r)

-----------------------------------------------------------------------------
(* Purchases: what reaches the pool after tax in shares *)

NoTaxInShares(r) ==
    {r.deposited, r.withheld, r.sold} = {Blank} /\ ~r.method

Accounted(r) ==
    (r.deposited + OrNone(r.withheld) + OrNone(r.sold)) * DetailMultiplier(r.day)

PurchaseReadable(r) ==
    NoTaxInShares(r) \/ (r.deposited # Blank /\ Accounted(r) = r.quantity)

(* _espp_net_shares *)
NetShares_Deposited(r) ==
    IF NoTaxInShares(r) THEN r.quantity ELSE r.deposited

NetShares(r) ==
    IF NoTaxInShares(r) THEN r.quantity ELSE r.deposited * DetailMultiplier(r.day)

-----------------------------------------------------------------------------
(* Rows to transactions *)

Readable(r) ==
    \/ r.action \in {"Sale", "Forced Quick Sell"} /\ SaleReadable(r)
    \/ r.action = "ESPP" /\ PurchaseReadable(r)
    \/ r.action = "Vest" /\ r.price # Blank /\ r.price > 0
    \/ r.action = "Gift" /\ r.amount = 0 /\ r.fees = 0
    \/ r.action \in {"Dividend", "Tax Withholding", "Forced Disbursement"}
        /\ r.amount # Blank

Disposal(r) == r.action \in {"Sale", "Forced Quick Sell", "Gift"}

(* The count and the money before any conversion. *)
Stated(r) ==
    LET quantity == CASE r.action \in {"Sale", "Forced Quick Sell"} -> SaleQuantity(r)
                      [] r.action = "ESPP" -> NetShares(r)
                      [] OTHER -> r.quantity
        gross == CASE r.action \in {"Sale", "Forced Quick Sell"} -> Gross(r)
                   [] r.action \in {"ESPP", "Vest"} -> r.price * quantity
                   [] OTHER -> r.amount
    IN [action |-> r.action, day |-> r.day, quantity |-> quantity, gross |-> gross,
        ambiguous_quantity |-> Blank, from |-> at + 1]

Rescaled(t, factor) == [t EXCEPT !.quantity = @ * factor]

(* The price, gross over count, shows units of before the split. *)
PricedBeforeSplit(t) ==
    /\ t.action \in {"Sale", "Forced Quick Sell", "ESPP", "Vest"}
    /\ t.gross > PriceFloor * t.quantity
    /\ t.quantity # 0

InCurrentUnits(t) ==
    LET factor == split_multiplier(t.day) IN
    CASE AcquisitionsOnly /\ Disposal(t) -> Rescaled(t, factor)
      [] export.restatement = "UNRELIABLE" /\ t.action = "Gift" /\ factor # 1
            /\ t.quantity # 0 ->
            [t EXCEPT !.ambiguous_quantity = t.quantity * factor]
      [] export.restatement = "UNRELIABLE" /\ PricedBeforeSplit(t) -> Rescaled(t, factor)
      [] OTHER -> t

AcquiredNothing(t) == t.action = "ESPP" /\ t.quantity = 0

Converting == stage = "convert" /\ at < Len(export.rows)

DiscardRow ==
    /\ Converting
    /\ EventRow.action \in DISCARDED_ACTIONS
    /\ at' = at + 1
    /\ UNCHANGED <<export, stage, awards, warned>>

ConvertRow ==
    /\ Converting
    /\ EventRow.action \notin DISCARDED_ACTIONS
    /\ Readable(EventRow)
    /\ LET t == InCurrentUnits(Stated(EventRow)) IN
        awards' = IF AcquiredNothing(t) THEN awards ELSE <<t>> \o awards
    /\ at' = at + 1
    /\ UNCHANGED <<export, stage, warned>>

RefuseAwardRow ==
    /\ Converting
    /\ EventRow.action \notin DISCARDED_ACTIONS
    /\ ~Readable(EventRow)
    /\ stage' = "refused"
    /\ UNCHANGED <<export, at, awards, warned>>

-----------------------------------------------------------------------------
(* A disposal that looks converted twice, by the price of its nearest vest *)

Vests == {i \in DOMAIN awards : awards[i].action \in {"Vest", "ESPP"}}

DaysBetween(i, j) ==
    LET gap == awards[i].day - awards[j].day
    IN IF gap < 0 THEN -gap ELSE gap

(* The first of the nearest, in the order of the file: newest first. *)
Nearest_AnyVest(i) == Max(Vests)

Nearest(i) ==
    Max({v \in Vests : \A w \in Vests : DaysBetween(v, i) <= DaysBetween(w, i)})

(* ratio * ratio * multiplier < 1, with the prices multiplied out. *)
LooksRestated(i) ==
    LET t == awards[i]
        v == awards[Nearest(i)]
        sold == t.gross * v.quantity
        vested == v.gross * t.quantity
    IN sold * sold * split_multiplier(t.day) < vested * vested

CheckDisposalUnits ==
    /\ stage = "convert" /\ at = Len(export.rows)
    /\ warned' = {awards[i].from : i \in {i \in DOMAIN awards :
            /\ AcquisitionsOnly
            /\ awards[i].action \in {"Sale", "Forced Quick Sell"}
            /\ Vests # {}
            /\ split_multiplier(awards[i].day) # 1
            /\ LooksRestated(i)}}
    /\ stage' = "done"
    /\ UNCHANGED <<export, at, awards>>

-----------------------------------------------------------------------------

AwardInit ==
    /\ export \in Exports
    /\ stage = "lapses"
    /\ at = 0
    /\ awards = <<>>
    /\ warned = {}

AwardNext ==
    \/ CheckLapse \/ RefuseLapse \/ StartConverting
    \/ DiscardRow \/ ConvertRow \/ RefuseAwardRow
    \/ CheckDisposalUnits

AwardSpec == AwardInit /\ [][AwardNext]_awardVars
=============================================================================
