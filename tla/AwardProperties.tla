--------------------------- MODULE AwardProperties ---------------------------
(***************************************************************************)
(* What an equity awards export has to come to.  An export also says what  *)
(* the parser cannot see: "actual", the splits that really happened, and   *)
(* for each row "truth", the count that really changed hands in today's    *)
(* shares, "money", its value, and "twice", whether Schwab restated a row  *)
(* of a kind it leaves alone.                                              *)
(***************************************************************************)
EXTENDS EquityAwards

OnOneSideOfEverySplit(a, b) ==
    \A s \in export.table \cup export.actual : (a < s.effective) = (b < s.effective)

(* A lapse that states both units on the same side of every split. *)
Witnessed(day) ==
    \E i \in DOMAIN export.rows :
        LET r == export.rows[i] IN
        /\ r.action = "Lapse"
        /\ Blank \notin {r.deposited, r.withheld}
        /\ OnOneSideOfEverySplit(r.day, day)

TableHolds(day) ==
    \/ export.table = export.actual
    \/ export.restatement = "ACQUISITIONS_ONLY" /\ Witnessed(day)

(* An accepted export states every count in the units of today: the shares    *)
(* that really changed hands, whatever the row printed, wherever the split    *)
(* table is right or a lapse in the same stretch could have shown it wrong;   *)
(* a gift of unknown units offers the true count among its two readings, and  *)
(* only a purchase wholly taken for tax leaves nothing.                       *)
(* _check_lapse_units, _recovered_sale_quantity, _espp_net_shares and the     *)
(* conversions by date and by price all have to agree for it.                 *)
UnitsAreCurrent ==
    stage = "done" =>
        \A i \in DOMAIN export.rows :
            LET r == export.rows[i]
                read == {awards[k] : k \in {k \in DOMAIN awards : awards[k].from = i}}
            IN r.action \notin DISCARDED_ACTIONS /\ TableHolds(r.day) /\ ~r.twice =>
                IF r.action = "ESPP" /\ r.truth = 0 THEN read = {}
                ELSE \E t \in read : r.truth \in {t.quantity, t.ambiguous_quantity}

(* The prices of two rows as they really were, money over truth. *)
Steady(i, j) ==
    LET r == export.rows[awards[i].from]
        s == export.rows[awards[j].from]
        p == r.money * s.truth
        q == s.money * r.truth
        m == split_multiplier(awards[i].day)
    IN p * p * m >= q * q /\ q * q * m > p * p

(* Schwab leaves disposals in their own units; where it did not, the parser   *)
(* converts the row twice and must say so.  As long as the price moved less   *)
(* than the square root of the split between a disposal and the vest nearest  *)
(* to it, exactly the disposals converted twice are warned about              *)
(* (_check_disposal_units).                                                   *)
RestatedDisposalWarned ==
    stage = "done" /\ AcquisitionsOnly /\ export.table = export.actual /\ Vests # {} =>
        \A i \in DOMAIN awards :
            /\ awards[i].action \in {"Sale", "Forced Quick Sell"}
            /\ split_multiplier(awards[i].day) # 1
            /\ \A v \in Vests : (\A w \in Vests : DaysBetween(v, i) <= DaysBetween(w, i))
                                => Steady(i, v)
            => (awards[i].from \in warned <=> export.rows[awards[i].from].twice)
=============================================================================
