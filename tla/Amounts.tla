------------------------------- MODULE Amounts -------------------------------
(***************************************************************************)
(* The decimal arithmetic the calculator keeps its figures in.             *)
(*                                                                         *)
(* Money is an integer number of fine units.  The ten-decimal grid of      *)
(* normalize_amount is GRID fine units apart, so an amount that is not a   *)
(* multiple of GRID stands for one that does not sit on the grid, as a     *)
(* conversion out of a foreign currency leaves it.  A penny is PENNY fine  *)
(* units.  Counts of shares are integers too: multiples of the smallest    *)
(* count the calculator keeps.                                             *)
(***************************************************************************)
EXTENDS Integers

CONSTANTS
  GRID,   \* fine units between two neighbouring ten-decimal amounts
  PENNY   \* fine units in a penny

ASSUME AmountsAssumption ==
  /\ GRID \in Nat \ {0}
  /\ PENNY \in Nat \ {0}

(***************************************************************************)
(* The integer nearest to n / d, a tie going away from zero, which is what *)
(* decimal's ROUND_HALF_UP does.                                           *)
(***************************************************************************)
RoundHalfUp(n, d) ==
  IF n >= 0 THEN (2 * n + d) \div (2 * d) ELSE -((d - 2 * n) \div (2 * d))

\* n / d rounded to the ten-decimal grid.
normalize_amount(n, d) == GRID * RoundHalfUp(n, d * GRID)

\* An amount rounded to the penny, as a disposal's gain is reported.
round_pennies(amount) == PENNY * RoundHalfUp(amount, PENNY)

(***************************************************************************)
(* What `units` of an acquisition of `quantity` for `amount` cost: the     *)
(* whole costs all of it exactly, and no part costs more than the whole.   *)
(***************************************************************************)
ShareOfCost(units, quantity, amount) ==
  LET share == normalize_amount(units * amount, quantity)
  IN  IF units = quantity \/ share > amount THEN amount ELSE share

\* A Section 104 pool: a count and its cost, normalised by every addition.
Position == [quantity : Int, amount : Int]
NoPosition == [quantity |-> 0, amount |-> 0]
AddToPosition(position, quantity, amount) ==
  [quantity |-> position.quantity + quantity,
   amount   |-> normalize_amount(position.amount + amount, 1)]

(***************************************************************************)
(* Counts across a reorganisation of `ratio`, new units for old ones.      *)
(***************************************************************************)
Ratio == [num : Nat \ {0}, den : Nat \ {0}]
Unscaled == [num |-> 1, den |-> 1]
scale_quantity(quantity, ratio) == RoundHalfUp(quantity * ratio.num, ratio.den)
unscale_quantity(quantity, ratio) == RoundHalfUp(quantity * ratio.den, ratio.num)
ComposeRatios(first, second) ==
  [num |-> first.num * second.num, den |-> first.den * second.den]
=============================================================================
