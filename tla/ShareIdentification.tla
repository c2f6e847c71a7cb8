------------------------- MODULE ShareIdentification -------------------------
(***************************************************************************)
(* What the matching walk promises about units, whatever they cost: the    *)
(* order of identification for one holding with no reorganisation.         *)
(* Disposals are taken in the order they are made.  Each is identified     *)
(* with purchases of its own day, then with the purchases of the following *)
(* days, nearest first, that their own day's disposals and earlier         *)
(* disposals leave over, and with the pool only when none of those has a   *)
(* unit left.  A calculation may be refused at any point, and run again.   *)
(***************************************************************************)
EXTENDS History

CONSTANT Histories

VARIABLES
  history,  \* the day records being identified
  day,      \* the day whose disposals are being identified
  due,      \* the day's disposals not begun yet
  left,     \* units of the disposal begun that are not identified yet
  own,      \* units of each day's purchases its own disposals are identified with
  claims,   \* units of each day's purchases earlier disposals are identified with
  refused   \* the calculation was given up

statute == <<history, day, due, left, own, claims, refused>>

DueOn(d) ==
  {kind \in {"sale", "transfer"} :
     IF kind = "sale" THEN history[d].disposed.quantity > 0
     ELSE history[d].transferred > 0}

UnitsOf(kind) ==
  IF kind = "sale" THEN history[day].disposed.quantity
  ELSE history[day].transferred

\* The acquisition days a disposal of today may be identified with.
Reach == {d \in Day : d >= day /\ d <= day + BED_AND_BREAKFAST_DAYS}

\* Units of d's purchases a disposal of today may still be identified with.
Spare(d) ==
  LET kept == IF d = day THEN own[d] ELSE SameDayClaims(history[d])
      over == history[d].purchased.quantity - kept - claims[d]
  IN  IF over > 0 THEN over ELSE 0

Init ==
  /\ history \in Histories
  /\ day = 1
  /\ due = DueOn(1)
  /\ left = 0
  /\ own = [d \in Day |-> 0]
  /\ claims = [d \in Day |-> 0]
  /\ refused = FALSE

Begin(kind) ==
  /\ ~refused
  /\ left = 0
  /\ kind \in due
  /\ kind = "transfer" => "sale" \notin due
  /\ due' = due \ {kind}
  /\ left' = UnitsOf(kind)
  /\ UNCHANGED <<history, day, own, claims, refused>>

IdentifyWith(d) ==
  LET units == IF left < Spare(d) THEN left ELSE Spare(d)
  IN  /\ ~refused
      /\ units > 0
      /\ \A e \in Reach : e < d => Spare(e) = 0
      /\ left' = left - units
      /\ own' = IF d = day THEN [own EXCEPT ![d] = @ + units] ELSE own
      /\ claims' = IF d = day THEN claims ELSE [claims EXCEPT ![d] = @ + units]
      /\ UNCHANGED <<history, day, due, refused>>

IdentifyWithPool ==
  /\ ~refused
  /\ left > 0
  /\ \A d \in Reach : Spare(d) = 0
  /\ left' = 0
  /\ UNCHANGED <<history, day, due, own, claims, refused>>

NextDay ==
  /\ ~refused
  /\ left = 0
  /\ due = {}
  /\ day < TaxYearEnd
  /\ day' = day + 1
  /\ due' = DueOn(day + 1)
  /\ UNCHANGED <<history, left, own, claims, refused>>

Refuse ==
  /\ ~refused
  /\ refused' = TRUE
  /\ left' = 0
  /\ due' = {}
  /\ UNCHANGED <<history, day, own, claims>>

Again ==
  /\ ~refused
  /\ left = 0
  /\ due = {}
  /\ day = TaxYearEnd
  /\ day' = 1
  /\ due' = DueOn(1)
  /\ own' = [d \in Day |-> 0]
  /\ claims' = [d \in Day |-> 0]
  /\ UNCHANGED <<history, left, refused>>

Next ==
  \/ \E kind \in {"sale", "transfer"} : Begin(kind)
  \/ \E d \in Reach : IdentifyWith(d)
  \/ IdentifyWithPool
  \/ NextDay
  \/ Refuse
  \/ Again

Spec == Init /\ [][Next]_statute
=============================================================================
