---------------------------- MODULE SchwabProofs -----------------------------
(***************************************************************************)
(* Proofs about the loading of a Schwab account, for every account the     *)
(* export may hold and however it is cut into files: its rows keep their   *)
(* order, cancelled purchases leave in pairs with their cancellations,     *)
(* outcomes take from the grants of their own series, first in first out   *)
(* and each contract once, and every assignment is settled by the only     *)
(* stock row that could have settled it.                                   *)
(***************************************************************************)
EXTENDS SchwabProperties, Induction, SequenceTheorems

-----------------------------------------------------------------------------
(***************************************************************************)
(* The rows.  All but the vests keep the date they were posted with.       *)
(***************************************************************************)
DatedRow == {r \in Row : r.label # "Stock Plan Activity" => r.day = r.posted}

\* Over a nonempty finite set an integer function is greatest and least somewhere.
LEMMA ExtremesExist ==
  ASSUME NEW S, IsFiniteSet(S), S # {}, NEW f, \A x \in S : f[x] \in Int
  PROVE  /\ \E x \in S : \A y \in S : f[x] >= f[y]
         /\ \E x \in S : \A y \in S : f[x] <= f[y]
<1> DEFINE Bounded == {s \in SUBSET S : s = {} \/
               /\ \E x \in s : \A y \in s : f[x] >= f[y]
               /\ \E x \in s : \A y \in s : f[x] <= f[y]}
<1>1. {} \in Bounded
  OBVIOUS
<1>2. ASSUME NEW s \in SUBSET S, s # {}, \A x \in s : s \ {x} \in Bounded
      PROVE  s \in Bounded
  <2>1. PICK x \in s : TRUE
    BY <1>2
  <2>2. \A y \in s : f[y] \in Int
    OBVIOUS
  <2>3. CASE s \ {x} = {}
    <3>1. s = {x}
      BY <2>1, <2>3
    <3> QED
      BY <2>2, <3>1
  <2>4. CASE s \ {x} # {}
    <3>1. s \ {x} \in Bounded
      BY <1>2
    <3>2. PICK high \in s \ {x} : \A y \in s \ {x} : f[high] >= f[y]
      BY <2>4, <3>1
    <3>3. PICK low \in s \ {x} : \A y \in s \ {x} : f[low] <= f[y]
      BY <2>4, <3>1
    <3>4. \E z \in s : \A y \in s : f[z] >= f[y]
      <4>1. CASE f[x] >= f[high]
        <5>1. \A y \in s : f[x] >= f[y]
          BY <2>2, <3>2, <4>1
        <5> QED
          BY <5>1
      <4>2. CASE ~(f[x] >= f[high])
        <5>1. \A y \in s : f[high] >= f[y]
          BY <2>2, <3>2, <4>2
        <5> QED
          BY <5>1
      <4> QED
        BY <4>1, <4>2
    <3>5. \E z \in s : \A y \in s : f[z] <= f[y]
      <4>1. CASE f[x] <= f[low]
        <5>1. \A y \in s : f[x] <= f[y]
          BY <2>2, <3>3, <4>1
        <5> QED
          BY <5>1
      <4>2. CASE ~(f[x] <= f[low])
        <5>1. \A y \in s : f[low] <= f[y]
          BY <2>2, <3>3, <4>2
        <5> QED
          BY <5>1
      <4> QED
        BY <4>1, <4>2
    <3> QED
      BY <3>4, <3>5
  <2> QED
    BY <2>3, <2>4
<1> HIDE DEF Bounded
<1>3. \A s \in SUBSET S : s \in Bounded
  BY <1>1, <1>2, SubsetsBySteps
<1> QED
  BY <1>3 DEF Bounded

\* Max and Min choose what they are named for.
LEMMA MaxMin ==
  ASSUME NEW T \in SUBSET Int, T # {}, IsFiniteSet(T)
  PROVE  /\ Max(T) \in T /\ \A t \in T : Max(T) >= t
         /\ Min(T) \in T /\ \A t \in T : Min(T) <= t
<1> DEFINE f == [t \in T |-> t]
<1>1. \A t \in T : f[t] = t /\ f[t] \in Int
  OBVIOUS
<1> HIDE DEF f
<1>2. /\ \E t \in T : \A u \in T : f[t] >= f[u]
      /\ \E t \in T : \A u \in T : f[t] <= f[u]
  BY <1>1, ExtremesExist
<1>3. /\ \E t \in T : \A u \in T : t >= u
      /\ \E t \in T : \A u \in T : t <= u
  BY <1>1, <1>2
<1> QED
  BY <1>3 DEF Max, Min

LEMMA IntervalMaxMin ==
  ASSUME NEW a \in Int, NEW b \in Int, NEW T \in SUBSET (a .. b), T # {}
  PROVE  /\ Max(T) \in T /\ \A t \in T : Max(T) >= t
         /\ Min(T) \in T /\ \A t \in T : Min(T) <= t
<1>1. IsFiniteSet(T)
  BY FS_Interval, FS_Subset
<1>2. T \in SUBSET Int
  OBVIOUS
<1> QED
  BY <1>1, <1>2, MaxMin

\* The oldest and newest posting of an export that has any row.
LEMMA OldestNewest ==
  ASSUME NEW list \in Seq(DatedRow), list # <<>>
  PROVE  /\ \A i \in DOMAIN list : Oldest(list) <= list[i].posted
         /\ \A i \in DOMAIN list : Newest(list) >= list[i].posted
         /\ \E i \in DOMAIN list : Oldest(list) = list[i].posted
         /\ \E i \in DOMAIN list : Newest(list) = list[i].posted
<1> DEFINE T == {list[i].posted : i \in DOMAIN list}
           f == [i \in DOMAIN list |-> list[i].posted]
<1>1. \A i \in DOMAIN list : list[i] \in DatedRow
  OBVIOUS
<1>2. \A r \in DatedRow : r.posted \in Int
  BY DEF DatedRow, Row
<1>3. DOMAIN list # {} /\ IsFiniteSet(DOMAIN list)
  <2> HIDE DEF T, f
  <2>1. DOMAIN list = 1 .. Len(list) /\ Len(list) \in Nat \ {0}
    <3>1. Len(list) \in Nat \ {0}
      BY EmptySeq
    <3> QED
      BY <3>1
  <2>2. IsFiniteSet(1 .. Len(list))
    BY <2>1, FS_Interval
  <2>3. 1 \in DOMAIN list
    BY <2>1
  <2>4. IsFiniteSet(DOMAIN list)
    BY <2>1, <2>2, Zenon
  <2> QED
    BY <2>3, <2>4, Zenon
<1>4. \A i \in DOMAIN list : f[i] = list[i].posted /\ f[i] \in Int
  BY <1>1, <1>2
<1> HIDE DEF f
<1>5. /\ \E i \in DOMAIN list : \A j \in DOMAIN list : f[i] >= f[j]
      /\ \E i \in DOMAIN list : \A j \in DOMAIN list : f[i] <= f[j]
  BY <1>3, <1>4, ExtremesExist
<1>10. /\ \A i \in DOMAIN list : f[i] \in T
       /\ \A t \in T : \E i \in DOMAIN list : t = f[i]
  BY <1>4
<1> HIDE DEF T
<1>11. /\ \E t \in T : \A u \in T : t >= u
       /\ \E t \in T : \A u \in T : t <= u
  BY <1>5, <1>10
<1>6. /\ Max(T) \in T /\ \A t \in T : Max(T) >= t
      /\ Min(T) \in T /\ \A t \in T : Min(T) <= t
  BY <1>11 DEF Max, Min
<1>7. Oldest(list) = Min(T) /\ Newest(list) = Max(T)
  BY DEF T, Oldest, Newest
<1>8. \A i \in DOMAIN list : list[i].posted \in T
  BY DEF T
<1>9. \A t \in T : \E i \in DOMAIN list : t = list[i].posted
  BY DEF T
<1> QED
  BY <1>6, <1>7, <1>8, <1>9

-----------------------------------------------------------------------------
(***************************************************************************)
(* Lists of rows, newest first.                                            *)
(***************************************************************************)
Posted(list) == {list[i].posted : i \in DOMAIN list}

Above(A, B) == \A a \in A, b \in B : a > b
Apart(A, B) == Above(A, B) \/ Above(B, A)

LEMMA PostedInt ==
  ASSUME NEW list \in Seq(DatedRow)
  PROVE  /\ Posted(list) \in SUBSET Int
         /\ \A i \in DOMAIN list : list[i].posted \in Posted(list)
<1>1. \A i \in DOMAIN list : list[i] \in DatedRow
  OBVIOUS
<1>2. \A r \in DatedRow : r.posted \in Int
  BY DEF DatedRow, Row
<1> QED
  BY <1>1, <1>2 DEF Posted

LEMMA EmptyList == NewestFirst(<<>>) /\ Posted(<<>>) = {}
BY DEF NewestFirst, Posted

LEMMA Relisted ==
  ASSUME NEW list \in Seq(DatedRow), NEW new \in Seq(DatedRow), Len(new) = Len(list),
         \A i \in 1 .. Len(list) : new[i].posted = list[i].posted
  PROVE  /\ NewestFirst(list) => NewestFirst(new)
         /\ Posted(new) = Posted(list)
<1>1. DOMAIN new = 1 .. Len(list) /\ DOMAIN list = 1 .. Len(list)
  OBVIOUS
<1>2. Posted(new) = Posted(list)
  BY <1>1 DEF Posted
<1> QED
  BY <1>1, <1>2 DEF NewestFirst

LEMMA Appended ==
  ASSUME NEW list \in Seq(DatedRow), NEW r \in DatedRow, NewestFirst(list),
         \A x \in Posted(list) : x >= r.posted
  PROVE  /\ Append(list, r) \in Seq(DatedRow)
         /\ NewestFirst(Append(list, r))
         /\ Posted(Append(list, r)) = Posted(list) \cup {r.posted}
<1> DEFINE longer == Append(list, r)
<1>1. /\ longer \in Seq(DatedRow)
      /\ DOMAIN longer = 1 .. (Len(list) + 1) /\ DOMAIN list = 1 .. Len(list)
      /\ Len(list) \in Nat
      /\ \A i \in 1 .. Len(list) : longer[i] = list[i]
      /\ longer[Len(list) + 1] = r
  OBVIOUS
<1> HIDE DEF longer
<1>2. NewestFirst(longer)
  <2> SUFFICES ASSUME NEW i \in DOMAIN longer, NEW j \in DOMAIN longer, i < j
               PROVE  longer[i].posted >= longer[j].posted
    BY DEF NewestFirst
  <2>1. i \in 1 .. Len(list) /\ longer[i] = list[i]
    BY <1>1
  <2>2. CASE j = Len(list) + 1
    BY <1>1, <2>1, <2>2, PostedInt
  <2>3. CASE j # Len(list) + 1
    <3>1. j \in 1 .. Len(list) /\ longer[j] = list[j]
      BY <1>1, <2>3
    <3> QED
      BY <1>1, <2>1, <3>1 DEF NewestFirst
  <2> QED
    BY <2>2, <2>3
<1>3. Posted(longer) = Posted(list) \cup {r.posted}
  <2>1. DOMAIN longer = DOMAIN list \cup {Len(list) + 1}
    BY <1>1
  <2> QED
    BY <1>1, <2>1 DEF Posted
<1> QED
  BY <1>1, <1>2, <1>3 DEF longer

LEMMA HeadAndTail ==
  ASSUME NEW list \in Seq(DatedRow), list # <<>>, NewestFirst(list)
  PROVE  /\ Tail(list) \in Seq(DatedRow)
         /\ NewestFirst(Tail(list))
         /\ Posted(Tail(list)) \subseteq Posted(list)
         /\ Head(list) \in DatedRow
         /\ Head(list).posted \in Posted(list)
         /\ \A x \in Posted(Tail(list)) : Head(list).posted >= x
<1> DEFINE rest == Tail(list)
<1>1. /\ Len(list) \in Nat /\ Len(list) > 0 /\ DOMAIN list = 1 .. Len(list)
      /\ Head(list) = list[1] /\ Head(list) \in DatedRow
  BY EmptySeq
<1>2. /\ rest \in Seq(DatedRow) /\ DOMAIN rest = 1 .. (Len(list) - 1)
      /\ \A i \in DOMAIN rest : rest[i] = list[i + 1]
  BY HeadTailProperties
<1> HIDE DEF rest
<1>3. \A i \in DOMAIN rest : i + 1 \in DOMAIN list
  BY <1>1, <1>2
<1>4. NewestFirst(rest)
  BY <1>1, <1>2, <1>3 DEF NewestFirst
<1>5. Posted(rest) \subseteq Posted(list)
  BY <1>2, <1>3 DEF Posted
<1>6. 1 \in DOMAIN list /\ Head(list).posted \in Posted(list)
  BY <1>1 DEF Posted
<1>7. \A i \in DOMAIN rest : list[1].posted >= rest[i].posted
  <2> TAKE i \in DOMAIN rest
  <2>1. i + 1 \in DOMAIN list /\ 1 < i + 1
    BY <1>2, <1>3
  <2> QED
    BY <1>2, <1>6, <2>1 DEF NewestFirst
<1>8. \A x \in Posted(rest) : Head(list).posted >= x
  BY <1>1, <1>7 DEF Posted
<1> QED
  BY <1>1, <1>2, <1>4, <1>5, <1>6, <1>8 DEF rest

LEMMA Joining ==
  ASSUME NEW above \in Seq(DatedRow), NEW below \in Seq(DatedRow),
         NewestFirst(above), NewestFirst(below),
         \A x \in Posted(above), y \in Posted(below) : x >= y
  PROVE  /\ above \o below \in Seq(DatedRow)
         /\ NewestFirst(above \o below)
         /\ Posted(above \o below) = Posted(above) \cup Posted(below)
<1> DEFINE both == above \o below
<1>1. /\ both \in Seq(DatedRow) /\ DOMAIN both = 1 .. (Len(above) + Len(below))
      /\ Len(above) \in Nat /\ Len(below) \in Nat
      /\ DOMAIN above = 1 .. Len(above) /\ DOMAIN below = 1 .. Len(below)
      /\ \A i \in DOMAIN both :
            both[i] = IF i <= Len(above) THEN above[i] ELSE below[i - Len(above)]
  BY ConcatProperties
<1> HIDE DEF both
<1>2. \A i \in DOMAIN both :
        IF i <= Len(above) THEN i \in DOMAIN above /\ both[i] = above[i]
        ELSE i - Len(above) \in DOMAIN below /\ both[i] = below[i - Len(above)]
  BY <1>1
<1>3. NewestFirst(both)
  <2> SUFFICES ASSUME NEW i \in DOMAIN both, NEW j \in DOMAIN both, i < j
               PROVE  both[i].posted >= both[j].posted
    BY DEF NewestFirst
  <2>1. CASE j <= Len(above)
    BY <1>1, <1>2, <2>1 DEF NewestFirst
  <2>2. CASE i <= Len(above) /\ ~(j <= Len(above))
    <3>1. both[i].posted \in Posted(above) /\ both[j].posted \in Posted(below)
      BY <1>2, <2>2, PostedInt
    <3> QED
      BY <3>1
  <2>3. CASE ~(i <= Len(above))
    <3>1. ~(j <= Len(above)) /\ i - Len(above) < j - Len(above)
      BY <1>1, <2>3
    <3> QED
      BY <1>2, <2>3, <3>1 DEF NewestFirst
  <2> QED
    BY <2>1, <2>2, <2>3
<1>4. Posted(both) = Posted(above) \cup Posted(below)
  <2>1. Posted(both) \subseteq Posted(above) \cup Posted(below)
    BY <1>2 DEF Posted
  <2>2. ASSUME NEW i \in DOMAIN above PROVE above[i].posted \in Posted(both)
    <3>1. i \in DOMAIN both /\ both[i] = above[i]
      BY <1>1
    <3> QED
      BY <3>1 DEF Posted
  <2>3. ASSUME NEW i \in DOMAIN below PROVE below[i].posted \in Posted(both)
    <3>1. i + Len(above) \in DOMAIN both /\ ~(i + Len(above) <= Len(above))
      BY <1>1
    <3>2. (i + Len(above)) - Len(above) = i
      BY <1>1
    <3>3. both[i + Len(above)] = below[i]
      BY <1>1, <3>1, <3>2
    <3> QED
      BY <3>1, <3>3 DEF Posted
  <2> QED
    BY <2>1, <2>2, <2>3 DEF Posted
<1> QED
  BY <1>1, <1>3, <1>4 DEF both

LEMMA Cutting ==
  ASSUME NEW list \in Seq(DatedRow), NewestFirst(list),
         NEW m \in 1 .. Len(list) + 1, NEW n \in 0 .. Len(list)
  PROVE  /\ SubSeq(list, m, n) \in Seq(DatedRow)
         /\ NewestFirst(SubSeq(list, m, n))
         /\ m <= n => SubSeq(list, m, n) # <<>>
<1> DEFINE part == SubSeq(list, m, n)
<1>1. \A i \in m .. n : list[i] \in DatedRow
  OBVIOUS
<1>2. /\ part \in Seq(DatedRow)
      /\ Len(part) = IF m <= n THEN n - m + 1 ELSE 0
      /\ \A i \in 1 .. n - m + 1 : part[i] = list[m + i - 1]
  BY <1>1, SubSeqProperties
<1> HIDE DEF part
<1>3. DOMAIN part = 1 .. Len(part)
  BY <1>2
<1>4. \A i \in DOMAIN part : part[i] = list[m + i - 1] /\ m + i - 1 \in DOMAIN list
  BY <1>2, <1>3
<1>5. NewestFirst(part)
  <2> SUFFICES ASSUME NEW i \in DOMAIN part, NEW j \in DOMAIN part, i < j
               PROVE  part[i].posted >= part[j].posted
    BY DEF NewestFirst
  <2>1. /\ i \in Int /\ j \in Int
        /\ m + i - 1 \in DOMAIN list /\ m + j - 1 \in DOMAIN list
        /\ part[i] = list[m + i - 1] /\ part[j] = list[m + j - 1]
    BY <1>3, <1>4
  <2>2. m + i - 1 < m + j - 1
    BY <2>1
  <2> QED
    BY <2>1, <2>2 DEF NewestFirst
<1>6. m <= n => part # <<>>
  <2>1. m <= n => Len(part) # 0
    BY <1>2
  <2> QED
    BY <2>1, EmptySeq
<1> QED
  BY <1>2, <1>5, <1>6 DEF part

-----------------------------------------------------------------------------
(***************************************************************************)
(* What reading, joining and cutting do to rows.                           *)
(***************************************************************************)
LEMMA CreatedRow ==
  ASSUME awards_prices.award_prices \in SUBSET Int, NEW r \in DatedRow, Readable(r)
  PROVE  Created(r) \in DatedRow /\ Created(r).posted = r.posted
<1> DEFINE day == Max(AwardDays(r))
<1>1. r \in Row /\ r.posted \in Int
  BY DEF DatedRow, Row
<1>2. CASE NeedsAward(r)
  <2>1. day \in Int
    <3>1. AwardSearchDays \in Nat
      BY ExportAssumption
    <3>2. r.posted - AwardSearchDays \in Int
      BY <1>1, <3>1
    <3>3. AwardDays(r) # {}
      BY <1>2 DEF Readable
    <3>4. AwardDays(r) \in SUBSET ((r.posted - AwardSearchDays) .. r.posted)
      BY DEF AwardDays
    <3>5. Max(AwardDays(r)) \in AwardDays(r)
      BY <1>1, <3>2, <3>3, <3>4, IntervalMaxMin
    <3> QED
      BY <1>1, <3>2, <3>4, <3>5
  <2> HIDE DEF day
  <2>2. Created(r) = [r EXCEPT !.day = day, !.price = day]
    BY <1>2 DEF Created, day
  <2>3. /\ [r EXCEPT !.day = day, !.price = day] \in Row
        /\ [r EXCEPT !.day = day, !.price = day].posted = r.posted
        /\ [r EXCEPT !.day = day, !.price = day].label = r.label
    BY <1>1, <2>1 DEF Row
  <2>4. r.label = "Stock Plan Activity"
    BY <1>2 DEF NeedsAward
  <2> QED
    BY <2>2, <2>3, <2>4 DEF DatedRow
<1>3. CASE ~NeedsAward(r)
  BY <1>3 DEF Created
<1> QED
  BY <1>2, <1>3

LEMMA JoinedRow ==
  ASSUME NEW main \in DatedRow, NEW proceeds \in DatedRow, NEW shares \in DatedRow,
         JoinsWith(proceeds, shares)
  PROVE  /\ Joined(main, proceeds, shares) \in DatedRow
         /\ Joined(main, proceeds, shares).posted = main.posted
<1>1. proceeds.amount \in Int /\ shares.quantity \in Int /\ shares.quantity < 0
  BY DEF JoinsWith, DatedRow, Row
<1>2. -shares.quantity \in Nat \ {0}
  BY <1>1
<1> DEFINE price == proceeds.amount \div (-shares.quantity)
           quantity == -shares.quantity
           amount == proceeds.amount
<1>3. price \in Int /\ quantity \in Int /\ amount \in Int
  BY <1>1, <1>2
<1>4. Joined(main, proceeds, shares)
        = [main EXCEPT !.quantity = quantity, !.amount = amount, !.price = price]
  BY DEF Joined
<1> HIDE DEF price, quantity, amount
<1>5. main \in Row
  BY DEF DatedRow
<1> DEFINE new == [main EXCEPT !.quantity = quantity, !.amount = amount, !.price = price]
<1>6. /\ new \in Row /\ new.posted = main.posted /\ new.day = main.day
      /\ new.label = main.label
  BY <1>3, <1>5 DEF Row
<1> HIDE DEF new
<1>7. Joined(main, proceeds, shares) = new
  BY <1>4 DEF new
<1> QED
  BY <1>6, <1>7 DEF DatedRow

LEMMA ExportedRows ==
  ASSUME NEW list \in Accounts
  PROVE  list \in Seq(DatedRow) /\ NewestFirst(list)
<1>1. /\ list \in Seq(Row) /\ NewestFirst(list)
      /\ \A i \in DOMAIN list : list[i].day = list[i].posted
  BY ExportAssumption
<1>2. \A i \in 1 .. Len(list) : list[i] \in DatedRow
  <2> TAKE i \in 1 .. Len(list)
  <2>1. i \in DOMAIN list /\ list[i] \in Row
    BY <1>1
  <2>2. list[i].day = list[i].posted
    BY <1>1, <2>1
  <2> QED
    BY <2>1, <2>2 DEF DatedRow
<1>3. Len(list) \in Nat /\ list = [i \in 1 .. Len(list) |-> list[i]]
  BY <1>1
<1> QED
  BY <1>1, <1>2, <1>3

LEMMA CreatedRows ==
  ASSUME awards_prices.award_prices \in SUBSET Int, NEW list \in Seq(DatedRow),
         \A i \in DOMAIN list : Readable(list[i])
  PROVE  /\ [i \in DOMAIN list |-> Created(list[i])] \in Seq(DatedRow)
         /\ NewestFirst(list) => NewestFirst([i \in DOMAIN list |-> Created(list[i])])
         /\ Len([i \in DOMAIN list |-> Created(list[i])]) = Len(list)
<1> DEFINE new == [i \in DOMAIN list |-> Created(list[i])]
<1>1. DOMAIN list = 1 .. Len(list) /\ Len(list) \in Nat
  OBVIOUS
<1>2. \A i \in 1 .. Len(list) : /\ new[i] \in DatedRow
                                 /\ new[i].posted = list[i].posted
  <2> TAKE i \in 1 .. Len(list)
  <2>1. i \in DOMAIN list /\ list[i] \in DatedRow /\ Readable(list[i])
    BY <1>1
  <2>2. new[i] = Created(list[i])
    BY <2>1
  <2> HIDE DEF new
  <2> QED
    BY <2>1, <2>2, CreatedRow
<1>3. new = [i \in 1 .. Len(list) |-> new[i]]
  BY <1>1
<1> HIDE DEF new
<1>4. new \in Seq(DatedRow) /\ Len(new) = Len(list)
  BY <1>1, <1>2, <1>3
<1>5. NewestFirst(list) => NewestFirst(new)
  BY <1>2, <1>4, Relisted
<1> QED
  BY <1>4, <1>5 DEF new

\* The merged half of a merger takes the place of the last row.
LEMMA LastReplaced ==
  ASSUME NEW list \in Seq(DatedRow), list # <<>>, NEW r \in DatedRow,
         r.posted = Last(list).posted
  PROVE  /\ Append(Front(list), r) \in Seq(DatedRow)
         /\ NewestFirst(list) => NewestFirst(Append(Front(list), r))
         /\ Posted(Append(Front(list), r)) = Posted(list)
<1> DEFINE front == Front(list)
           new == Append(front, r)
<1>1. Len(list) \in Nat \ {0}
  BY EmptySeq
<1>2. \A i \in 1 .. (Len(list) - 1) : list[i] \in DatedRow
  BY <1>1
<1>3. /\ front \in Seq(DatedRow) /\ Len(front) = Len(list) - 1
      /\ \A i \in 1 .. (Len(list) - 1) : front[i] = list[i]
  <2>1. /\ SubSeq(list, 1, Len(list) - 1) \in Seq(DatedRow)
        /\ Len(SubSeq(list, 1, Len(list) - 1))
             = IF 1 <= Len(list) - 1 THEN (Len(list) - 1) - 1 + 1 ELSE 0
        /\ \A i \in 1 .. (Len(list) - 1) - 1 + 1 :
               SubSeq(list, 1, Len(list) - 1)[i] = list[1 + i - 1]
    BY <1>1, <1>2, SubSeqProperties
  <2>2. front = SubSeq(list, 1, Len(list) - 1)
    BY DEF Front
  <2> HIDE DEF front
  <2>3. (Len(list) - 1) - 1 + 1 = Len(list) - 1
    BY <1>1
  <2>4. \A i \in 1 .. (Len(list) - 1) : 1 + i - 1 = i
    BY <1>1
  <2> QED
    BY <1>1, <2>1, <2>2, <2>3, <2>4
<1> HIDE DEF front
<1>4. /\ new \in Seq(DatedRow) /\ Len(new) = Len(list)
      /\ \A i \in 1 .. (Len(list) - 1) : new[i] = list[i]
      /\ new[Len(list)] = r
  BY <1>1, <1>3
<1> HIDE DEF new
<1>5. \A i \in 1 .. Len(list) : new[i].posted = list[i].posted
  <2> TAKE i \in 1 .. Len(list)
  <2>1. CASE i = Len(list)
    BY <1>4, <2>1 DEF Last
  <2>2. CASE i # Len(list)
    <3>1. i \in 1 .. (Len(list) - 1)
      BY <1>1, <2>2
    <3> QED
      BY <1>4, <3>1
  <2> QED
    BY <2>1, <2>2
<1> QED
  BY <1>4, <1>5, Relisted DEF new, front

-----------------------------------------------------------------------------
(***************************************************************************)
(* Types and order, through reading, joining and merging.                  *)
(***************************************************************************)
TypeInv ==
  /\ account \in Accounts
  /\ awards_prices.award_prices \in SUBSET Int
  /\ award_file \in AwardFile
  /\ files \in Seq(Seq(DatedRow)) /\ files # <<>>
  /\ file \in Nat
  /\ phase = "read" => file # 0
  /\ phase = "unify" => file \in DOMAIN files
  /\ rows \in Seq(DatedRow)
  /\ filtered \in Seq(DatedRow)
  /\ transactions \in Seq(DatedRow)
  /\ cancel_idx \in Nat
  /\ phase = "cancel" => cancel_idx # 0
  /\ consumed \in SUBSET Nat

\* The days of the rows an export has, in whichever state of joining it is.
DaysOf(f) ==
  IF phase = "unify" /\ f = file THEN Posted(filtered) \cup Posted(rows)
  ELSE Posted(files[f])

OrderInv ==
  /\ \A f \in DOMAIN files : NewestFirst(files[f])
  /\ NewestFirst(filtered) /\ NewestFirst(rows)
  /\ \A x \in Posted(filtered), y \in Posted(rows) : x >= y
  /\ phase \in {"award", "read"} =>
        \A f, g \in DOMAIN files : f # g => files[f] # <<>>
  /\ phase \in {"unify", "merge"} =>
        \A f, g \in DOMAIN files : f # g => Apart(DaysOf(f), DaysOf(g))
  /\ phase \in {"award", "read", "unify"} => transactions = <<>>
  /\ phase = "merge" =>
        \A f \in DOMAIN files : Above(Posted(transactions), Posted(files[f]))
  /\ phase \in {"merge", "cancel"} => NewestFirst(transactions)

LEMMA AwardFileOf ==
  ASSUME NEW list \in Accounts
  PROVE  AwardFiles(list) \subseteq AwardFile
BY ExportAssumption

LEMMA InitTyped == Init => TypeInv /\ OrderInv
<1> SUFFICES ASSUME Init
             PROVE  TypeInv /\ OrderInv
  OBVIOUS
<1> USE DEF Init
<1>1. account \in Seq(DatedRow) /\ NewestFirst(account)
  BY ExportedRows
<1>2. <<>> \in Seq(DatedRow)
  OBVIOUS
<1>3. TypeInv
  <2>1. awards_prices.award_prices \in SUBSET Int
    BY DEF NoPrices
  <2>2. award_file \in AwardFile
    BY AwardFileOf
  <2>3. files \in Seq(Seq(DatedRow)) /\ files # <<>>
    BY <1>1
  <2> QED
    BY <1>2, <2>1, <2>2, <2>3 DEF TypeInv
<1>4. OrderInv
  <2>1. DOMAIN files = {1} /\ files[1] = account
    OBVIOUS
  <2> QED
    BY <1>1, <2>1, EmptyList DEF OrderInv
<1> QED
  BY <1>3, <1>4

\* The reconciliation reads the account and leaves it as it is.
LEMMA ReconcileKeepsRows ==
  ReconcileWrittenOptions =>
    /\ transactions' = transactions
    /\ phase \in {"scan", "allocate", "settle"}
    /\ phase' \in {"scan", "allocate", "settle", "done", "refused"}
BY DEF ReconcileWrittenOptions, optionVars, PassRow, RefuseOptionRow, OpenLot, StartOutcome,
       PassLot, TakeFromLot, RefuseUncovered, RecordClose, RecordExpiry,
       RecordAssignment, RefuseSecondAssignment, EndScan, SettleAssignment,
       RefuseSettlement, EmitOptionTransactions, EndOutcome, RefuseScan, Scanning,
       Allocating, Allocated, Settling

-----------------------------------------------------------------------------
(***************************************************************************)
(* What is left after the cancellations, oldest first.  Kept is a          *)
(* recursive function, followed row by row.                                *)
(***************************************************************************)
KeptStep(i, before) ==
  IF i = 0 THEN <<>>
  ELSE IF i \in consumed THEN before
  ELSE <<transactions[i]>> \o before

LEMMA KeptExists ==
  \A n \in Nat : \E kept : kept = [i \in 0 .. n |-> KeptStep(i, kept[i - 1])]
<1> DEFINE Builds(n, kept) == kept = [i \in 0 .. n |-> KeptStep(i, kept[i - 1])]
           Built == {n \in Nat : \E kept : Builds(n, kept)}
<1>1. 0 \in Built
  <2> DEFINE kept == [i \in 0 .. 0 |-> <<>>]
  <2>1. kept = [i \in 0 .. 0 |-> KeptStep(i, kept[i - 1])]
    BY DEF KeptStep
  <2> QED
    BY <2>1
<1>2. ASSUME NEW n \in Nat, n \in Built
      PROVE  n + 1 \in Built
  <2>1. PICK kept : Builds(n, kept)
    BY <1>2
  <2> DEFINE longer == [i \in 0 .. n + 1 |->
                          IF i <= n THEN kept[i] ELSE KeptStep(i, kept[n])]
  <2>2. ASSUME NEW i \in 0 .. n + 1
        PROVE  longer[i] = KeptStep(i, longer[i - 1])
    <3>1. CASE i = 0
      BY <2>1, <3>1 DEF KeptStep
    <3>2. CASE i # 0 /\ i <= n
      <4>1. i \in 0 .. n /\ i - 1 \in 0 .. n
        BY <3>2
      <4>2. longer[i] = kept[i] /\ longer[i - 1] = kept[i - 1]
        BY <4>1
      <4>3. kept[i] = KeptStep(i, kept[i - 1])
        BY <2>1, <4>1
      <4> QED
        BY <4>2, <4>3
    <3>3. CASE i = n + 1
      <4>1. i - 1 = n /\ n \in 0 .. n + 1 /\ ~(n + 1 <= n)
        BY <3>3
      <4>2. longer[i - 1] = kept[n]
        BY <4>1
      <4>3. longer[i] = KeptStep(i, kept[n])
        BY <3>3, <4>1
      <4> QED
        BY <4>2, <4>3
    <3> QED
      BY <3>1, <3>2, <3>3
  <2>3. longer = [i \in 0 .. n + 1 |-> longer[i]]
    OBVIOUS
  <2> HIDE DEF longer
  <2>4. longer = [i \in 0 .. n + 1 |-> KeptStep(i, longer[i - 1])]
    BY <2>2, <2>3
  <2> QED
    BY <2>4
<1> HIDE DEF Built
<1>3. \A n \in Nat : n \in Built
  BY <1>1, <1>2, NaturalsBySteps
<1> QED
  BY <1>3 DEF Built

OldestFirst(list) ==
  \A i, j \in DOMAIN list : i < j => list[i].posted <= list[j].posted

\* One row more, none newer than what is there, goes before it.
LEMMA Prepended ==
  ASSUME NEW list \in Seq(DatedRow), NEW r \in DatedRow, OldestFirst(list),
         \A x \in Posted(list) : r.posted <= x
  PROVE  /\ <<r>> \o list \in Seq(DatedRow)
         /\ OldestFirst(<<r>> \o list)
         /\ Posted(<<r>> \o list) = {r.posted} \cup Posted(list)
<1> DEFINE one == <<r>>
           both == one \o list
<1>1. one \in Seq(DatedRow) /\ Len(one) = 1 /\ one[1] = r
  OBVIOUS
<1> HIDE DEF one
<1>2. /\ both \in Seq(DatedRow) /\ Len(both) = 1 + Len(list) /\ Len(list) \in Nat
      /\ \A i \in 1 .. 1 + Len(list) : both[i] = IF i <= 1 THEN one[i] ELSE list[i - 1]
  <2>1. /\ one \o list \in Seq(DatedRow)
        /\ Len(one \o list) = Len(one) + Len(list)
        /\ \A i \in 1 .. Len(one) + Len(list) :
              (one \o list)[i] = IF i <= Len(one) THEN one[i] ELSE list[i - Len(one)]
    BY <1>1, ConcatProperties
  <2>2. Len(list) \in Nat
    OBVIOUS
  <2> HIDE DEF both
  <2>3. both = one \o list
    BY DEF both
  <2> QED
    BY <1>1, <2>1, <2>2, <2>3
<1> HIDE DEF both
<1>3. DOMAIN both = 1 .. 1 + Len(list) /\ DOMAIN list = 1 .. Len(list)
  BY <1>2
<1>4. both[1] = r /\ 1 \in DOMAIN both
  BY <1>1, <1>2, <1>3
<1>5. \A i \in DOMAIN both : i # 1 => i - 1 \in DOMAIN list /\ both[i] = list[i - 1]
  BY <1>2, <1>3
<1>6. OldestFirst(both)
  <2> SUFFICES ASSUME NEW i \in DOMAIN both, NEW j \in DOMAIN both, i < j
               PROVE  both[i].posted <= both[j].posted
    BY DEF OldestFirst
  <2>1. j # 1 /\ i \in Int /\ j \in Int
    BY <1>2, <1>3
  <2>2. j - 1 \in DOMAIN list /\ both[j] = list[j - 1]
    BY <1>5, <2>1
  <2>3. CASE i = 1
    BY <1>4, <2>2, <2>3, PostedInt
  <2>4. CASE i # 1
    <3>1. i - 1 \in DOMAIN list /\ both[i] = list[i - 1] /\ i - 1 < j - 1
      BY <1>5, <2>1, <2>4
    <3> QED
      BY <2>2, <3>1 DEF OldestFirst
  <2> QED
    BY <2>3, <2>4
<1>7. Posted(both) = {r.posted} \cup Posted(list)
  <2>1. Posted(both) \subseteq {r.posted} \cup Posted(list)
    BY <1>4, <1>5 DEF Posted
  <2>2. ASSUME NEW i \in DOMAIN list PROVE list[i].posted \in Posted(both)
    <3>1. i + 1 \in DOMAIN both /\ i + 1 # 1 /\ (i + 1) - 1 = i
      BY <1>2, <1>3
    <3>2. both[i + 1] = list[i]
      BY <1>5, <3>1
    <3> QED
      BY <3>1, <3>2 DEF Posted
  <2>3. r.posted \in Posted(both)
    BY <1>4 DEF Posted
  <2> QED
    BY <2>1, <2>2, <2>3 DEF Posted
<1> QED
  BY <1>2, <1>6, <1>7 DEF both, one

LEMMA KeptOldestFirst ==
  ASSUME transactions \in Seq(DatedRow), NewestFirst(transactions)
  PROVE  Kept \in Seq(DatedRow) /\ OldestFirst(Kept)
<1> DEFINE kept == CHOOSE k : k = [i \in 0 .. Len(transactions) |-> KeptStep(i, k[i - 1])]
<1>1. kept = [i \in 0 .. Len(transactions) |-> KeptStep(i, kept[i - 1])]
  <2>1. Len(transactions) \in Nat
    OBVIOUS
  <2> QED
    BY <2>1, KeptExists
<1>8. Kept = kept[Len(transactions)]
  BY DEF Kept, KeptStep
<1> HIDE DEF kept
<1> DEFINE last == Len(transactions)
           Good == {n \in Nat : n <= last =>
             /\ kept[n] \in Seq(DatedRow) /\ OldestFirst(kept[n])
             /\ \A x \in Posted(kept[n]) : \E i \in 1 .. n : x = transactions[i].posted}
<1>2. last \in Nat /\ DOMAIN transactions = 1 .. last
  OBVIOUS
<1> HIDE DEF last
<1>3. \A i \in 0 .. last : kept[i] = KeptStep(i, kept[i - 1])
  BY <1>1 DEF last
<1>4. 0 \in Good
  <2>1. kept[0] = <<>>
    <3>1. kept[0] = KeptStep(0, kept[0 - 1])
      BY <1>2, <1>3
    <3>2. KeptStep(0, kept[0 - 1]) = <<>>
      BY DEF KeptStep
    <3> QED
      BY <3>1, <3>2
  <2>2. <<>> \in Seq(DatedRow) /\ OldestFirst(<<>>) /\ Posted(<<>>) = {}
    BY EmptyList DEF OldestFirst
  <2> QED
    BY <2>1, <2>2
<1>5. ASSUME NEW n \in Nat, n \in Good
      PROVE  n + 1 \in Good
  <2> SUFFICES ASSUME n + 1 <= last
               PROVE  /\ kept[n + 1] \in Seq(DatedRow) /\ OldestFirst(kept[n + 1])
                      /\ \A x \in Posted(kept[n + 1]) :
                           \E i \in 1 .. n + 1 : x = transactions[i].posted
    OBVIOUS
  <2>1. /\ kept[n] \in Seq(DatedRow) /\ OldestFirst(kept[n])
        /\ \A x \in Posted(kept[n]) : \E i \in 1 .. n : x = transactions[i].posted
    BY <1>2, <1>5
  <2>2. kept[n + 1] = KeptStep(n + 1, kept[n])
    BY <1>2, <1>3
  <2>3. CASE n + 1 \in consumed
    BY <2>1, <2>2, <2>3 DEF KeptStep
  <2>4. CASE n + 1 \notin consumed
    <3> DEFINE r == transactions[n + 1]
    <3>1. r \in DatedRow /\ n + 1 \in DOMAIN transactions
      BY <1>2
    <3>2. \A i \in 1 .. n : i \in DOMAIN transactions /\ i < n + 1
      BY <1>2
    <3>3. \A i \in 1 .. n : transactions[n + 1].posted <= transactions[i].posted
      BY <3>1, <3>2, PostedInt DEF NewestFirst
    <3>4. kept[n + 1] = <<r>> \o kept[n]
      BY <2>2, <2>4 DEF KeptStep
    <3> HIDE DEF r
    <3>5. \A x \in Posted(kept[n]) : r.posted <= x
      BY <2>1, <3>3 DEF r
    <3>6. /\ kept[n + 1] \in Seq(DatedRow) /\ OldestFirst(kept[n + 1])
          /\ Posted(kept[n + 1]) = {r.posted} \cup Posted(kept[n])
      BY <2>1, <3>1, <3>4, <3>5, Prepended
    <3>7. \A x \in Posted(kept[n + 1]) : \E i \in 1 .. n + 1 : x = transactions[i].posted
      BY <2>1, <3>6 DEF r
    <3> QED
      BY <3>6, <3>7
  <2> QED
    BY <2>3, <2>4
<1> HIDE DEF Good
<1>6. \A n \in Nat : n \in Good
  BY <1>4, <1>5, NaturalsBySteps
<1>7. kept[last] \in Seq(DatedRow) /\ OldestFirst(kept[last])
  BY <1>2, <1>6 DEF Good
<1> QED
  BY <1>7, <1>8 DEF last

-----------------------------------------------------------------------------
(***************************************************************************)
(* Every step keeps types and order.                                       *)
(***************************************************************************)
LEMMA RowsJoin ==
  ASSUME TypeInv, OrderInv, rows # <<>>
  PROVE  /\ Head(rows) \in DatedRow /\ Tail(rows) \in Seq(DatedRow)
         /\ NewestFirst(Tail(rows)) /\ Posted(Tail(rows)) \subseteq Posted(rows)
         /\ Head(rows).posted \in Posted(rows)
         /\ \A x \in Posted(Tail(rows)) : Head(rows).posted >= x
         /\ \A x \in Posted(filtered) : x >= Head(rows).posted
         /\ \A x \in Posted(filtered), y \in Posted(Tail(rows)) : x >= y
BY HeadAndTail DEF TypeInv, OrderInv

\* A step of joining: the rows it writes were posted when the rows it read were.
Narrows ==
  /\ filtered' \in Seq(DatedRow) /\ rows' \in Seq(DatedRow)
  /\ NewestFirst(filtered') /\ NewestFirst(rows')
  /\ \A x \in Posted(filtered'), y \in Posted(rows') : x >= y
  /\ Posted(filtered') \cup Posted(rows') \subseteq Posted(filtered) \cup Posted(rows)

LEMMA KeepRowNarrows ==
  ASSUME TypeInv, OrderInv, KeepRow
  PROVE  Narrows
<1> DEFINE r == Head(rows)
<1>1. rows # <<>> /\ filtered' = Append(filtered, r) /\ rows' = Tail(rows)
  BY DEF KeepRow
<1>2. /\ r \in DatedRow /\ Tail(rows) \in Seq(DatedRow)
      /\ NewestFirst(Tail(rows)) /\ Posted(Tail(rows)) \subseteq Posted(rows)
      /\ r.posted \in Posted(rows)
      /\ \A x \in Posted(Tail(rows)) : r.posted >= x
      /\ \A x \in Posted(filtered) : x >= r.posted
      /\ \A x \in Posted(filtered), y \in Posted(Tail(rows)) : x >= y
  BY <1>1, RowsJoin
<1> HIDE DEF r
<1>3. filtered \in Seq(DatedRow) /\ NewestFirst(filtered)
  BY DEF TypeInv, OrderInv
<1>4. /\ filtered' \in Seq(DatedRow) /\ NewestFirst(filtered')
      /\ Posted(filtered') = Posted(filtered) \cup {r.posted}
  BY <1>1, <1>2, <1>3, Appended
<1> QED
  BY <1>1, <1>2, <1>4 DEF Narrows

LEMMA MergerNarrows ==
  ASSUME TypeInv, OrderInv, JoinCashMerger
  PROVE  Narrows
<1> DEFINE r == Head(rows)
           last == Last(filtered)
           new == Joined(last, last, r)
<1>1. /\ rows # <<>> /\ filtered # <<>> /\ rows' = Tail(rows)
      /\ filtered' = Append(Front(filtered), new)
      /\ JoinsWith(last, r)
  BY DEF JoinCashMerger, Unifying, MergerJoins
<1>2. /\ r \in DatedRow /\ Tail(rows) \in Seq(DatedRow)
      /\ NewestFirst(Tail(rows)) /\ Posted(Tail(rows)) \subseteq Posted(rows)
      /\ \A x \in Posted(filtered), y \in Posted(Tail(rows)) : x >= y
  BY <1>1, RowsJoin
<1>3. filtered \in Seq(DatedRow) /\ NewestFirst(filtered)
  BY DEF TypeInv, OrderInv
<1>4. last \in DatedRow
  <2>1. Len(filtered) \in Nat \ {0}
    BY <1>1, <1>3, EmptySeq
  <2>2. Len(filtered) \in 1 .. Len(filtered)
    BY <2>1
  <2> QED
    BY <1>3, <2>2 DEF Last
<1> HIDE DEF r, last
<1>5. new \in DatedRow /\ new.posted = last.posted
  BY <1>1, <1>2, <1>4, JoinedRow
<1> HIDE DEF new
<1>6. /\ filtered' \in Seq(DatedRow) /\ NewestFirst(filtered')
      /\ Posted(filtered') = Posted(filtered)
  BY <1>1, <1>3, <1>5, LastReplaced DEF last
<1> QED
  BY <1>1, <1>2, <1>6 DEF Narrows

LEMMA RedemptionNarrows ==
  ASSUME TypeInv, OrderInv, JoinFullRedemption
  PROVE  Narrows
<1> DEFINE tail == Tail(rows)
           r == rows[2]
           new == Joined(r, Head(rows), r)
<1>1. /\ rows # <<>> /\ Len(rows) > 1 /\ rows' = Tail(tail)
      /\ filtered' = Append(filtered, new)
      /\ JoinsWith(Head(rows), r)
  BY DEF JoinFullRedemption, Unifying, RedemptionJoins
<1>2. rows \in Seq(DatedRow) /\ filtered \in Seq(DatedRow) /\ NewestFirst(filtered)
  BY DEF TypeInv, OrderInv
<1>3. /\ Head(rows) \in DatedRow /\ tail \in Seq(DatedRow)
      /\ NewestFirst(tail) /\ Posted(tail) \subseteq Posted(rows)
      /\ \A x \in Posted(filtered), y \in Posted(tail) : x >= y
  BY <1>1, RowsJoin
<1>4. tail # <<>> /\ Head(tail) = r
  <2>1. Len(tail) = Len(rows) - 1 /\ \A i \in 1 .. Len(tail) : tail[i] = rows[i + 1]
    BY <1>1, <1>2, HeadTailProperties
  <2>2. Len(tail) >= 1 /\ tail[1] = rows[1 + 1]
    BY <1>1, <1>2, <2>1
  <2> HIDE DEF tail
  <2>3. tail # <<>>
    BY <2>2
  <2> QED
    BY <1>3, <2>2, <2>3
<1> HIDE DEF tail, r
<1>5. /\ Tail(tail) \in Seq(DatedRow) /\ NewestFirst(Tail(tail))
      /\ Posted(Tail(tail)) \subseteq Posted(tail)
      /\ r \in DatedRow /\ r.posted \in Posted(tail)
      /\ \A x \in Posted(Tail(tail)) : r.posted >= x
  BY <1>3, <1>4, HeadAndTail
<1>6. new \in DatedRow /\ new.posted = r.posted
  BY <1>1, <1>3, <1>5, JoinedRow
<1> HIDE DEF new
<1>7. \A x \in Posted(filtered) : x >= new.posted
  BY <1>3, <1>5, <1>6
<1>8. /\ filtered' \in Seq(DatedRow) /\ NewestFirst(filtered')
      /\ Posted(filtered') = Posted(filtered) \cup {new.posted}
  BY <1>1, <1>2, <1>6, <1>7, Appended
<1> QED
  BY <1>1, <1>3, <1>5, <1>6, <1>8 DEF Narrows

\* Whatever the row, the joining goes on as before.
LEMMA NarrowsKeepsOrder ==
  ASSUME TypeInv, OrderInv, Narrows, KeepsUnify, phase = "unify"
  PROVE  TypeInv' /\ OrderInv'
<1>1. /\ phase' = phase /\ account' = account /\ award_file' = award_file
      /\ awards_prices' = awards_prices /\ files' = files /\ file' = file
      /\ cancel_idx' = cancel_idx /\ consumed' = consumed
      /\ transactions' = transactions
  BY DEF KeepsUnify, optionVars
<1>2. TypeInv'
  BY <1>1 DEF TypeInv, Narrows
<1>3. \A f, g \in DOMAIN files : f # g => Apart(DaysOf(f), DaysOf(g))'
  <2>1. \A f \in DOMAIN files : DaysOf(f)' \subseteq DaysOf(f)
    BY <1>1 DEF DaysOf, Narrows
  <2>2. \A f, g \in DOMAIN files : f # g => Apart(DaysOf(f), DaysOf(g))
    BY DEF OrderInv
  <2> QED
    BY <2>1, <2>2 DEF Apart, Above
<1>4. OrderInv'
  BY <1>1, <1>3 DEF OrderInv, Narrows
<1> QED
  BY <1>2, <1>4

LEMMA ReadTyped ==
  ASSUME TypeInv, OrderInv, ReadRows
  PROVE  TypeInv' /\ OrderInv'
<1> DEFINE export == files[file]
           new == [i \in DOMAIN export |-> Created(export[i])]
<1>1. /\ phase = "read" /\ phase' = "read" /\ file <= Len(files)
      /\ \A i \in DOMAIN export : Readable(export[i])
      /\ files' = [files EXCEPT ![file] = new] /\ file' = file + 1
      /\ account' = account /\ award_file' = award_file
      /\ awards_prices' = awards_prices /\ rows' = rows /\ filtered' = filtered
      /\ transactions' = transactions /\ cancel_idx' = cancel_idx /\ consumed' = consumed
  BY DEF ReadRows, optionVars
<1>2. file \in DOMAIN files /\ export \in Seq(DatedRow) /\ NewestFirst(export)
  <2>1. file \in Nat \ {0} /\ files \in Seq(Seq(DatedRow))
    BY <1>1 DEF TypeInv
  <2>2. file \in 1 .. Len(files)
    BY <1>1, <2>1
  <2> QED
    BY <2>1, <2>2 DEF OrderInv
<1>3. awards_prices.award_prices \in SUBSET Int
  BY DEF TypeInv
<1> HIDE DEF export
<1>4. /\ new \in Seq(DatedRow) /\ NewestFirst(new) /\ Len(new) = Len(export)
  BY <1>1, <1>2, <1>3, CreatedRows
<1> HIDE DEF new
<1>5. /\ files' \in Seq(Seq(DatedRow)) /\ DOMAIN files' = DOMAIN files
      /\ \A f \in DOMAIN files : files'[f] = IF f = file THEN new ELSE files[f]
      /\ files' # <<>>
  <2>1. files \in Seq(Seq(DatedRow)) /\ files # <<>>
    BY DEF TypeInv
  <2>2. file \in 1 .. Len(files)
    BY <1>2, <2>1
  <2>3. /\ files' \in Seq(Seq(DatedRow)) /\ Len(files') = Len(files)
        /\ \A f \in 1 .. Len(files) : files'[f] = IF f = file THEN new ELSE files[f]
    BY <1>1, <1>4, <2>1, <2>2, ExceptSeq
  <2>4. Len(files) # 0
    BY <2>1, EmptySeq
  <2> QED
    BY <2>1, <2>3, <2>4
<1>6. \A f, g \in DOMAIN files : f # g => files'[f] # <<>>
  <2> SUFFICES ASSUME NEW f \in DOMAIN files, NEW g \in DOMAIN files, f # g
               PROVE  files'[f] # <<>>
    OBVIOUS
  <2>1. files[f] # <<>>
    BY <1>1 DEF OrderInv
  <2>2. CASE f # file
    BY <1>5, <2>1, <2>2
  <2>3. CASE f = file
    <3>1. export # <<>>
      BY <2>1, <2>3 DEF export
    <3>2. Len(export) # 0
      BY <1>2, <3>1, EmptySeq
    <3>3. Len(new) # 0
      BY <1>4, <3>2
    <3>4. new # <<>>
      BY <3>3
    <3> QED
      BY <1>5, <2>3, <3>4
  <2> QED
    BY <2>2, <2>3
<1>7. TypeInv'
  BY <1>1, <1>5 DEF TypeInv
<1>8. \A f \in DOMAIN files' : NewestFirst(files'[f])
  BY <1>4, <1>5 DEF OrderInv
<1>9. OrderInv'
  BY <1>1, <1>5, <1>6, <1>8 DEF OrderInv
<1> QED
  BY <1>7, <1>9

\* Exports that do not overlap lie one wholly after the other.
LEMMA NotOverlapping ==
  ASSUME NEW a \in Seq(DatedRow), NEW b \in Seq(DatedRow), a # <<>>, b # <<>>, ~Overlap(a, b)
  PROVE  Apart(Posted(a), Posted(b)) /\ Apart(Posted(b), Posted(a))
<1>1. \A x \in Posted(a) : x \in Int /\ Oldest(a) <= x /\ x <= Newest(a)
  BY OldestNewest, PostedInt DEF Posted
<1>2. \A x \in Posted(b) : x \in Int /\ Oldest(b) <= x /\ x <= Newest(b)
  BY OldestNewest, PostedInt DEF Posted
<1>3. Oldest(a) \in Int /\ Newest(a) \in Int /\ Oldest(b) \in Int /\ Newest(b) \in Int
  BY OldestNewest, PostedInt
<1>4. Oldest(a) > Newest(b) \/ Oldest(b) > Newest(a)
  BY <1>3 DEF Overlap
<1>5. CASE Oldest(a) > Newest(b)
  <2>1. Above(Posted(a), Posted(b))
    BY <1>1, <1>2, <1>3, <1>5 DEF Above
  <2> QED
    BY <2>1 DEF Apart
<1>6. CASE Oldest(b) > Newest(a)
  <2>1. Above(Posted(b), Posted(a))
    BY <1>1, <1>2, <1>3, <1>6 DEF Above
  <2> QED
    BY <2>1 DEF Apart
<1> QED
  BY <1>4, <1>5, <1>6

LEMMA AcceptTyped ==
  ASSUME TypeInv, OrderInv, AcceptExports
  PROVE  TypeInv' /\ OrderInv'
<1>1. /\ phase = "read" /\ ~SomeOverlap
      /\ phase' = "unify" /\ file' = 1 /\ rows' = files[1] /\ filtered' = <<>>
      /\ account' = account /\ award_file' = award_file /\ files' = files
      /\ awards_prices' = awards_prices /\ transactions' = transactions
      /\ cancel_idx' = cancel_idx /\ consumed' = consumed
  BY DEF AcceptExports, AllRead, optionVars
<1>2. files \in Seq(Seq(DatedRow)) /\ 1 \in DOMAIN files
  <2>1. files \in Seq(Seq(DatedRow)) /\ files # <<>>
    BY DEF TypeInv
  <2>2. Len(files) \in Nat \ {0}
    BY <2>1, EmptySeq
  <2> QED
    BY <2>1, <2>2
<1>3. files[1] \in Seq(DatedRow) /\ NewestFirst(files[1])
  BY <1>2 DEF OrderInv
<1>4. TypeInv'
  BY <1>1, <1>2, <1>3 DEF TypeInv
<1>5. \A f, g \in DOMAIN files : f # g => Apart(Posted(files[f]), Posted(files[g]))
  <2> SUFFICES ASSUME NEW f \in DOMAIN files, NEW g \in DOMAIN files, f # g
               PROVE  Apart(Posted(files[f]), Posted(files[g]))
    OBVIOUS
  <2>1. files[f] \in Seq(DatedRow) /\ files[g] \in Seq(DatedRow)
    BY <1>2
  <2>2. files[f] # <<>> /\ files[g] # <<>>
    BY <1>1 DEF OrderInv
  <2>3. f \in Int /\ g \in Int
    BY <1>2
  <2>4. CASE f < g
    <3>1. ~Overlap(files[f], files[g])
      BY <1>1, <2>4 DEF SomeOverlap
    <3> QED
      BY <2>1, <2>2, <3>1, NotOverlapping
  <2>5. CASE g < f
    <3>1. ~Overlap(files[g], files[f])
      BY <1>1, <2>5 DEF SomeOverlap
    <3> QED
      BY <2>1, <2>2, <3>1, NotOverlapping
  <2> QED
    BY <2>3, <2>4, <2>5
<1>6. \A f \in DOMAIN files : DaysOf(f)' = Posted(files[f])
  BY <1>1, EmptyList DEF DaysOf
<1>7. \A f, g \in DOMAIN files : f # g => Apart(DaysOf(f), DaysOf(g))'
  BY <1>5, <1>6 DEF Apart, Above
<1>8. OrderInv'
  BY <1>1, <1>3, <1>7, EmptyList DEF OrderInv
<1> QED
  BY <1>4, <1>8

LEMMA NextFileTyped ==
  ASSUME TypeInv, OrderInv, NextFile
  PROVE  TypeInv' /\ OrderInv'
<1>1. /\ phase = "unify" /\ rows = <<>>
      /\ files' = [files EXCEPT ![file] = filtered]
      /\ file' = file + 1 /\ filtered' = <<>>
      /\ \/ file < Len(files) /\ rows' = files[file + 1] /\ phase' = phase
         \/ ~(file < Len(files)) /\ phase' = "merge" /\ rows' = rows
      /\ account' = account /\ award_file' = award_file
      /\ awards_prices' = awards_prices /\ transactions' = transactions
      /\ cancel_idx' = cancel_idx /\ consumed' = consumed
  BY DEF NextFile, optionVars
<1>2. /\ files \in Seq(Seq(DatedRow)) /\ files # <<>> /\ file \in 1 .. Len(files)
      /\ filtered \in Seq(DatedRow) /\ file \in Nat
      /\ NewestFirst(filtered) /\ Posted(rows) = {}
  BY <1>1, EmptyList DEF TypeInv, OrderInv
<1>3. /\ files' \in Seq(Seq(DatedRow)) /\ DOMAIN files' = DOMAIN files
      /\ \A f \in DOMAIN files : files'[f] = IF f = file THEN filtered ELSE files[f]
      /\ files' # <<>> /\ Len(files') = Len(files)
  <2>1. /\ files' \in Seq(Seq(DatedRow)) /\ Len(files') = Len(files)
        /\ \A f \in 1 .. Len(files) : files'[f] = IF f = file THEN filtered ELSE files[f]
    BY <1>1, <1>2, ExceptSeq
  <2>2. Len(files') # 0
    BY <1>2, <2>1
  <2> QED
    BY <1>2, <2>1, <2>2
<1>4. \A f \in DOMAIN files : Posted(files'[f]) = DaysOf(f)
  BY <1>1, <1>2, <1>3 DEF DaysOf
<1>5. \A f \in DOMAIN files : DaysOf(f)' = DaysOf(f)
  <2> SUFFICES ASSUME NEW f \in DOMAIN files
               PROVE  DaysOf(f)' = DaysOf(f)
    OBVIOUS
  <2>1. CASE phase' = "unify" /\ f = file + 1
    <3>1. DaysOf(f)' = Posted(filtered') \cup Posted(rows')
      BY <1>1, <2>1 DEF DaysOf
    <3>2. rows' = files[f]
      BY <1>1, <2>1
    <3>3. f # file
      BY <1>2, <2>1
    <3>4. DaysOf(f) = Posted(files[f])
      BY <3>3 DEF DaysOf
    <3> QED
      BY <1>1, <3>1, <3>2, <3>4, EmptyList
  <2>2. CASE ~(phase' = "unify" /\ f = file + 1)
    <3>1. DaysOf(f)' = Posted(files'[f])
      BY <1>1, <2>2 DEF DaysOf
    <3> QED
      BY <1>4, <3>1
  <2> QED
    BY <2>1, <2>2
<1>6. \A f, g \in DOMAIN files : f # g => Apart(DaysOf(f), DaysOf(g))'
  <2>1. \A f, g \in DOMAIN files : f # g => Apart(DaysOf(f), DaysOf(g))
    BY <1>1 DEF OrderInv
  <2> QED
    BY <1>5, <2>1 DEF Apart, Above
<1>7. rows' \in Seq(DatedRow) /\ NewestFirst(rows')
  <2>1. CASE file < Len(files)
    <3>1. file + 1 \in DOMAIN files
      BY <1>2, <2>1
    <3>2. files[file + 1] \in Seq(DatedRow) /\ NewestFirst(files[file + 1])
      BY <1>2, <3>1 DEF OrderInv
    <3> QED
      BY <1>1, <2>1, <3>2
  <2>2. CASE ~(file < Len(files))
    BY <1>1, <2>2, EmptyList DEF TypeInv
  <2> QED
    BY <2>1, <2>2
<1>8. TypeInv'
  <2>1. phase' = "unify" => file' \in DOMAIN files'
    BY <1>1, <1>2, <1>3
  <2>2. file' \in Nat /\ phase' # "read"
    BY <1>1, <1>2
  <2> QED
    BY <1>1, <1>3, <1>7, <2>1, <2>2 DEF TypeInv
<1>9. \A f \in DOMAIN files' : NewestFirst(files'[f])
  BY <1>2, <1>3 DEF OrderInv
<1>10. OrderInv'
  <2>1. transactions' = <<>> /\ phase' \in {"unify", "merge"}
    BY <1>1 DEF OrderInv
  <2>2. NewestFirst(transactions') /\ Posted(transactions') = {}
    BY <2>1, EmptyList
  <2>3. NewestFirst(filtered') /\ Posted(filtered') = {}
    BY <1>1, EmptyList
  <2> QED
    BY <1>3, <1>6, <1>7, <1>9, <2>1, <2>2, <2>3 DEF OrderInv, Above
<1> QED
  BY <1>8, <1>10

\* The export that reaches the latest day lies above the others.
LEMMA LatestIsAbove ==
  ASSUME NEW a \in Seq(DatedRow), NEW b \in Seq(DatedRow), a # <<>>, b # <<>>,
         Apart(Posted(a), Posted(b)), Newest(a) >= Newest(b)
  PROVE  Above(Posted(a), Posted(b))
<1>1. Newest(a) \in Posted(a) /\ Newest(b) \in Posted(b)
  BY OldestNewest DEF Posted
<1>2. Newest(a) \in Int /\ Newest(b) \in Int
  BY <1>1, PostedInt
<1>3. ~Above(Posted(b), Posted(a))
  BY <1>1, <1>2 DEF Above
<1> QED
  BY <1>3 DEF Apart

LEMMA MergeTyped ==
  ASSUME TypeInv, OrderInv, MergeExport
  PROVE  TypeInv' /\ OrderInv'
<1>1. /\ phase = "merge" /\ phase' = "merge" /\ file' = file /\ rows' = rows
      /\ filtered' = filtered
      /\ account' = account /\ award_file' = award_file
      /\ awards_prices' = awards_prices
      /\ cancel_idx' = cancel_idx /\ consumed' = consumed
  BY DEF MergeExport
<1>2. PICK f \in Unmerged :
        /\ \A g \in Unmerged \ {f} : Newest(files[f]) >= Newest(files[g])
        /\ transactions' = transactions \o files[f]
        /\ files' = [files EXCEPT ![f] = <<>>]
  BY DEF MergeExport
<1> DEFINE part == files[f]
<1>3. /\ files \in Seq(Seq(DatedRow)) /\ files # <<>> /\ f \in 1 .. Len(files)
      /\ part \in Seq(DatedRow) /\ NewestFirst(part) /\ part # <<>>
      /\ transactions \in Seq(DatedRow) /\ NewestFirst(transactions)
      /\ Above(Posted(transactions), Posted(part))
  <2>1. f \in DOMAIN files /\ part # <<>> /\ files \in Seq(Seq(DatedRow)) /\ files # <<>>
    BY DEF Unmerged, TypeInv
  <2>2. part \in Seq(DatedRow) /\ f \in 1 .. Len(files)
    BY <2>1
  <2> QED
    BY <1>1, <2>1, <2>2 DEF TypeInv, OrderInv
<1>4. \A g \in DOMAIN files : g # f => Above(Posted(part), Posted(files[g]))
  <2> SUFFICES ASSUME NEW g \in DOMAIN files, g # f
               PROVE  Above(Posted(part), Posted(files[g]))
    OBVIOUS
  <2>1. files[g] \in Seq(DatedRow) /\ f \in DOMAIN files
    BY <1>3
  <2>2. CASE files[g] = <<>>
    BY <2>2, EmptyList DEF Above
  <2>3. CASE files[g] # <<>>
    <3>1. Newest(part) >= Newest(files[g])
      BY <1>2, <2>3 DEF Unmerged
    <3>2. Apart(Posted(part), Posted(files[g]))
      BY <1>1, <2>1 DEF OrderInv, DaysOf
    <3> QED
      BY <1>3, <2>1, <2>3, <3>1, <3>2, LatestIsAbove
  <2> QED
    BY <2>2, <2>3
<1> HIDE DEF part
<1>5. /\ transactions' \in Seq(DatedRow) /\ NewestFirst(transactions')
      /\ Posted(transactions') = Posted(transactions) \cup Posted(part)
  <2>1. \A x \in Posted(transactions), y \in Posted(part) : x >= y
    BY <1>3, PostedInt DEF Above
  <2> QED
    BY <1>2, <1>3, <2>1, Joining DEF part
<1>6. /\ files' \in Seq(Seq(DatedRow)) /\ DOMAIN files' = DOMAIN files
      /\ \A g \in DOMAIN files : files'[g] = IF g = f THEN <<>> ELSE files[g]
      /\ files' # <<>>
  <2>1. <<>> \in Seq(DatedRow)
    OBVIOUS
  <2>2. /\ files' \in Seq(Seq(DatedRow)) /\ Len(files') = Len(files)
        /\ \A g \in 1 .. Len(files) : files'[g] = IF g = f THEN <<>> ELSE files[g]
    BY <1>2, <1>3, <2>1, ExceptSeq
  <2>3. files' # <<>>
    <3>1. Len(files) # 0
      BY <1>3, EmptySeq
    <3>2. Len(files') # 0
      BY <2>2, <3>1
    <3> QED
      BY <3>2
  <2>4. DOMAIN files' = 1 .. Len(files') /\ DOMAIN files = 1 .. Len(files)
    BY <1>3, <2>2
  <2> QED
    BY <2>2, <2>3, <2>4
<1>7. TypeInv'
  BY <1>1, <1>5, <1>6 DEF TypeInv
<1>8. \A g \in DOMAIN files : /\ Posted(files'[g]) \subseteq Posted(files[g])
                              /\ NewestFirst(files'[g])
  BY <1>6, EmptyList DEF OrderInv
<1>9. \A g \in DOMAIN files : Above(Posted(transactions'), Posted(files'[g]))
  <2> SUFFICES ASSUME NEW g \in DOMAIN files
               PROVE  Above(Posted(transactions'), Posted(files'[g]))
    OBVIOUS
  <2>1. CASE g = f
    BY <1>6, <2>1, EmptyList DEF Above
  <2>2. CASE g # f
    <3>1. Above(Posted(transactions), Posted(files[g]))
      BY <1>1 DEF OrderInv
    <3> QED
      BY <1>4, <1>5, <1>6, <2>2, <3>1 DEF Above
  <2> QED
    BY <2>1, <2>2
<1>10. \A g, h \in DOMAIN files : g # h => Apart(DaysOf(g), DaysOf(h))'
  <2>1. \A g \in DOMAIN files : DaysOf(g)' \subseteq DaysOf(g)
    BY <1>1, <1>8 DEF DaysOf
  <2>2. \A g, h \in DOMAIN files : g # h => Apart(DaysOf(g), DaysOf(h))
    BY <1>1 DEF OrderInv
  <2> QED
    BY <2>1, <2>2 DEF Apart, Above
<1>11. OrderInv'
  BY <1>1, <1>5, <1>6, <1>8, <1>9, <1>10 DEF OrderInv
<1> QED
  BY <1>7, <1>11

LEMMA FinalizeTyped ==
  ASSUME TypeInv, OrderInv, FinalizeTransactions
  PROVE  TypeInv' /\ OrderInv'
<1>1. /\ phase = "cancel" /\ phase' = "scan" /\ transactions' = Kept
      /\ UNCHANGED exportVars
  BY DEF FinalizeTransactions, EndSearch, StartReconciliation
<1>2. Kept \in Seq(DatedRow)
  BY <1>1, KeptOldestFirst DEF TypeInv, OrderInv
<1> QED
  BY <1>1, <1>2 DEF TypeInv, OrderInv, exportVars

LEMMA DirectoryTyped ==
  ASSUME TypeInv, OrderInv, LoadDirectory
  PROVE  TypeInv' /\ OrderInv'
<1>1. /\ award_file' \in AwardFiles(account)
      /\ account' = account /\ awards_prices' = awards_prices
  BY DEF LoadDirectory
<1>2. account \in Accounts /\ account \in Seq(DatedRow) /\ NewestFirst(account)
  BY ExportedRows DEF TypeInv
<1>3. PICK cut \in 1 .. (Len(account) - 1) :
        \/ Begin(<<SubSeq(account, 1, cut), SubSeq(account, cut + 1, Len(account))>>)
        \/ Begin(<<SubSeq(account, cut + 1, Len(account)), SubSeq(account, 1, cut)>>)
  BY DEF LoadDirectory
<1> DEFINE newer == SubSeq(account, 1, cut)
           older == SubSeq(account, cut + 1, Len(account))
<1>4. Len(account) \in Nat /\ cut \in Int /\ 1 <= cut /\ cut <= Len(account) - 1
  BY <1>2
<1>5. /\ newer \in Seq(DatedRow) /\ NewestFirst(newer) /\ newer # <<>>
      /\ older \in Seq(DatedRow) /\ NewestFirst(older) /\ older # <<>>
  <2>1. 1 \in 1 .. Len(account) + 1 /\ cut \in 0 .. Len(account) /\ 1 <= cut
    BY <1>4
  <2>2. /\ cut + 1 \in 1 .. Len(account) + 1 /\ Len(account) \in 0 .. Len(account)
        /\ cut + 1 <= Len(account)
    BY <1>4
  <2> QED
    BY <1>2, <2>1, <2>2, Cutting
<1> HIDE DEF newer, older
<1>6. PICK a \in Seq(DatedRow), b \in Seq(DatedRow) :
        /\ Begin(<<a, b>>)
        /\ NewestFirst(a) /\ a # <<>> /\ NewestFirst(b) /\ b # <<>>
  BY <1>3, <1>5 DEF newer, older
<1>7. /\ phase' = "award" /\ files' = <<a, b>> /\ file' = 0 /\ rows' = <<>>
      /\ filtered' = <<>> /\ cancel_idx' = 0 /\ consumed' = {}
      /\ transactions' = <<>>
  BY <1>6 DEF Begin, StartReconciliation
<1>8. /\ DOMAIN files' = {1, 2} /\ files'[1] = a /\ files'[2] = b
      /\ files' \in Seq(Seq(DatedRow)) /\ files' # <<>>
  BY <1>6, <1>7
<1>9. <<>> \in Seq(DatedRow) /\ award_file' \in AwardFile
  BY <1>1, <1>2, AwardFileOf
<1>10. TypeInv'
  BY <1>1, <1>2, <1>7, <1>8, <1>9 DEF TypeInv
<1>11. OrderInv'
  BY <1>6, <1>7, <1>8, EmptyList DEF OrderInv
<1> QED
  BY <1>10, <1>11

LEMMA LoadTyped ==
  ASSUME TypeInv, OrderInv, LoadAwardFile
  PROVE  TypeInv' /\ OrderInv'
<1>1. /\ phase = "award" /\ phase' = "read" /\ file' = 1
      /\ awards_prices' = PricesOf(award_file)
      /\ UNCHANGED <<optionVars, account, award_file, load, files, rows, filtered,
                     cancel_idx, consumed, outcome>>
  BY DEF LoadAwardFile
<1>2. awards_prices'.award_prices \in SUBSET Int
  <2>1. award_file.days \in SUBSET Int
    BY DEF TypeInv, AwardFile
  <2>2. PricesOf(award_file).award_prices
          = IF award_file.kind \in {"prices", "lapses"} THEN award_file.days ELSE {}
    BY DEF PricesOf, NoPrices
  <2> QED
    BY <1>1, <2>1, <2>2
<1> QED
  BY <1>1, <1>2 DEF TypeInv, OrderInv, optionVars

LEMMA MatchIsEarlier ==
  ASSUME TypeInv, OrderInv, Searching, HasBuy(cancel_idx)
  PROVE  LET m == MatchingBuy(cancel_idx) IN
         /\ cancel_idx \in Nat
         /\ m \in Nat /\ m \notin consumed /\ IsMatchingBuy(m, cancel_idx)
         /\ transactions[cancel_idx].posted - transactions[m].posted
                \in 0 .. CancelBuySearchDays
<1> DEFINE c == cancel_idx
           m == MatchingBuy(cancel_idx)
<1>1. /\ c \in Nat \ {0} /\ c <= Len(transactions) /\ transactions \in Seq(DatedRow)
      /\ Len(transactions) \in Nat /\ NewestFirst(transactions)
      /\ CancelBuySearchDays \in Nat
  BY ExportAssumption DEF TypeInv, OrderInv, Searching
<1>2. c \in DOMAIN transactions /\ transactions[c].posted \in Int
  BY <1>1, PostedInt
<1>3. CASE OlderBuys(c) # {}
  <2>1. OlderBuys(c) \in SUBSET ((c + 1) .. Len(transactions))
    BY DEF OlderBuys
  <2>2. Min(OlderBuys(c)) \in OlderBuys(c)
    <3>1. c + 1 \in Int /\ Len(transactions) \in Int
      BY <1>1
    <3> HIDE DEF c
    <3> QED
      BY <1>3, <2>1, <3>1, IntervalMaxMin
  <2>3. m = Min(OlderBuys(c))
    BY <1>3 DEF MatchingBuy
  <2> HIDE DEF m, c
  <2>4. /\ m \in (c + 1) .. Len(transactions) /\ m \notin consumed
        /\ \A k \in (c + 1) .. m : DaysApart(k, c) <= CancelBuySearchDays
        /\ IsMatchingBuy(m, c)
    BY <2>2, <2>3 DEF OlderBuys
  <2>5. m \in DOMAIN transactions /\ c < m /\ m \in (c + 1) .. m /\ m \in Nat
    BY <1>1, <2>4
  <2>6. transactions[m].posted \in Int /\ transactions[c].posted >= transactions[m].posted
    BY <1>1, <1>2, <2>5, PostedInt DEF NewestFirst
  <2>7. DaysApart(m, c) <= CancelBuySearchDays
    BY <2>4, <2>5
  <2>8. transactions[c].posted - transactions[m].posted \in 0 .. CancelBuySearchDays
    BY <1>1, <1>2, <2>6, <2>7 DEF DaysApart
  <2> QED
    BY <1>1, <2>4, <2>5, <2>8 DEF m, c
<1>4. CASE OlderBuys(c) = {}
  <2>1. SameDateBuys(c) \in SUBSET (1 .. (c - 1)) /\ SameDateBuys(c) # {}
    BY <1>4 DEF SameDateBuys, HasBuy
  <2>2. Max(SameDateBuys(c)) \in SameDateBuys(c)
    <3>1. 1 \in Int /\ c - 1 \in Int
      BY <1>1
    <3> HIDE DEF c
    <3> QED
      BY <2>1, <3>1, IntervalMaxMin
  <2>3. m = Max(SameDateBuys(c))
    BY <1>4 DEF MatchingBuy
  <2> HIDE DEF m, c
  <2>4. /\ m \in 1 .. (c - 1) /\ m \notin consumed /\ IsMatchingBuy(m, c)
        /\ \A k \in m .. (c - 1) : transactions[k].posted = transactions[c].posted
    BY <2>2, <2>3 DEF SameDateBuys
  <2>5. m \in m .. (c - 1) /\ m \in Nat
    BY <1>1, <2>4
  <2>6. transactions[m].posted = transactions[c].posted
    BY <2>4, <2>5
  <2>7. transactions[c].posted - transactions[m].posted \in 0 .. CancelBuySearchDays
    BY <1>1, <1>2, <2>6
  <2> QED
    BY <1>1, <2>4, <2>5, <2>7 DEF m, c
<1> QED
  BY <1>3, <1>4

LEMMA CancelTyped ==
  ASSUME TypeInv, OrderInv, CancelBuy
  PROVE  TypeInv' /\ OrderInv'
<1>1. /\ phase = "cancel" /\ cancel_idx' = cancel_idx + 1
      /\ consumed' = consumed \cup {cancel_idx, MatchingBuy(cancel_idx)}
      /\ KeepsSearch
  BY DEF CancelBuy, Searching
<1>2. MatchingBuy(cancel_idx) \in Nat
  BY MatchIsEarlier DEF CancelBuy
<1>3. cancel_idx \in Nat /\ consumed \in SUBSET Nat
  BY DEF TypeInv
<1>4. cancel_idx' \in Nat /\ consumed' \in SUBSET Nat /\ cancel_idx' # 0
  <2> DEFINE m == MatchingBuy(cancel_idx)
  <2>1. m \in Nat /\ consumed' = consumed \cup {cancel_idx, m} /\ cancel_idx' = cancel_idx + 1
    BY <1>1, <1>2
  <2> HIDE DEF m
  <2>2. cancel_idx' \in Nat /\ cancel_idx' # 0
    BY <1>3, <2>1
  <2> QED
    BY <1>3, <2>1, <2>2
<1>5. TypeInv'
  BY <1>1, <1>4 DEF TypeInv, KeepsSearch, optionVars
<1>6. OrderInv'
  BY <1>1 DEF OrderInv, KeepsSearch, optionVars
<1> QED
  BY <1>5, <1>6

LEMMA TypedStep ==
  ASSUME TypeInv, OrderInv, [Next]_vars
  PROVE  TypeInv' /\ OrderInv'
<1>1. CASE LoadAwardFile
  BY <1>1, LoadTyped
<1>2. CASE ReadRows
  BY <1>2, ReadTyped
<1>3. CASE RefuseRow \/ RejectOverlap \/ RefuseHalf \/ RefuseCancellation \/ RejectSplit
  <2>1. Refuse
    BY <1>3 DEF RefuseRow, RejectOverlap, RefuseHalf, RefuseCancellation, RejectSplit
  <2> QED
    BY <2>1 DEF Refuse, optionVars, exportVars, TypeInv, OrderInv
<1>4. CASE AcceptExports
  BY <1>4, AcceptTyped
<1>5. CASE KeepRow
  BY <1>5, KeepRowNarrows, NarrowsKeepsOrder DEF KeepRow
<1>6. CASE JoinCashMerger
  BY <1>6, MergerNarrows, NarrowsKeepsOrder DEF JoinCashMerger, Unifying
<1>7. CASE JoinFullRedemption
  BY <1>7, RedemptionNarrows, NarrowsKeepsOrder DEF JoinFullRedemption, Unifying
<1>8. CASE NextFile
  BY <1>8, NextFileTyped
<1>9. CASE MergeExport
  BY <1>9, MergeTyped
<1>10. CASE EndMerge
  <2>1. TypeInv'
    BY <1>10 DEF EndMerge, TypeInv, optionVars
  <2>2. OrderInv'
    BY <1>10 DEF EndMerge, OrderInv, optionVars
  <2> QED
    BY <2>1, <2>2
<1>11. CASE PassTransaction
  <2>1. TypeInv'
    BY <1>11 DEF PassTransaction, Searching, KeepsSearch, TypeInv, optionVars
  <2>2. OrderInv'
    BY <1>11 DEF PassTransaction, Searching, KeepsSearch, OrderInv, optionVars
  <2> QED
    BY <2>1, <2>2
<1>12. CASE CancelBuy
  BY <1>12, CancelTyped
<1>13. CASE FinalizeTransactions
  BY <1>13, FinalizeTyped
<1>14. CASE ReconcileWrittenOptions /\ UNCHANGED exportVars
  <2>1. /\ transactions' = transactions
        /\ phase' \in {"scan", "allocate", "settle", "done", "refused"}
    BY <1>14, ReconcileKeepsRows
  <2> QED
    BY <1>14, <2>1 DEF exportVars, TypeInv, OrderInv
<1>15. CASE LoadDirectory
  BY <1>15, DirectoryTyped
<1>16. CASE UNCHANGED vars
  BY <1>16 DEF vars, optionVars, exportVars, TypeInv, OrderInv, DaysOf
<1> QED
  BY <1>1, <1>2, <1>3, <1>4, <1>5, <1>6, <1>7, <1>8, <1>9, <1>10, <1>11, <1>12,
     <1>13, <1>14, <1>15, <1>16 DEF Next

\* Types and order hold throughout.
THEOREM RowsStayInOrder == Spec => [](TypeInv /\ OrderInv)
<1>1. Init => TypeInv /\ OrderInv
  BY InitTyped
<1>2. TypeInv /\ OrderInv /\ [Next]_vars => (TypeInv /\ OrderInv)'
  BY TypedStep
<1> QED
  BY <1>1, <1>2, PTL DEF Spec

-----------------------------------------------------------------------------
(***************************************************************************)
(* Cancellations.  The search has paired every cancellation it passed, and *)
(* CancelBuy adds one pair of rows that are in none.                       *)
(***************************************************************************)
Passed == {c \in 1 .. (cancel_idx - 1) : transactions[c].label = "Cancel Buy"}

Pairs(pairing) ==
  /\ {pairing[c] : c \in Passed} = consumed \ Passed
  /\ \A c, d \in Passed : pairing[c] = pairing[d] => c = d
  /\ \A c \in Passed :
        /\ IsMatchingBuy(pairing[c], c)
        /\ transactions[c].posted - transactions[pairing[c]].posted
                \in 0 .. CancelBuySearchDays

Paired ==
  phase = "cancel" =>
    /\ Passed \subseteq consumed
    /\ \E pairing \in [Passed -> consumed \ Passed] : Pairs(pairing)

LEMMA PairedIsProperty == Paired => CancelledInPairs
BY DEF Paired, Pairs, Passed, CancelledInPairs

LEMMA PassedNext ==
  ASSUME cancel_idx \in Nat \ {0}, cancel_idx' = cancel_idx + 1,
         transactions' = transactions
  PROVE  /\ Passed' = IF transactions[cancel_idx].label = "Cancel Buy"
                      THEN Passed \cup {cancel_idx} ELSE Passed
         /\ cancel_idx \notin Passed
<1>1. 1 .. (cancel_idx' - 1) = (1 .. (cancel_idx - 1)) \cup {cancel_idx}
  OBVIOUS
<1>2. Passed' = {c \in 1 .. (cancel_idx' - 1) : transactions[c].label = "Cancel Buy"}
  BY DEF Passed
<1>3. cancel_idx \notin 1 .. (cancel_idx - 1)
  OBVIOUS
<1> QED
  BY <1>1, <1>2, <1>3, Zenon DEF Passed

LEMMA MatchKept ==
  ASSUME transactions' = transactions, NEW b, NEW c, IsMatchingBuy(b, c)
  PROVE  IsMatchingBuy(b, c)'
BY DEF IsMatchingBuy

LEMMA PairedOne ==
  ASSUME TypeInv, OrderInv, Paired, CancelBuy
  PROVE  Paired'
<1> DEFINE c == cancel_idx
           m == MatchingBuy(cancel_idx)
<1>1. /\ phase = "cancel" /\ cancel_idx' = c + 1 /\ consumed' = consumed \cup {c, m}
      /\ transactions' = transactions
      /\ transactions[c].label = "Cancel Buy"
  BY DEF CancelBuy, Searching, IsCancellation, KeepsSearch, optionVars
<1>2. /\ c \in Nat \ {0} /\ m \in Nat /\ m \notin consumed /\ IsMatchingBuy(m, c)
      /\ transactions[c].posted - transactions[m].posted \in 0 .. CancelBuySearchDays
  BY <1>1, MatchIsEarlier DEF CancelBuy, TypeInv
<1> HIDE DEF c, m
<1>3. Passed' = Passed \cup {c} /\ c \notin Passed
  BY <1>1, <1>2, PassedNext DEF c
<1>4. PICK pairing \in [Passed -> consumed \ Passed] : Pairs(pairing)
  BY <1>1 DEF Paired
<1>5. Passed \subseteq consumed
  BY <1>1 DEF Paired
<1>6. \A d \in Passed : /\ pairing[d] \in consumed \ Passed
                        /\ transactions[pairing[d]].label = "Buy"
  BY <1>4 DEF Pairs, IsMatchingBuy
<1>7. transactions[m].label = "Buy"
  BY <1>2 DEF IsMatchingBuy
<1>8. m \notin Passed /\ m # c
  BY <1>1, <1>7 DEF Passed
<1>9. c \notin consumed \ Passed
  <2> SUFFICES ASSUME c \in consumed \ Passed
               PROVE  FALSE
    OBVIOUS
  <2>1. PICK d \in Passed : pairing[d] = c
    BY <1>4 DEF Pairs
  <2> QED
    BY <1>1, <1>6, <2>1
<1>10. consumed' \ Passed' = (consumed \ Passed) \cup {m}
  BY <1>1, <1>3, <1>8, <1>9
<1>11. \E longer \in [Passed' -> consumed' \ Passed'] :
          longer[c] = m /\ \A d \in Passed : longer[d] = pairing[d]
  <2> DEFINE longer == [d \in Passed' |-> IF d = c THEN m ELSE pairing[d]]
  <2>1. /\ longer \in [Passed' -> consumed' \ Passed'] /\ longer[c] = m
        /\ \A d \in Passed : longer[d] = pairing[d]
    BY <1>3, <1>4, <1>10
  <2> HIDE DEF longer
  <2> QED
    BY <2>1
<1>14. PICK longer \in [Passed' -> consumed' \ Passed'] :
          longer[c] = m /\ \A d \in Passed : longer[d] = pairing[d]
  BY <1>11
<1>12. Pairs(longer)'
  <2>1. {longer[d] : d \in Passed'} = consumed' \ Passed'
    <3>1. {pairing[d] : d \in Passed} = consumed \ Passed
      BY <1>4 DEF Pairs
    <3> QED
      BY <1>3, <1>10, <1>14, <3>1
  <2>2. \A d, e \in Passed' : longer[d] = longer[e] => d = e
    <3>1. \A d, e \in Passed : pairing[d] = pairing[e] => d = e
      BY <1>4 DEF Pairs
    <3>2. \A d \in Passed : pairing[d] # m
      BY <1>2, <1>6
    <3> QED
      BY <1>3, <1>14, <3>1, <3>2
  <2>3. \A d \in Passed' :
          /\ IsMatchingBuy(longer[d], d)'
          /\ transactions[d].posted - transactions[longer[d]].posted
                  \in 0 .. CancelBuySearchDays
    <3>1. \A d \in Passed :
            /\ IsMatchingBuy(pairing[d], d)
            /\ transactions[d].posted - transactions[pairing[d]].posted
                  \in 0 .. CancelBuySearchDays
      BY <1>4 DEF Pairs
    <3> QED
      BY <1>1, <1>2, <1>3, <1>14, <3>1, MatchKept
  <2> QED
    BY <1>1, <2>1, <2>2, <2>3 DEF Pairs
<1>13. Passed' \subseteq consumed'
  BY <1>1, <1>3, <1>5
<1> QED
  BY <1>14, <1>12, <1>13 DEF Paired

LEMMA PairedStep ==
  ASSUME TypeInv, OrderInv, Paired, [Next]_vars
  PROVE  Paired'
<1>1. CASE EndMerge
  <2>1. cancel_idx' = 1 /\ consumed' = {}
    BY <1>1 DEF EndMerge
  <2>2. Passed' = {}
    BY <2>1 DEF Passed
  <2> DEFINE none == [c \in {} |-> 0]
  <2>3. none \in [{} -> {} \ {}]
    OBVIOUS
  <2>4. Pairs(none)'
    BY <2>1, <2>2 DEF Pairs
  <2> HIDE DEF none
  <2> QED
    BY <2>1, <2>2, <2>3, <2>4 DEF Paired
<1>2. CASE CancelBuy
  BY <1>2, PairedOne
<1>3. CASE PassTransaction
  <2>1. /\ phase = "cancel" /\ cancel_idx' = cancel_idx + 1 /\ consumed' = consumed
        /\ transactions' = transactions
        /\ transactions[cancel_idx].label # "Cancel Buy"
    BY <1>3 DEF PassTransaction, Searching, IsCancellation, KeepsSearch, optionVars
  <2>2. Passed' = Passed
    <3>1. cancel_idx \in Nat \ {0}
      BY <2>1 DEF TypeInv
    <3> QED
      BY <2>1, <3>1, PassedNext
  <2>3. PICK pairing \in [Passed -> consumed \ Passed] : Pairs(pairing)
    BY <2>1 DEF Paired
  <2>4. Pairs(pairing)'
    BY <2>1, <2>2, <2>3, MatchKept DEF Pairs
  <2>5. Passed \subseteq consumed
    BY <2>1 DEF Paired
  <2> QED
    BY <2>1, <2>2, <2>3, <2>4, <2>5 DEF Paired
<1>4. CASE UNCHANGED vars
  <2>1. /\ phase' = phase /\ cancel_idx' = cancel_idx /\ consumed' = consumed
        /\ transactions' = transactions
    BY <1>4 DEF vars, optionVars, exportVars
  <2>2. Passed' = Passed
    BY <2>1 DEF Passed
  <2>3. ASSUME NEW pairing, Pairs(pairing)
        PROVE  Pairs(pairing)'
    BY <2>1, <2>2, <2>3, MatchKept DEF Pairs
  <2> QED
    BY <2>1, <2>2, <2>3 DEF Paired
<1>5. CASE phase' # "cancel"
  BY <1>5 DEF Paired
<1>6. CASE ReconcileWrittenOptions
  <2>1. phase' \in {"scan", "allocate", "settle", "done", "refused"}
    BY <1>6, ReconcileKeepsRows
  <2>2. phase' # "cancel"
    BY <2>1
  <2> QED
    BY <2>2, <1>5
<1>7. CASE \/ LoadAwardFile \/ ReadRows \/ RefuseRow \/ RejectOverlap \/ AcceptExports
           \/ KeepRow \/ JoinCashMerger \/ JoinFullRedemption \/ RefuseHalf \/ NextFile
           \/ MergeExport \/ RefuseCancellation \/ RejectSplit \/ FinalizeTransactions
           \/ LoadDirectory
  <2>1. phase' # "cancel"
    BY <1>7 DEF LoadAwardFile, ReadRows, RefuseRow, RejectOverlap, AcceptExports,
       KeepRow, JoinCashMerger, JoinFullRedemption, RefuseHalf, NextFile, MergeExport,
       RefuseCancellation, RejectSplit, FinalizeTransactions, LoadDirectory,
       Refuse, KeepsUnify, Unifying, Begin
  <2> QED
    BY <1>5, <2>1
<1> QED
  BY <1>1, <1>2, <1>3, <1>4, <1>6, <1>7 DEF Next

\* Cancelled purchases leave in pairs, for every account Schwab may export and
\* however it is cut into files: the rows the search runs over are the whole
\* account, newest first, whichever file each came from.
THEOREM PurchasesCancelInPairs == Spec => []CancelledInPairs
<1>1. Init => Paired
  BY DEF Init, Paired
<1>2. TypeInv /\ OrderInv /\ Paired /\ [Next]_vars => Paired'
  BY PairedStep
<1>3. Paired => CancelledInPairs
  BY PairedIsProperty
<1> QED
  BY <1>1, <1>2, <1>3, RowsStayInOrder, PTL DEF Spec

(***************************************************************************)
(* The written options.                                                    *)
(***************************************************************************)

-----------------------------------------------------------------------------
(* What the lists of the reconciliation hold. *)

Lot == [row : Nat, contract : Contract, day : Int, quantity : Nat, remaining : Nat,
        assigned : Int, close_cost : Int]
Allocation == Nat \X (Nat \ {0})
Assignment == [row : Nat, day : Int, contract : Contract, quantity : Nat,
               allocations : Seq(Allocation)]

OptionTypes ==
  /\ scanned \in Nat
  /\ open_lots \in Seq(Lot)
  /\ lot \in Nat
  /\ needed \in Nat
  /\ allocations \in Seq(Allocation)
  /\ assignments \in Seq(Assignment)
  /\ settled_share_rows \in Seq(Nat)

\* The row being read, once it is known to end contracts.
Ending(r) ==
  /\ r.contract # Missing /\ ValidWrittenOptionRow(r) /\ r.label \in OptionOutcomes

ReadingInv ==
  /\ phase \in {"scan", "allocate"} =>
        scanned <= Len(transactions) /\ settled_share_rows = <<>>
  /\ phase = "settle" => scanned = Len(transactions)
  /\ phase = "allocate" => /\ scanned < Len(transactions)
                           /\ Ending(current)
                           /\ lot # 0
  /\ phase \in {"scan", "settle"} => allocations = <<>>
  /\ phase \in {"scan", "allocate", "settle"} => OldestFirst(transactions)

\* A row that is about an option and valid states how many contracts.
LEMMA ValidRow ==
  ASSUME NEW r \in DatedRow, r.contract # Missing, ValidWrittenOptionRow(r)
  PROVE  /\ r.contract \in Contract
         /\ r.quantity \in Nat \ {0}
         /\ r.day = r.posted /\ r.posted \in Int
         /\ r.label \in {"Sell to Open", "Buy to Close"} => r.amount \in Int
<1>1. /\ r.contract \in Contract /\ r.quantity \in Int /\ r.quantity > 0
      /\ r.posted \in Int
  BY DEF DatedRow, Row, ValidWrittenOptionRow
<1>2. r.label # "Stock Plan Activity"
  BY DEF ValidWrittenOptionRow
<1>3. ASSUME r.label \in {"Sell to Open", "Buy to Close"}
      PROVE  r.amount \in Int
  <2>1. r.price \in Int /\ OptionAssignmentShares \in Int
    <3>1. r.price \in Int \cup {Missing}
      BY DEF DatedRow, Row
    <3>2. r.price # Missing
      BY <1>3 DEF ValidWrittenOptionRow
    <3> QED
      BY <3>1, <3>2, OptionAssumption
  <2>2. Premium(r) \in Int
    BY <1>1, <2>1 DEF Premium
  <2>3. r.amount = Premium(r) \/ r.amount = -Premium(r)
    BY <1>3 DEF ValidWrittenOptionRow
  <2> QED
    BY <2>2, <2>3
<1>4. r.day = r.posted
  BY <1>2 DEF DatedRow
<1>5. r.label \in {"Sell to Open", "Buy to Close"} => r.amount \in Int
  BY <1>3
<1>6. r.quantity \in Nat \ {0}
  BY <1>1
<1> QED
  BY <1>1, <1>4, <1>5, <1>6

LEMMA LotOf ==
  ASSUME OptionTypes
  PROVE  /\ \A i \in DOMAIN open_lots :
               /\ open_lots[i] \in Lot
               /\ open_lots[i].contract \in Contract
               /\ open_lots[i].row \in Nat /\ open_lots[i].day \in Int
               /\ open_lots[i].quantity \in Nat /\ open_lots[i].remaining \in Nat
               /\ open_lots[i].assigned \in Int /\ open_lots[i].close_cost \in Int
         /\ DOMAIN open_lots = 1 .. Len(open_lots) /\ Len(open_lots) \in Nat
<1>1. open_lots \in Seq(Lot)
  BY DEF OptionTypes
<1>2. /\ \A i \in DOMAIN open_lots : open_lots[i] \in Lot
      /\ DOMAIN open_lots = 1 .. Len(open_lots) /\ Len(open_lots) \in Nat
  BY <1>1
<1>3. \A l \in Lot : /\ l.contract \in Contract
                     /\ l.row \in Nat /\ l.day \in Int
                     /\ l.quantity \in Nat /\ l.remaining \in Nat
                     /\ l.assigned \in Int /\ l.close_cost \in Int
  BY DEF Lot
<1> QED
  BY <1>2, <1>3

LEMMA AllocationOf ==
  ASSUME NEW list \in Seq(Allocation)
  PROVE  /\ \A k \in DOMAIN list : /\ list[k] \in Allocation
                                   /\ list[k][1] \in Nat /\ list[k][2] \in Nat \ {0}
         /\ DOMAIN list = 1 .. Len(list) /\ Len(list) \in Nat
         /\ IsFiniteSet(DOMAIN list)
<1>1. /\ \A k \in DOMAIN list : list[k] \in Allocation
      /\ DOMAIN list = 1 .. Len(list) /\ Len(list) \in Nat
  OBVIOUS
<1>2. \A a \in Allocation : a[1] \in Nat /\ a[2] \in Nat \ {0}
  BY DEF Allocation
<1>3. IsFiniteSet(1 .. Len(list))
  BY <1>1, FS_Interval
<1>4. IsFiniteSet(DOMAIN list)
  BY <1>1, <1>3, Zenon
<1> QED
  BY <1>1, <1>2, <1>4

LEMMA Quotient ==
  ASSUME NEW x \in Int, NEW y \in Int, NEW q \in Nat \ {0}
  PROVE  (-x * y) \div q \in Int
<1>1. (-x * y) \in Int
  OBVIOUS
<1> QED
  BY <1>1

LEMMA CurrentRow ==
  ASSUME TypeInv, OptionTypes, scanned < Len(transactions)
  PROVE  /\ current \in DatedRow
         /\ scanned + 1 \in DOMAIN transactions
<1>1. transactions \in Seq(DatedRow) /\ scanned \in Nat
  BY DEF TypeInv, OptionTypes
<1>2. scanned + 1 \in 1 .. Len(transactions)
  BY <1>1
<1> QED
  BY <1>1, <1>2 DEF current

\* Shares of an amount whose last takes what the others left make up the amount.
LEMMA SharesAddUp ==
  ASSUME NEW n \in Nat, NEW amount \in Int,
         NEW share, \A k \in 1 .. n : share[k] \in Int,
         NEW cost, \A k \in 1 .. n :
           cost[k] = IF k = n THEN amount - SumFunctionOnSet(share, 1 .. (k - 1)) ELSE share[k]
  PROVE  /\ \A k \in 1 .. n : cost[k] \in Int
         /\ n # 0 => SumFunctionOnSet(cost, 1 .. n) = amount
<1>1. CASE n = 0
  BY <1>1
<1>2. CASE n # 0
  <2> DEFINE S == 1 .. (n - 1)
             before == SumFunctionOnSet(share, S)
  <2>1. n - 1 \in Int /\ n \in 1 .. n /\ n \notin S /\ 1 .. n = S \cup {n}
    BY <1>2
  <2>2. IsFiniteSet(S)
    BY <2>1, FS_Interval
  <2>3. \A k \in S : k \in 1 .. n /\ k # n
    BY <2>1
  <2>4. cost[n] = amount - before
    BY <2>1
  <2>5. \A k \in S : share[k] \in Int /\ cost[k] = share[k]
    BY <2>3
  <2> HIDE DEF S
  <2>6. before \in Int
    BY <2>2, <2>5, SumType
  <2>7. cost[n] \in Int
    BY <2>4, <2>6
  <2>8. SumFunctionOnSet(cost, S) = before
    BY <2>2, <2>5, SumSame
  <2>9. \A k \in S : cost[k] \in Int
    BY <2>5
  <2>10. SumFunctionOnSet(cost, S \cup {n}) = SumFunctionOnSet(cost, S) + cost[n]
    BY <2>1, <2>2, <2>7, <2>9, SumAdd
  <2>11. SumFunctionOnSet(cost, 1 .. n) = SumFunctionOnSet(cost, S) + cost[n]
    BY <2>1, <2>10
  <2>12. SumFunctionOnSet(cost, 1 .. n) = amount
    <3> DEFINE total == SumFunctionOnSet(cost, 1 .. n)
               last == cost[n]
    <3>1. total = before + last /\ last = amount - before
      BY <2>4, <2>8, <2>11
    <3> HIDE DEF before, total, last
    <3> QED
      BY <2>6, <3>1 DEF total
  <2>13. \A k \in 1 .. n : cost[k] \in Int
    BY <2>1, <2>7, <2>9
  <2> QED
    BY <2>12, <2>13
<1> QED
  BY <1>1, <1>2

IsClose(r) == r.label = "Buy to Close"

\* What a close cost is an integer at each lot, and its whole price over all.
LEMMA CostType ==
  ASSUME TypeInv, OptionTypes, ReadingInv, phase = "allocate", IsClose(current)
  PROVE  /\ \A k \in DOMAIN allocations : CloseCost[k] \in Int
         /\ current.amount \in Int
         /\ DOMAIN allocations # {} =>
               SumFunctionOnSet(CloseCost, DOMAIN allocations) = -current.amount
<1> DEFINE price == current.amount
           amount == -price
           count == current.quantity
           n == Len(allocations)
           share == CostShare
           cost == CloseCost
<1>1. current \in DatedRow /\ Ending(current)
  BY CurrentRow DEF ReadingInv
<1>2. count \in Nat \ {0} /\ price \in Int
  BY <1>1, ValidRow DEF Ending, IsClose
<1>3. amount \in Int
  <2> HIDE DEF price
  <2> QED
    BY <1>2
<1>4. /\ n \in Nat /\ DOMAIN allocations = 1 .. n
      /\ \A k \in DOMAIN allocations : allocations[k][2] \in Nat
  BY AllocationOf DEF OptionTypes
<1>5. \A k \in 1 .. n : share[k] \in Int
  <2> SUFFICES ASSUME NEW k \in 1 .. n
               PROVE  share[k] \in Int
    OBVIOUS
  <2> DEFINE taken == allocations[k][2]
  <2>1. k \in DOMAIN allocations
    BY <1>4
  <2>2. taken \in Nat
    BY <1>4, <2>1
  <2>3. share[k] = (-price * taken) \div count
    BY <2>1 DEF CostShare
  <2> HIDE DEF taken, count, price, share
  <2>4. taken \in Int
    BY <2>2
  <2> QED
    BY <1>2, <2>3, <2>4, Quotient
<1>6. \A k \in 1 .. n :
        cost[k] = IF k = n THEN amount - SumFunctionOnSet(share, 1 .. (k - 1)) ELSE share[k]
  BY <1>4 DEF CloseCost
<1> HIDE DEF price, amount, n, share, cost
<1>7. /\ \A k \in 1 .. n : cost[k] \in Int
      /\ n # 0 => SumFunctionOnSet(cost, 1 .. n) = amount
  BY <1>3, <1>4, <1>5, <1>6, SharesAddUp
<1>8. DOMAIN allocations # {} => n # 0
  BY <1>4
<1> QED
  BY <1>2, <1>4, <1>7, <1>8 DEF cost, amount, price

LEMMA TakenType ==
  ASSUME TypeInv, OptionTypes, ReadingInv, phase = "allocate", lot <= Len(open_lots),
         Available, needed > 0
  PROVE  /\ lot \in DOMAIN open_lots /\ open_lots[lot] \in Lot
         /\ Taken \in Nat \ {0} /\ Taken <= needed /\ Taken <= open_lots[lot].remaining
         /\ Taken = needed \/ Taken = open_lots[lot].remaining
<1>1. /\ open_lots \in Seq(Lot) /\ lot \in 1 .. Len(open_lots) /\ needed \in Nat
  BY DEF OptionTypes, ReadingInv
<1>2. open_lots[lot] \in Lot /\ open_lots[lot].remaining \in Nat
  BY <1>1, LotOf
<1>3. open_lots[lot].remaining # 0
  BY DEF Available
<1> QED
  BY <1>1, <1>2, <1>3 DEF Taken

-----------------------------------------------------------------------------
(* Types through every step of the reconciliation. *)

LEMMA LotsType ==
  ASSUME OptionTypes, NEW change,
         \A i \in DOMAIN open_lots : change[i] \in Lot,
         DOMAIN change = DOMAIN open_lots
  PROVE  [i \in DOMAIN open_lots |-> change[i]] \in Seq(Lot)
<1>1. DOMAIN open_lots = 1 .. Len(open_lots) /\ Len(open_lots) \in Nat
  BY DEF OptionTypes
<1> QED
  BY <1>1

LEMMA OpenTyped ==
  ASSUME TypeInv, OptionTypes, ReadingInv, OpenLot
  PROVE  OptionTypes' /\ ReadingInv'
<1> DEFINE new == [row |-> scanned + 1, contract |-> current.contract, day |-> current.day,
             quantity |-> current.quantity, remaining |-> current.quantity,
             assigned |-> 0, close_cost |-> 0]
<1>1. /\ phase = "scan" /\ scanned < Len(transactions) /\ current.contract # Missing
      /\ ValidWrittenOptionRow(current)
      /\ open_lots' = Append(open_lots, new) /\ scanned' = scanned + 1
      /\ UNCHANGED <<phase, transactions, lot, needed, allocations, assignments,
                     settled_share_rows, reconciled>>
  BY DEF OpenLot, Scanning
<1>2. /\ current.contract \in Contract /\ current.quantity \in Nat \ {0}
      /\ current.day \in Int /\ scanned \in Nat
  BY <1>1, CurrentRow, ValidRow DEF OptionTypes
<1>3. new \in Lot
  BY <1>2 DEF Lot
<1> HIDE DEF new
<1>4. open_lots' \in Seq(Lot)
  BY <1>1, <1>3 DEF OptionTypes
<1>5. Len(transactions) \in Nat /\ scanned' <= Len(transactions) /\ scanned' \in Nat
  BY <1>1, <1>2 DEF TypeInv
<1> QED
  BY <1>1, <1>4, <1>5 DEF OptionTypes, ReadingInv

LEMMA TakeTyped ==
  ASSUME TypeInv, OptionTypes, ReadingInv, TakeFromLot
  PROVE  OptionTypes' /\ ReadingInv'
<1>1. /\ phase = "allocate" /\ needed > 0 /\ lot <= Len(open_lots) /\ Available
      /\ open_lots' = [open_lots EXCEPT ![lot].remaining = @ - Taken]
      /\ allocations' = Append(allocations, <<lot, Taken>>)
      /\ needed' = needed - Taken /\ lot' = lot + 1
      /\ UNCHANGED <<phase, transactions, scanned, assignments, settled_share_rows,
                     reconciled>>
  BY DEF TakeFromLot, Allocating
<1>2. /\ lot \in DOMAIN open_lots /\ open_lots[lot] \in Lot
      /\ Taken \in Nat \ {0} /\ Taken <= needed /\ Taken <= open_lots[lot].remaining
  BY <1>1, TakenType
<1>3. open_lots \in Seq(Lot) /\ needed \in Nat /\ lot \in Nat
  BY DEF OptionTypes
<1> DEFINE left == open_lots[lot].remaining - Taken
           new == [open_lots[lot] EXCEPT !.remaining = left]
<1>4. new \in Lot
  <2>1. open_lots[lot].remaining \in Nat
    BY <1>2 DEF Lot
  <2>2. left \in Nat
    BY <1>2, <2>1
  <2> HIDE DEF left
  <2> QED
    BY <1>2, <2>2 DEF Lot
<1>5. open_lots' = [open_lots EXCEPT ![lot] = new]
  BY <1>1
<1> HIDE DEF new
<1>6. open_lots' \in Seq(Lot)
  BY <1>2, <1>3, <1>4, <1>5
<1>7. allocations' \in Seq(Allocation)
  BY <1>1, <1>2, <1>3 DEF OptionTypes, Allocation
<1>8. needed' \in Nat /\ lot' \in Nat /\ lot' # 0
  BY <1>1, <1>2, <1>3
<1>9. OptionTypes'
  BY <1>1, <1>6, <1>7, <1>8 DEF OptionTypes
<1>10. current' = current
  BY <1>1 DEF current
<1>11. ReadingInv'
  BY <1>1, <1>8, <1>10 DEF ReadingInv, Ending
<1> QED
  BY <1>9, <1>11

\* What RecordClose and RecordAssignment leave of the outcome.
LEMMA EndTyped ==
  ASSUME TypeInv, OptionTypes, ReadingInv, Allocated, EndOutcome,
         open_lots' \in Seq(Lot), assignments' \in Seq(Assignment)
  PROVE  OptionTypes' /\ ReadingInv'
<1>1. /\ phase = "allocate" /\ phase' = "scan" /\ scanned' = scanned + 1 /\ lot' = 0
      /\ allocations' = <<>>
      /\ UNCHANGED <<transactions, needed, settled_share_rows, reconciled>>
  BY DEF Allocated, EndOutcome
<1>2. scanned \in Nat /\ Len(transactions) \in Nat /\ scanned < Len(transactions)
  BY <1>1 DEF OptionTypes, TypeInv, ReadingInv
<1>3. <<>> \in Seq(Allocation)
  OBVIOUS
<1>4. OptionTypes'
  BY <1>1, <1>2, <1>3 DEF OptionTypes
<1>5. ReadingInv'
  BY <1>1, <1>2 DEF ReadingInv
<1> QED
  BY <1>4, <1>5

LEMMA CloseTyped ==
  ASSUME TypeInv, OptionTypes, ReadingInv, RecordClose
  PROVE  OptionTypes' /\ ReadingInv'
<1> DEFINE cost(i) == open_lots[i].close_cost
                        + SumFunctionOnSet(CloseCost, TakenFrom(allocations, i))
           change == [i \in DOMAIN open_lots |->
                        [open_lots[i] EXCEPT !.close_cost = cost(i)]]
<1>1. /\ Allocated /\ EndOutcome /\ phase = "allocate" /\ current.label = "Buy to Close"
      /\ open_lots' = change /\ assignments' = assignments
  BY DEF RecordClose, Allocated
<1>2. \A i \in DOMAIN open_lots : change[i] \in Lot
  <2> SUFFICES ASSUME NEW i \in DOMAIN open_lots
               PROVE  change[i] \in Lot
    OBVIOUS
  <2>1. open_lots[i] \in Lot
    BY DEF OptionTypes
  <2>2. SumFunctionOnSet(CloseCost, TakenFrom(allocations, i)) \in Int
    <3>1. TakenFrom(allocations, i) \in SUBSET (DOMAIN allocations)
      BY DEF TakenFrom
    <3>2. DOMAIN allocations = 1 .. Len(allocations) /\ Len(allocations) \in Nat
      BY DEF OptionTypes
    <3>3. IsFiniteSet(TakenFrom(allocations, i))
      <4>1. IsFiniteSet(1 .. Len(allocations))
        BY <3>2, FS_Interval
      <4> QED
        BY <3>1, <3>2, <4>1, FS_Subset
    <3>4. \A k \in TakenFrom(allocations, i) : CloseCost[k] \in Int
      BY <1>1, <3>1, CostType DEF IsClose
    <3> QED
      BY <3>3, <3>4, SumType
  <2>3. cost(i) \in Int
    <3>1. open_lots[i].close_cost \in Int
      BY <2>1 DEF Lot
    <3> QED
      BY <2>2, <3>1
  <2>4. change[i] = [open_lots[i] EXCEPT !.close_cost = cost(i)]
    OBVIOUS
  <2> HIDE DEF cost, change
  <2> QED
    BY <2>1, <2>3, <2>4 DEF Lot
<1>3. change = [i \in DOMAIN open_lots |-> change[i]] /\ DOMAIN change = DOMAIN open_lots
  OBVIOUS
<1> HIDE DEF change
<1>4. open_lots' \in Seq(Lot)
  BY <1>1, <1>2, <1>3, LotsType
<1>5. assignments' \in Seq(Assignment)
  BY <1>1 DEF OptionTypes
<1> QED
  BY <1>1, <1>4, <1>5, EndTyped

LEMMA AssignTyped ==
  ASSUME TypeInv, OptionTypes, ReadingInv, RecordAssignment
  PROVE  OptionTypes' /\ ReadingInv'
<1> DEFINE first(i) == CHOOSE k \in TakenFrom(allocations, i) : TRUE
           taken(i) == IF TakenFrom(allocations, i) # {}
                       THEN open_lots[i].assigned + allocations[first(i)][2]
                       ELSE open_lots[i].assigned
           change == [i \in DOMAIN open_lots |->
                        [open_lots[i] EXCEPT !.assigned = taken(i)]]
           new == [row |-> scanned + 1, day |-> current.day, contract |-> current.contract,
                   quantity |-> current.quantity, allocations |-> allocations]
<1>1. /\ Allocated /\ EndOutcome /\ phase = "allocate"
      /\ open_lots' = change /\ assignments' = Append(assignments, new)
  BY DEF RecordAssignment, Allocated
<1>2. \A i \in DOMAIN open_lots : change[i] \in Lot
  <2> SUFFICES ASSUME NEW i \in DOMAIN open_lots
               PROVE  change[i] \in Lot
    OBVIOUS
  <2>1. open_lots[i] \in Lot /\ open_lots[i].assigned \in Int
    BY LotOf
  <2>2. TakenFrom(allocations, i) # {} => allocations[first(i)][2] \in Int
    <3>1. TakenFrom(allocations, i) # {} => first(i) \in DOMAIN allocations
      BY DEF TakenFrom
    <3> HIDE DEF first
    <3>2. \A k \in DOMAIN allocations : allocations[k][2] \in Int
      BY AllocationOf DEF OptionTypes
    <3> QED
      BY <3>1, <3>2
  <2> HIDE DEF first
  <2>3. taken(i) \in Int
    BY <2>1, <2>2
  <2>4. change[i] = [open_lots[i] EXCEPT !.assigned = taken(i)]
    OBVIOUS
  <2> HIDE DEF taken, change
  <2> QED
    BY <2>1, <2>3, <2>4 DEF Lot
<1>3. change = [i \in DOMAIN open_lots |-> change[i]] /\ DOMAIN change = DOMAIN open_lots
  OBVIOUS
<1> HIDE DEF change
<1>4. open_lots' \in Seq(Lot)
  BY <1>1, <1>2, <1>3, LotsType
<1>5. new \in Assignment
  <2>1. current \in DatedRow /\ Ending(current) /\ scanned \in Nat
    BY <1>1, CurrentRow DEF ReadingInv, OptionTypes
  <2>2. /\ current.contract \in Contract /\ current.quantity \in Nat /\ current.day \in Int
        /\ allocations \in Seq(Allocation)
    BY <2>1, ValidRow DEF Ending, OptionTypes
  <2> QED
    BY <2>1, <2>2 DEF Assignment
<1> HIDE DEF new
<1>6. assignments' \in Seq(Assignment)
  BY <1>1, <1>5 DEF OptionTypes
<1> QED
  BY <1>1, <1>4, <1>6, EndTyped

-----------------------------------------------------------------------------
(* The steps outside the reconciliation, and the refusals that end it. *)

lifecycles == <<scanned, open_lots, lot, needed, allocations, assignments, settled_share_rows>>

Elsewhere ==
  /\ phase' \in {"award", "read", "unify", "merge", "cancel", "refused"}
  /\ UNCHANGED lifecycles \/ StartReconciliation(<<>>)

ReadingStep ==
  \/ PassRow \/ OpenLot \/ StartOutcome \/ PassLot \/ TakeFromLot
  \/ RecordClose \/ RecordExpiry \/ RecordAssignment
  \/ EndScan \/ SettleAssignment \/ EmitOptionTransactions

LEMMA NextCases == Next => Elsewhere \/ FinalizeTransactions \/ ReadingStep
<1> SUFFICES ASSUME Next
             PROVE  Elsewhere \/ FinalizeTransactions \/ ReadingStep
  OBVIOUS
<1>1. CASE LoadAwardFile \/ ReadRows \/ AcceptExports \/ RefuseRow \/ RejectOverlap
  BY <1>1 DEF LoadAwardFile, ReadRows, AcceptExports, AllRead, RefuseRow, RejectOverlap,
              Refuse, Elsewhere, lifecycles, optionVars
<1>2. CASE KeepRow \/ JoinCashMerger \/ JoinFullRedemption \/ RefuseHalf
  BY <1>2 DEF KeepRow, JoinCashMerger, JoinFullRedemption, RefuseHalf, Unifying,
              KeepsUnify, Refuse, Elsewhere, lifecycles, optionVars
<1>3. CASE NextFile
  BY <1>3 DEF NextFile, Elsewhere, lifecycles, optionVars
<1>4. CASE MergeExport \/ EndMerge
  BY <1>4 DEF MergeExport, EndMerge, Elsewhere, lifecycles, optionVars
<1>5. CASE PassTransaction \/ CancelBuy \/ RefuseCancellation \/ RejectSplit
  BY <1>5 DEF PassTransaction, CancelBuy, RefuseCancellation, RejectSplit, Searching,
              KeepsSearch, Refuse, Elsewhere, lifecycles, optionVars
<1>6. CASE FinalizeTransactions
  BY <1>6
<1>7. CASE ReconcileWrittenOptions
  <2>1. CASE RefuseOptionRow \/ RefuseUncovered \/ RefuseSecondAssignment
             \/ RefuseSettlement
    BY <2>1 DEF RefuseOptionRow, RefuseUncovered, RefuseSecondAssignment,
                RefuseSettlement, RefuseScan, Elsewhere, lifecycles, optionVars
  <2> QED
    BY <1>7, <2>1 DEF ReconcileWrittenOptions, ReadingStep
<1>8. CASE LoadDirectory
  <2>1. phase' = "award" /\ StartReconciliation(<<>>)
    BY <1>8 DEF LoadDirectory, Begin
  <2> QED
    BY <2>1 DEF Elsewhere
<1> QED
  BY <1>1, <1>2, <1>3, <1>4, <1>5, <1>6, <1>7, <1>8 DEF Next

LEMMA StartReads ==
  ASSUME NEW list, StartReconciliation(list)
  PROVE  OptionTypes'
BY DEF StartReconciliation, OptionTypes

LEMMA ElsewhereReads ==
  ASSUME OptionTypes, Elsewhere
  PROVE  OptionTypes' /\ ReadingInv'
<1>1. ReadingInv'
  BY DEF Elsewhere, ReadingInv
<1>2. CASE UNCHANGED lifecycles
  BY <1>1, <1>2 DEF OptionTypes, lifecycles
<1> QED
  BY <1>1, <1>2, StartReads DEF Elsewhere

LEMMA FinalizeReads ==
  ASSUME TypeInv, OrderInv, FinalizeTransactions
  PROVE  OptionTypes' /\ ReadingInv'
<1>1. phase = "cancel" /\ phase' = "scan" /\ StartReconciliation(Kept)
  BY DEF FinalizeTransactions, EndSearch
<1>2. Kept \in Seq(DatedRow) /\ OldestFirst(Kept)
  BY <1>1, KeptOldestFirst DEF TypeInv, OrderInv
<1>3. transactions' = Kept /\ scanned' = 0 /\ settled_share_rows' = <<>> /\ allocations' = <<>>
  BY <1>1 DEF StartReconciliation
<1>4. OldestFirst(transactions)' /\ Len(transactions') \in Nat
  BY <1>2, <1>3 DEF OldestFirst
<1>5. ReadingInv'
  BY <1>1, <1>3, <1>4 DEF ReadingInv
<1>6. OptionTypes'
  BY <1>1 DEF StartReconciliation, OptionTypes
<1> QED
  BY <1>5, <1>6

LEMMA OtherStepsTyped ==
  ASSUME TypeInv, OptionTypes, ReadingInv,
         \/ PassRow \/ StartOutcome \/ PassLot \/ EndScan
         \/ SettleAssignment \/ EmitOptionTransactions
  PROVE  OptionTypes' /\ ReadingInv'
<1> USE DEF OldestFirst
<1>1. Len(transactions) \in Nat /\ scanned \in Nat
  BY DEF TypeInv, OptionTypes
<1>2. CASE PassRow
  <2>1. /\ phase = "scan" /\ scanned < Len(transactions) /\ scanned' = scanned + 1
        /\ UNCHANGED <<phase, transactions, open_lots, lot, needed, allocations,
                       assignments, settled_share_rows, reconciled>>
    BY <1>2 DEF PassRow, Scanning
  <2>2. scanned' \in Nat /\ scanned' <= Len(transactions)
    BY <1>1, <2>1
  <2> QED
    BY <2>1, <2>2 DEF OptionTypes, ReadingInv
<1>3. CASE StartOutcome
  <2>1. /\ phase = "scan" /\ scanned < Len(transactions) /\ current.contract # Missing
        /\ ValidWrittenOptionRow(current) /\ current.label \in OptionOutcomes
        /\ phase' = "allocate" /\ lot' = 1 /\ needed' = current.quantity
        /\ allocations' = <<>>
        /\ UNCHANGED <<transactions, scanned, open_lots, assignments,
                       settled_share_rows, reconciled>>
    BY <1>3 DEF StartOutcome, Scanning
  <2>2. current.quantity \in Nat
    BY <2>1, CurrentRow, ValidRow
  <2>3. current' = current
    BY <2>1 DEF current
  <2>4. Ending(current) /\ Ending(current)'
    BY <2>1, <2>3 DEF Ending
  <2>5. OptionTypes'
    BY <2>1, <2>2 DEF OptionTypes
  <2> QED
    BY <2>1, <2>4, <2>5 DEF ReadingInv
<1>4. CASE PassLot
  <2>1. /\ phase = "allocate" /\ lot' = lot + 1 /\ lot \in Nat
        /\ UNCHANGED <<phase, transactions, scanned, open_lots, needed, allocations,
                       assignments, settled_share_rows, reconciled>>
    BY <1>4 DEF PassLot, Allocating, OptionTypes
  <2>2. current' = current /\ lot' \in Nat /\ lot' # 0
    BY <2>1 DEF current
  <2>3. Ending(current) /\ Ending(current)'
    BY <2>1, <2>2 DEF ReadingInv, Ending
  <2>4. OptionTypes'
    BY <2>1, <2>2 DEF OptionTypes
  <2> QED
    BY <2>1, <2>2, <2>3, <2>4 DEF ReadingInv
<1>5. CASE EndScan
  BY <1>1, <1>5 DEF EndScan, optionVars, OptionTypes, ReadingInv
<1>6. CASE SettleAssignment
  <2>1. PICK i \in DOMAIN transactions : settled_share_rows' = Append(settled_share_rows, i)
    BY <1>6 DEF SettleAssignment
  <2>2. /\ phase = "settle"
        /\ UNCHANGED <<phase, transactions, scanned, open_lots, lot, needed,
                       allocations, assignments, reconciled>>
    BY <1>6 DEF SettleAssignment, Settling
  <2>3. i \in Nat
    BY DEF TypeInv
  <2>4. settled_share_rows' \in Seq(Nat)
    BY <2>1, <2>3 DEF OptionTypes
  <2> QED
    BY <2>2, <2>4 DEF OptionTypes, ReadingInv
<1>7. CASE EmitOptionTransactions
  BY <1>7 DEF EmitOptionTransactions, OptionTypes, ReadingInv
<1> QED
  BY <1>2, <1>3, <1>4, <1>5, <1>6, <1>7

LEMMA ExpiryTyped ==
  ASSUME TypeInv, OptionTypes, ReadingInv, RecordExpiry
  PROVE  OptionTypes' /\ ReadingInv'
<1>1. /\ Allocated /\ EndOutcome /\ open_lots' = open_lots /\ assignments' = assignments
  BY DEF RecordExpiry
<1>2. open_lots' \in Seq(Lot) /\ assignments' \in Seq(Assignment)
  BY <1>1 DEF OptionTypes
<1> QED
  BY <1>1, <1>2, EndTyped

LEMMA OptionsTyped ==
  ASSUME TypeInv, OrderInv, OptionTypes, ReadingInv, Next
  PROVE  OptionTypes' /\ ReadingInv'
<1>1. CASE Elsewhere
  BY <1>1, ElsewhereReads
<1>2. CASE FinalizeTransactions
  BY <1>2, FinalizeReads
<1>3. CASE \/ PassRow \/ StartOutcome \/ PassLot \/ EndScan
           \/ SettleAssignment \/ EmitOptionTransactions
  BY <1>3, OtherStepsTyped
<1>4. CASE OpenLot
  BY <1>4, OpenTyped
<1>5. CASE TakeFromLot
  BY <1>5, TakeTyped
<1>6. CASE RecordClose
  BY <1>6, CloseTyped
<1>7. CASE RecordExpiry
  BY <1>7, ExpiryTyped
<1>8. CASE RecordAssignment
  BY <1>8, AssignTyped
<1> QED
  BY <1>1, <1>2, <1>3, <1>4, <1>5, <1>6, <1>7, <1>8, NextCases DEF ReadingStep

-----------------------------------------------------------------------------
(***************************************************************************)
(* Settlement.  Each assignment was given the only row that fitted among   *)
(* those the earlier assignments had left.  An assignment of rows that     *)
(* gives each its own therefore agrees with it one assignment after the    *)
(* other: what the first must take is not free for the second.             *)
(***************************************************************************)
Fits == [k \in DOMAIN assignments |-> {i \in DOMAIN transactions : Settles(assignments[k], i)}]

SettledInv ==
  /\ phase \in {"settle", "done"} =>
        /\ Len(settled_share_rows) <= Len(assignments)
        /\ \A k \in DOMAIN settled_share_rows, i \in DOMAIN transactions :
              i \in Fits[k] /\ (\A j \in 1 .. (k - 1) : settled_share_rows[j] # i)
                => i = settled_share_rows[k]
  /\ phase = "done" => Len(settled_share_rows) = Len(assignments)

LEMMA SettleStep ==
  ASSUME TypeInv, OptionTypes, SettledInv, SettleAssignment
  PROVE  SettledInv'
<1> DEFINE n == Len(settled_share_rows)
<1>1. PICK last \in DOMAIN transactions :
          /\ Settlements(settling) = {last}
          /\ settled_share_rows' = Append(settled_share_rows, last)
  BY DEF SettleAssignment
<1>2. /\ phase = "settle" /\ n < Len(assignments)
      /\ phase' = phase /\ transactions' = transactions /\ assignments' = assignments
  BY DEF SettleAssignment, Settling
<1>3. Fits' = Fits
  BY <1>2 DEF Fits, Settles, CouldSettle
<1>4. /\ n \in Nat /\ DOMAIN settled_share_rows = 1 .. n /\ Len(assignments) \in Nat
      /\ DOMAIN assignments = 1 .. Len(assignments)
      /\ settled_share_rows \in Seq(Nat) /\ last \in Nat
  BY DEF OptionTypes, TypeInv
<1>5. /\ Len(settled_share_rows') = n + 1
      /\ DOMAIN settled_share_rows' = 1 .. (n + 1)
      /\ \A k \in 1 .. n : settled_share_rows'[k] = settled_share_rows[k]
      /\ settled_share_rows'[n + 1] = last
  BY <1>1, <1>4
<1>6. n + 1 \in DOMAIN assignments /\ settling = assignments[n + 1]
  BY <1>2, <1>4 DEF settling
<1>7. \A i \in DOMAIN transactions :
        i \in Fits[n + 1] /\ (\A j \in 1 .. n : settled_share_rows[j] # i) => i = last
  <2> SUFFICES ASSUME NEW i \in DOMAIN transactions, i \in Fits[n + 1],
                      \A j \in 1 .. n : settled_share_rows[j] # i
               PROVE  i = last
    OBVIOUS
  <2>1. Settles(settling, i)
    BY <1>6 DEF Fits
  <2>2. i \notin UsedRows
    BY <1>4 DEF UsedRows
  <2> QED
    BY <1>1, <2>1, <2>2 DEF Settlements
<1>8. n + 1 <= Len(assignments) /\ (n + 1) - 1 = n
  BY <1>2, <1>4
<1>9. \A k \in 1 .. (n + 1), i \in DOMAIN transactions :
        i \in Fits[k] /\ (\A j \in 1 .. (k - 1) : settled_share_rows'[j] # i)
          => i = settled_share_rows'[k]
  <2> SUFFICES ASSUME NEW k \in 1 .. (n + 1), NEW i \in DOMAIN transactions,
                      i \in Fits[k],
                      \A j \in 1 .. (k - 1) : settled_share_rows'[j] # i
               PROVE  i = settled_share_rows'[k]
    OBVIOUS
  <2> HIDE DEF n
  <2>1. k \in Int /\ \A j \in 1 .. (k - 1) : j \in 1 .. n
    BY <1>4
  <2>2. \A j \in 1 .. (k - 1) : settled_share_rows[j] # i
    BY <1>5, <2>1
  <2>3. CASE k = n + 1
    BY <1>5, <1>7, <1>8, <2>2, <2>3
  <2>4. CASE k # n + 1
    <3>1. k \in 1 .. n
      BY <1>4, <2>4
    <3> QED
      BY <1>2, <1>4, <1>5, <2>2, <3>1 DEF SettledInv
  <2> QED
    BY <2>3, <2>4
<1> QED
  BY <1>2, <1>3, <1>5, <1>8, <1>9 DEF SettledInv

LEMMA SettledStep ==
  ASSUME TypeInv, OptionTypes, ReadingInv, SettledInv, Next
  PROVE  SettledInv'
<1>1. CASE Elsewhere
  BY <1>1 DEF Elsewhere, SettledInv
<1>2. CASE FinalizeTransactions
  BY <1>2 DEF FinalizeTransactions, SettledInv
<1>3. CASE PassRow \/ OpenLot \/ StartOutcome \/ PassLot \/ TakeFromLot
  BY <1>3 DEF PassRow, OpenLot, StartOutcome, PassLot, TakeFromLot, Scanning, Allocating,
              SettledInv
<1>4. CASE RecordClose \/ RecordExpiry \/ RecordAssignment
  BY <1>4 DEF RecordClose, RecordExpiry, RecordAssignment, EndOutcome, SettledInv
<1>5. CASE EndScan
  <2>1. phase' = "settle" /\ settled_share_rows' = <<>> /\ assignments' = assignments
    BY <1>5 DEF EndScan, optionVars, ReadingInv
  <2>2. Len(settled_share_rows') = 0 /\ DOMAIN settled_share_rows' = {}
        /\ Len(assignments) \in Nat
    BY <2>1 DEF OptionTypes
  <2> QED
    BY <2>1, <2>2 DEF SettledInv
<1>6. CASE SettleAssignment
  BY <1>6, SettleStep
<1>7. CASE EmitOptionTransactions
  <2>1. /\ phase = "settle" /\ Len(settled_share_rows) = Len(assignments)
        /\ UNCHANGED <<transactions, assignments, settled_share_rows>>
    BY <1>7 DEF EmitOptionTransactions
  <2>2. Fits' = Fits
    BY <2>1 DEF Fits, Settles, CouldSettle
  <2> QED
    BY <2>1, <2>2 DEF SettledInv
<1> QED
  BY <1>1, <1>2, <1>3, <1>4, <1>5, <1>6, <1>7, NextCases DEF ReadingStep

\* A row that delivers what an assignment exercised fits it.
LEMMA DeliveryFits ==
  ASSUME TypeInv, OptionTypes,
         NEW k \in DOMAIN assignments, NEW i \in DOMAIN transactions,
         Delivers(assignments[k], transactions[i])
  PROVE  i \in Fits[k]
<1> DEFINE a == assignments[k]
           r == transactions[i]
           shares == a.quantity * OptionAssignmentShares
           gross == shares * a.contract.strike
<1>1. r \in DatedRow
  BY DEF TypeInv
<1>2. r.day \in Int
  BY <1>1 DEF DatedRow, Row
<1>3. /\ r.contract = Missing /\ r.symbol = a.contract.underlying
      /\ r.quantity = shares /\ r.price = a.contract.strike
      /\ \/ a.contract.call /\ r.label = "Sell" /\ r.amount = gross
         \/ ~a.contract.call /\ r.label = "Buy" /\ r.amount = -gross
      /\ a.day <= r.day /\ r.day <= a.day + SettlementMatchDays
  BY DEF Delivers
<1>4. a.day \in Int
  <2>1. a \in Assignment
    BY DEF OptionTypes
  <2> QED
    BY <2>1 DEF Assignment
<1>5. r.day \in a.day .. (a.day + SettlementMatchDays)
  <2> DEFINE day == r.day
             from == a.day
  <2>1. day \in Int /\ from \in Int /\ from <= day /\ day <= from + SettlementMatchDays
    BY <1>2, <1>3, <1>4
  <2> HIDE DEF day, from
  <2>2. day \in from .. (from + SettlementMatchDays)
    BY <2>1, OptionAssumption
  <2> QED
    BY <2>2 DEF day, from
<1>6. r.label = SettlementAction(a.contract)
  BY <1>3 DEF SettlementAction
<1>7. CouldSettle(a, i)
  <2>1. r.quantity = AssignedShares(a)
    BY <1>3 DEF AssignedShares
  <2> HIDE DEF shares, gross
  <2> QED
    BY <1>3, <1>5, <1>6, <2>1 DEF CouldSettle
<1>8. r.amount = IF r.label = "Sell" THEN gross ELSE -gross
  <2> HIDE DEF gross
  <2> QED
    BY <1>3
<1>9. Settles(a, i)
  <2>1. gross = AssignedShares(a) * a.contract.strike
    BY DEF AssignedShares
  <2>2. r.price = a.contract.strike
    BY <1>3
  <2> HIDE DEF gross
  <2> QED
    BY <1>7, <1>8, <2>1, <2>2 DEF Settles
<1>10. Settles(assignments[k], i)
  BY <1>9
<1> HIDE DEF a, r, shares, gross
<1> QED
  BY <1>10 DEF Fits

LEMMA OnlyReading ==
  ASSUME TypeInv, OptionTypes, SettledInv
  PROVE  OneReadingOfSettlements
<1> SUFFICES
      ASSUME phase = "done",
             NEW choice \in [DOMAIN assignments -> DOMAIN transactions],
             \A k \in DOMAIN assignments :
               Delivers(assignments[k], transactions[choice[k]]),
             \A k, n \in DOMAIN assignments : choice[k] = choice[n] => k = n
      PROVE  \A k \in DOMAIN assignments : choice[k] = settled_share_rows[k]
  BY DEF OneReadingOfSettlements
<1> DEFINE size == Len(assignments)
           Same == {n \in Nat : n <= size =>
                      \A k \in 1 .. n : choice[k] = settled_share_rows[k]}
<1>1. /\ size \in Nat /\ DOMAIN assignments = 1 .. size
      /\ DOMAIN settled_share_rows = 1 .. size
  BY DEF OptionTypes, SettledInv
<1>2. \A k \in 1 .. size : choice[k] \in DOMAIN transactions /\ choice[k] \in Fits[k]
  BY <1>1, DeliveryFits
<1>3. \A k \in 1 .. size, i \in DOMAIN transactions :
        i \in Fits[k] /\ (\A j \in 1 .. (k - 1) : settled_share_rows[j] # i)
          => i = settled_share_rows[k]
  BY <1>1 DEF SettledInv
<1>4. \A k, n \in 1 .. size : choice[k] = choice[n] => k = n
  BY <1>1
<1> HIDE DEF size
<1>5. 0 \in Same
  OBVIOUS
<1>6. \A n \in Nat : n \in Same => n + 1 \in Same
  <2> SUFFICES ASSUME NEW n \in Nat, n \in Same, n + 1 <= size
               PROVE  \A k \in 1 .. (n + 1) : choice[k] = settled_share_rows[k]
    OBVIOUS
  <2>1. /\ n <= size /\ n + 1 \in 1 .. size /\ (n + 1) - 1 = n
        /\ \A j \in 1 .. n : j \in 1 .. size /\ j # n + 1
    BY <1>1
  <2>2. \A j \in 1 .. n : settled_share_rows[j] # choice[n + 1]
    BY <1>4, <2>1
  <2>3. choice[n + 1] = settled_share_rows[n + 1]
    BY <1>2, <1>3, <2>1, <2>2
  <2> QED
    BY <2>1, <2>3
<1> HIDE DEF Same
<1>7. \A n \in Nat : n \in Same
  BY <1>5, <1>6, NaturalsBySteps
<1>8. size \in Same
  BY <1>1, <1>7
<1> QED
  BY <1>1, <1>8 DEF Same

ReadInv == TypeInv /\ OrderInv /\ OptionTypes /\ ReadingInv /\ SettledInv

LEMMA ReadInit == Init => ReadInv
<1> SUFFICES ASSUME Init
             PROVE  ReadInv
  OBVIOUS
<1>1. OptionTypes /\ ReadingInv /\ SettledInv
  BY DEF Init, OptionTypes, ReadingInv, SettledInv
<1> QED
  BY <1>1, InitTyped DEF ReadInv

LEMMA ReadStep == ReadInv /\ [Next]_vars => ReadInv'
<1> SUFFICES ASSUME ReadInv, [Next]_vars
             PROVE  ReadInv'
  OBVIOUS
<1> USE DEF ReadInv
<1>1. TypeInv' /\ OrderInv'
  BY TypedStep
<1>2. CASE Next
  BY <1>1, <1>2, OptionsTyped, SettledStep
<1>3. CASE UNCHANGED vars
  <2>1. OptionTypes'
    BY <1>3 DEF vars, optionVars, OptionTypes
  <2>2. ReadingInv'
    BY <1>3 DEF vars, optionVars, ReadingInv, Ending, current, OldestFirst
  <2>3. UNCHANGED <<phase, transactions, assignments, settled_share_rows>>
    BY <1>3 DEF vars, optionVars
  <2>4. Fits' = Fits
    BY <2>3 DEF Fits, Settles, CouldSettle
  <2>5. SettledInv'
    BY <2>3, <2>4 DEF SettledInv
  <2> QED
    BY <1>1, <2>1, <2>2, <2>5
<1> QED
  BY <1>2, <1>3

\* No other way of giving each assignment a stock row of its own fits.
THEOREM SettlementsReadOneWay == Spec => []OneReadingOfSettlements
<1>1. ReadInv => OneReadingOfSettlements
  BY OnlyReading DEF ReadInv
<1> QED
  BY <1>1, ReadInit, ReadStep, PTL DEF Spec

-----------------------------------------------------------------------------
(***************************************************************************)
(* What the lots of a series add up to, and how a step changes the sums.   *)
(***************************************************************************)
LotsIn(lots, c) == {i \in DOMAIN lots : lots[i].contract = c}
LeftIn(lots, c) ==
  SumFunctionOnSet([i \in DOMAIN lots |-> lots[i].quantity - lots[i].remaining], LotsIn(lots, c))
ClosedIn(lots, c) ==
  SumFunctionOnSet([i \in DOMAIN lots |-> lots[i].close_cost], LotsIn(lots, c))

LEMMA LotsTyped ==
  ASSUME NEW lots \in Seq(Lot), NEW c
  PROVE  /\ DOMAIN lots = 1 .. Len(lots) /\ Len(lots) \in Nat
         /\ LotsIn(lots, c) \in SUBSET (DOMAIN lots) /\ IsFiniteSet(LotsIn(lots, c))
         /\ \A i \in DOMAIN lots : /\ lots[i].quantity \in Nat /\ lots[i].remaining \in Nat
                                   /\ lots[i].close_cost \in Int
<1>1. /\ DOMAIN lots = 1 .. Len(lots) /\ Len(lots) \in Nat
      /\ \A i \in DOMAIN lots : lots[i] \in Lot
  OBVIOUS
<1>2. \A l \in Lot : l.quantity \in Nat /\ l.remaining \in Nat /\ l.close_cost \in Int
  BY DEF Lot
<1>3. LotsIn(lots, c) \in SUBSET (DOMAIN lots)
  BY DEF LotsIn
<1>4. IsFiniteSet(1 .. Len(lots))
  BY <1>1, FS_Interval
<1>5. IsFiniteSet(LotsIn(lots, c))
  BY <1>1, <1>3, <1>4, FS_Subset
<1> QED
  BY <1>1, <1>2, <1>3, <1>5

LEMMA OneChanges ==
  ASSUME NEW S, IsFiniteSet(S), NEW f, NEW g, NEW x,
         \A y \in S : f[y] \in Int /\ g[y] \in Int,
         \A y \in S : y # x => g[y] = f[y]
  PROVE  SumFunctionOnSet(g, S)
           = SumFunctionOnSet(f, S) + (IF x \in S THEN g[x] - f[x] ELSE 0)
<1>1. CASE x \in S
  BY <1>1, SumChange
<1>2. CASE x \notin S
  <2>1. SumFunctionOnSet(g, S) = SumFunctionOnSet(f, S)
    BY <1>2, SumSame
  <2>2. SumFunctionOnSet(f, S) \in Int
    BY SumType
  <2> QED
    BY <1>2, <2>1, <2>2
<1> QED
  BY <1>1, <1>2

\* Contracts leave one lot, and nothing else changes.
LEMMA LotDrawn ==
  ASSUME NEW lots \in Seq(Lot), NEW new \in Seq(Lot), DOMAIN new = DOMAIN lots,
         NEW x \in DOMAIN lots, NEW c,
         \A i \in DOMAIN lots : /\ new[i].contract = lots[i].contract
                                /\ new[i].quantity = lots[i].quantity
                                /\ new[i].close_cost = lots[i].close_cost,
         \A i \in DOMAIN lots : i # x => new[i].remaining = lots[i].remaining
  PROVE  /\ LeftIn(new, c) = LeftIn(lots, c)
              + (IF lots[x].contract = c THEN lots[x].remaining - new[x].remaining ELSE 0)
         /\ ClosedIn(new, c) = ClosedIn(lots, c)
<1> DEFINE S == LotsIn(lots, c)
           f == [i \in DOMAIN lots |-> lots[i].quantity - lots[i].remaining]
           g == [i \in DOMAIN new |-> new[i].quantity - new[i].remaining]
           p == [i \in DOMAIN lots |-> lots[i].close_cost]
           q == [i \in DOMAIN new |-> new[i].close_cost]
<1>1. LotsIn(new, c) = S
  BY DEF LotsIn
<1>2. S \in SUBSET (DOMAIN lots) /\ IsFiniteSet(S)
  BY LotsTyped
<1>3. /\ \A i \in DOMAIN lots : lots[i].quantity \in Nat /\ lots[i].remaining \in Nat
      /\ \A i \in DOMAIN new : new[i].quantity \in Nat /\ new[i].remaining \in Nat
  BY LotsTyped
<1>4. \A i \in S : f[i] \in Int /\ g[i] \in Int
  BY <1>2, <1>3
<1>5. \A i \in S : i # x => g[i] = f[i]
  BY <1>2, <1>3
<1>6. x \in S <=> lots[x].contract = c
  BY DEF LotsIn
<1>7. g[x] - f[x] = lots[x].remaining - new[x].remaining
  <2> DEFINE n == lots[x].quantity
             a == lots[x].remaining
             b == new[x].remaining
  <2>1. n \in Nat /\ a \in Nat /\ b \in Nat /\ f[x] = n - a /\ g[x] = n - b
    BY <1>3
  <2> HIDE DEF n, a, b, f, g
  <2>2. g[x] - f[x] = a - b
    BY <2>1
  <2> QED
    BY <2>2 DEF a, b
<1>8. LeftIn(lots, c) = SumFunctionOnSet(f, S) /\ LeftIn(new, c) = SumFunctionOnSet(g, S)
  BY <1>1 DEF LeftIn
<1>9. ClosedIn(lots, c) = SumFunctionOnSet(p, S) /\ ClosedIn(new, c) = SumFunctionOnSet(q, S)
  BY <1>1 DEF ClosedIn
<1>10. \A i \in S : q[i] = p[i]
  BY <1>2
<1> HIDE DEF S, f, g, p, q
<1>11. SumFunctionOnSet(q, S) = SumFunctionOnSet(p, S)
  BY <1>2, <1>10, SumSame
<1>12. SumFunctionOnSet(g, S) = SumFunctionOnSet(f, S) + (IF x \in S THEN g[x] - f[x] ELSE 0)
  BY <1>2, <1>4, <1>5, OneChanges
<1> QED
  BY <1>6, <1>7, <1>8, <1>9, <1>11, <1>12

\* A grant opens a lot that nothing has left.
LEMMA LotAdded ==
  ASSUME NEW lots \in Seq(Lot), NEW l \in Lot, l.quantity = l.remaining, l.close_cost = 0,
         NEW c
  PROVE  /\ LeftIn(Append(lots, l), c) = LeftIn(lots, c)
         /\ ClosedIn(Append(lots, l), c) = ClosedIn(lots, c)
<1> DEFINE new == Append(lots, l)
           n == Len(lots)
           S == LotsIn(lots, c)
           T == LotsIn(new, c)
           f == [i \in DOMAIN lots |-> lots[i].quantity - lots[i].remaining]
           g == [i \in DOMAIN new |-> new[i].quantity - new[i].remaining]
           p == [i \in DOMAIN lots |-> lots[i].close_cost]
           q == [i \in DOMAIN new |-> new[i].close_cost]
<1>1. /\ new \in Seq(Lot) /\ n \in Nat /\ DOMAIN lots = 1 .. n /\ DOMAIN new = 1 .. (n + 1)
      /\ \A i \in 1 .. n : new[i] = lots[i]
      /\ new[n + 1] = l
  OBVIOUS
<1>2. LeftIn(lots, c) = SumFunctionOnSet(f, S) /\ LeftIn(new, c) = SumFunctionOnSet(g, T)
  BY DEF LeftIn
<1>3. ClosedIn(lots, c) = SumFunctionOnSet(p, S) /\ ClosedIn(new, c) = SumFunctionOnSet(q, T)
  BY DEF ClosedIn
<1> HIDE DEF new
<1>4. S \in SUBSET (1 .. n) /\ IsFiniteSet(S)
  BY <1>1, LotsTyped
<1>5. T = S \/ T = S \cup {n + 1}
  <2>1. \A i \in 1 .. (n + 1) : i \in 1 .. n \/ i = n + 1
    BY <1>1
  <2>2. \A i \in 1 .. n : i \in 1 .. (n + 1) /\ (i \in T <=> i \in S)
    BY <1>1 DEF LotsIn
  <2>3. T \in SUBSET (1 .. (n + 1))
    BY <1>1 DEF LotsIn
  <2> HIDE DEF S, T
  <2> QED
    BY <1>4, <2>1, <2>2, <2>3
<1>6. \A i \in 1 .. n : /\ lots[i].quantity \in Nat /\ lots[i].remaining \in Nat
                        /\ lots[i].close_cost \in Int
  BY <1>1, LotsTyped
<1>7. \A i \in 1 .. n : i \in 1 .. (n + 1)
  BY <1>1
<1>8. \A i \in S : f[i] \in Int /\ g[i] = f[i] /\ p[i] \in Int /\ q[i] = p[i]
  BY <1>1, <1>4, <1>6, <1>7
<1>9. g[n + 1] = 0 /\ q[n + 1] = 0 /\ n + 1 \notin S
  <2>1. n + 1 \in 1 .. (n + 1) /\ n + 1 \notin 1 .. n
    BY <1>1
  <2>2. l.quantity \in Nat
    BY DEF Lot
  <2> QED
    BY <1>1, <1>4, <2>1, <2>2
<1> HIDE DEF f, g, p, q, S, T, n
<1>10. SumFunctionOnSet(g, S) = SumFunctionOnSet(f, S)
  BY <1>4, <1>8, SumSame
<1>11. SumFunctionOnSet(q, S) = SumFunctionOnSet(p, S)
  BY <1>4, <1>8, SumSame
<1>12. SumFunctionOnSet(f, S) \in Int /\ SumFunctionOnSet(p, S) \in Int
  BY <1>4, <1>8, SumType
<1>13. CASE T = S
  BY <1>2, <1>3, <1>10, <1>11, <1>13 DEF new
<1>14. CASE T = S \cup {n + 1}
  <2> DEFINE x == n + 1
  <2>1. g[x] = 0 /\ q[x] = 0 /\ x \notin S /\ \A i \in S : g[i] \in Int /\ q[i] \in Int
    BY <1>8, <1>9
  <2>2. T = S \cup {x}
    BY <1>14
  <2> HIDE DEF x
  <2>3. \A i \in S : g[i] \in Int
    BY <2>1
  <2>4. SumFunctionOnSet(g, S \cup {x}) = SumFunctionOnSet(g, S) + g[x]
    <3>1. IsFiniteSet(S) /\ x \notin S /\ g[x] \in Int
      BY <1>4, <2>1
    <3> QED
      BY <2>3, <3>1, SumAdd
  <2>8. \A i \in S : q[i] \in Int
    BY <2>1
  <2>5. SumFunctionOnSet(q, S \cup {x}) = SumFunctionOnSet(q, S) + q[x]
    <3>1. IsFiniteSet(S) /\ x \notin S /\ q[x] \in Int
      BY <1>4, <2>1
    <3> QED
      BY <2>8, <3>1, SumAdd
  <2>6. SumFunctionOnSet(g, T) = SumFunctionOnSet(f, S)
    BY <1>10, <1>12, <2>1, <2>2, <2>4
  <2>7. SumFunctionOnSet(q, T) = SumFunctionOnSet(p, S)
    BY <1>11, <1>12, <2>1, <2>2, <2>5
  <2> QED
    BY <1>2, <1>3, <2>6, <2>7 DEF new
<1> QED
  BY <1>5, <1>13, <1>14

\* What was taken from lot i of the allocations of one outcome.
LEMMA TakenTyped ==
  ASSUME NEW list \in Seq(Allocation), NEW i
  PROVE  /\ TakenFrom(list, i) \in SUBSET (DOMAIN list)
         /\ IsFiniteSet(TakenFrom(list, i))
<1>1. TakenFrom(list, i) \in SUBSET (DOMAIN list)
  BY DEF TakenFrom
<1> QED
  BY <1>1, AllocationOf, FS_Subset

\* A change of the lots that leaves their contracts and what they hold.
LEMMA LeftSame ==
  ASSUME NEW lots \in Seq(Lot), NEW new, DOMAIN new = DOMAIN lots, NEW c,
         \A i \in DOMAIN lots : /\ new[i].contract = lots[i].contract
                                /\ new[i].quantity = lots[i].quantity
                                /\ new[i].remaining = lots[i].remaining
  PROVE  LotsIn(new, c) = LotsIn(lots, c) /\ LeftIn(new, c) = LeftIn(lots, c)
<1> DEFINE S == LotsIn(lots, c)
           f == [i \in DOMAIN lots |-> lots[i].quantity - lots[i].remaining]
           g == [i \in DOMAIN new |-> new[i].quantity - new[i].remaining]
<1>1. LotsIn(new, c) = S
  BY DEF LotsIn
<1>2. S \in SUBSET (DOMAIN lots) /\ IsFiniteSet(S)
  BY LotsTyped
<1>3. \A i \in S : g[i] = f[i]
  BY <1>2
<1>4. LeftIn(lots, c) = SumFunctionOnSet(f, S) /\ LeftIn(new, c) = SumFunctionOnSet(g, S)
  BY <1>1 DEF LeftIn
<1> HIDE DEF f, g, S
<1>5. SumFunctionOnSet(g, S) = SumFunctionOnSet(f, S)
  BY <1>2, <1>3, SumSame
<1> QED
  BY <1>1, <1>4, <1>5 DEF S

\* A change that leaves the close costs of one series.
LEMMA ClosedElsewhere ==
  ASSUME NEW lots \in Seq(Lot), NEW new, DOMAIN new = DOMAIN lots, NEW c,
         \A i \in DOMAIN lots : new[i].contract = lots[i].contract,
         \A i \in LotsIn(lots, c) : new[i].close_cost = lots[i].close_cost
  PROVE  ClosedIn(new, c) = ClosedIn(lots, c)
<1> DEFINE S == LotsIn(lots, c)
           f == [i \in DOMAIN lots |-> lots[i].close_cost]
           g == [i \in DOMAIN new |-> new[i].close_cost]
<1>1. LotsIn(new, c) = S
  BY DEF LotsIn
<1>2. S \in SUBSET (DOMAIN lots) /\ IsFiniteSet(S)
  BY LotsTyped
<1>3. \A i \in S : g[i] = f[i]
  BY <1>2
<1>4. ClosedIn(lots, c) = SumFunctionOnSet(f, S) /\ ClosedIn(new, c) = SumFunctionOnSet(g, S)
  BY <1>1 DEF ClosedIn
<1> HIDE DEF f, g, S
<1>5. SumFunctionOnSet(g, S) = SumFunctionOnSet(f, S)
  BY <1>2, <1>3, SumSame
<1> QED
  BY <1>4, <1>5

LEMMA ClosedSame ==
  ASSUME NEW lots \in Seq(Lot), NEW new, DOMAIN new = DOMAIN lots, NEW c,
         \A i \in DOMAIN lots : /\ new[i].contract = lots[i].contract
                                /\ new[i].close_cost = lots[i].close_cost
  PROVE  ClosedIn(new, c) = ClosedIn(lots, c)
<1>1. LotsIn(lots, c) \in SUBSET (DOMAIN lots)
  BY LotsTyped
<1>2. \A i \in LotsIn(lots, c) : new[i].close_cost = lots[i].close_cost
  BY <1>1
<1> QED
  BY <1>2, ClosedElsewhere

LEMMA SumByCells ==
  ASSUME NEW S, IsFiniteSet(S), NEW T, IsFiniteSet(T),
         NEW f, \A x \in S : f[x] \in Int,
         NEW part, \A x \in S : part[x] \in T,
         NEW cell, \A t \in T : cell[t] \in SUBSET S,
         \A t \in T, x \in S : x \in cell[t] <=> part[x] = t,
         NEW g, \A t \in T : g[t] = SumFunctionOnSet(f, cell[t])
  PROVE  SumFunctionOnSet(g, T) = SumFunctionOnSet(f, S)
<1> DEFINE cells == [t \in T |-> SumFunctionOnSet(f, {x \in S : part[x] = t})]
<1>1. SumFunctionOnSet(cells, T) = SumFunctionOnSet(f, S)
  BY SumByParts
<1>2. \A t \in T : g[t] = cells[t]
  <2> SUFFICES ASSUME NEW t \in T
               PROVE  g[t] = SumFunctionOnSet(f, {x \in S : part[x] = t})
    OBVIOUS
  <2>1. cell[t] = {x \in S : part[x] = t}
    OBVIOUS
  <2> QED
    BY <2>1
<1> HIDE DEF cells
<1>3. SumFunctionOnSet(g, T) = SumFunctionOnSet(cells, T)
  BY <1>2, SumSame
<1> QED
  BY <1>1, <1>3

\* The whole of a close's cost goes to the lots it took from, all of one series.
LEMMA CloseSpreads ==
  ASSUME NEW lots \in Seq(Lot), NEW new, DOMAIN new = DOMAIN lots,
         NEW list \in Seq(Allocation), NEW cost, NEW c,
         \A k \in DOMAIN list : cost[k] \in Int,
         \A k \in DOMAIN list : list[k][1] \in DOMAIN lots,
         \A k \in DOMAIN list : lots[list[k][1]].contract = c,
         \A i \in DOMAIN lots : new[i].contract = lots[i].contract,
         \A i \in DOMAIN lots :
            new[i].close_cost
              = lots[i].close_cost + SumFunctionOnSet(cost, TakenFrom(list, i))
  PROVE  ClosedIn(new, c) = ClosedIn(lots, c) + SumFunctionOnSet(cost, DOMAIN list)
<1> DEFINE S == LotsIn(lots, c)
           L == DOMAIN list
           part == [k \in L |-> list[k][1]]
           f == [i \in DOMAIN lots |-> lots[i].close_cost]
           g == [i \in S |-> SumFunctionOnSet(cost, TakenFrom(list, i))]
           h == [i \in DOMAIN new |-> new[i].close_cost]
<1>1. LotsIn(new, c) = S
  BY DEF LotsIn
<1>2. S \in SUBSET (DOMAIN lots) /\ IsFiniteSet(S) /\ IsFiniteSet(L)
  BY LotsTyped, AllocationOf
<1>3. \A i \in S : f[i] \in Int
  BY <1>2, LotsTyped
<1>4. \A i \in S : g[i] \in Int
  <2> SUFFICES ASSUME NEW i \in S
               PROVE  SumFunctionOnSet(cost, TakenFrom(list, i)) \in Int
    OBVIOUS
  <2> DEFINE T == TakenFrom(list, i)
  <2>1. T \in SUBSET L /\ IsFiniteSet(T)
    BY TakenTyped
  <2> HIDE DEF T
  <2>2. \A k \in T : cost[k] \in Int
    BY <2>1
  <2> QED
    BY <2>1, <2>2, SumType DEF T
<1>5. \A i \in S : h[i] = f[i] + g[i]
  BY <1>2
<1>6. ClosedIn(lots, c) = SumFunctionOnSet(f, S) /\ ClosedIn(new, c) = SumFunctionOnSet(h, S)
  BY <1>1 DEF ClosedIn
<1>7. SumFunctionOnSet(h, S) = SumFunctionOnSet(f, S) + SumFunctionOnSet(g, S)
  <2> HIDE DEF f, g, h, S
  <2>1. \A i \in S : f[i] \in Int /\ g[i] \in Int
    BY <1>3, <1>4
  <2>2. \A i \in S : h[i] = f[i] + g[i]
    BY <1>5
  <2>3. IsFiniteSet(S)
    BY <1>2
  <2> QED
    BY <2>1, <2>2, <2>3, SumPlus
<1>8. \A k \in L : part[k] \in S
  BY DEF LotsIn
<1>9. \A k \in L : cost[k] \in Int
  OBVIOUS
<1> DEFINE cell == [i \in S |-> TakenFrom(list, i)]
<1>10. \A i \in S : cell[i] \in SUBSET L
  BY DEF TakenFrom
<1>11. \A i \in S, k \in L : k \in cell[i] <=> part[k] = i
  BY DEF TakenFrom
<1>12. \A i \in S : g[i] = SumFunctionOnSet(cost, cell[i])
  OBVIOUS
<1>13. SumFunctionOnSet(g, S) = SumFunctionOnSet(cost, L)
  <2> HIDE DEF L, S, part, g, cell
  <2>1. IsFiniteSet(L) /\ IsFiniteSet(S)
    BY <1>2
  <2> QED
    BY <1>8, <1>9, <1>10, <1>11, <1>12, <2>1, SumByCells, SMTT(40)
<1> QED
  BY <1>6, <1>7, <1>13

-----------------------------------------------------------------------------
(* What the rows read so far state, and how one row more changes the sums. *)

Closes == {"Buy to Close"}
RowsIn(list, n, c, labels) ==
  {i \in 1 .. n : list[i].contract = c /\ list[i].label \in labels}
StatedIn(list, n, c) ==
  SumFunctionOnSet([i \in DOMAIN list |-> list[i].quantity], RowsIn(list, n, c, OptionOutcomes))
PaidIn(list, n, c) ==
  SumFunctionOnSet([i \in DOMAIN list |-> -list[i].amount],
                   RowsIn(list, n, c, Closes))

LEMMA OneRowMore ==
  ASSUME NEW list, NEW n \in Nat, NEW c, NEW labels, NEW f,
         \A i \in RowsIn(list, n + 1, c, labels) : f[i] \in Int
  PROVE  SumFunctionOnSet(f, RowsIn(list, n + 1, c, labels))
           = SumFunctionOnSet(f, RowsIn(list, n, c, labels))
             + (IF list[n + 1].contract = c /\ list[n + 1].label \in labels
                THEN f[n + 1] ELSE 0)
<1> DEFINE S == RowsIn(list, n, c, labels)
           T == RowsIn(list, n + 1, c, labels)
           x == n + 1
<1>1. IsFiniteSet(S)
  <2>1. IsFiniteSet(1 .. n)
    BY FS_Interval
  <2>2. S \in SUBSET (1 .. n)
    BY DEF RowsIn
  <2> QED
    BY <2>1, <2>2, FS_Subset
<1>2. x \notin S
  BY DEF RowsIn
<1>3. \A i \in 1 .. x : i \in 1 .. n \/ i = x
  OBVIOUS
<1>4. \A i \in 1 .. n : i \in 1 .. x
  OBVIOUS
<1>5. x \in 1 .. x
  OBVIOUS
<1>6. S \subseteq T
  BY <1>4 DEF RowsIn
<1>7. \A i \in S : f[i] \in Int
  BY <1>6
<1>8. CASE x \in T
  <2>1. T = S \cup {x}
    <3>1. \A i \in T : i \in S \/ i = x
      BY <1>3 DEF RowsIn
    <3> HIDE DEF S, T
    <3> QED
      BY <1>6, <1>8, <3>1
  <2>2. f[x] \in Int
    BY <1>8
  <2>3. list[x].contract = c /\ list[x].label \in labels
    BY <1>8 DEF RowsIn
  <2> HIDE DEF S, T, x
  <2>4. SumFunctionOnSet(f, S \cup {x}) = SumFunctionOnSet(f, S) + f[x]
    BY <1>1, <1>2, <1>7, <2>2, SumAdd
  <2> QED
    BY <2>1, <2>3, <2>4 DEF S, T, x
<1>9. CASE x \notin T
  <2>1. T = S
    <3>1. \A i \in T : i \in S
      BY <1>3, <1>9 DEF RowsIn
    <3> HIDE DEF S, T
    <3> QED
      BY <1>6, <3>1
  <2>2. ~(list[x].contract = c /\ list[x].label \in labels)
    BY <1>5, <1>9 DEF RowsIn
  <2> HIDE DEF S, T, x
  <2>3. SumFunctionOnSet(f, S) \in Int
    BY <1>1, <1>7, SumType
  <2>4. SumFunctionOnSet(f, T) = SumFunctionOnSet(f, S) + 0
    BY <2>1, <2>3
  <2> QED
    BY <2>2, <2>4 DEF S, T, x
<1> QED
  BY <1>8, <1>9

-----------------------------------------------------------------------------
(***************************************************************************)
(* Of each series, what has left the lots is what the outcomes read have   *)
(* stated, together with what the outcome being allocated has found so     *)
(* far; no lot is drawn on before the earlier ones of its series are       *)
(* empty; and what the assignments took is marked on the lots.             *)
(***************************************************************************)
RowsRead ==
  \A i \in DOMAIN transactions :
    i <= scanned /\ transactions[i].contract # Missing => ValidWrittenOptionRow(transactions[i])

LotsInv ==
  /\ \A i \in DOMAIN open_lots, n \in DOMAIN transactions :
        n > scanned => open_lots[i].day <= transactions[n].posted
  /\ \A i, j \in DOMAIN open_lots :
        /\ i < j /\ open_lots[i].contract = open_lots[j].contract
        /\ open_lots[j].remaining < open_lots[j].quantity
        => open_lots[i].remaining = 0

OutcomeInv ==
  /\ phase = "allocate" =>
        SumFunctionOnSet(Contracts(allocations), DOMAIN allocations)
          = current.quantity - needed
  /\ \A k \in DOMAIN allocations :
        /\ allocations[k][1] \in DOMAIN open_lots /\ allocations[k][1] < lot
        /\ open_lots[allocations[k][1]].contract = current.contract
  /\ \A k, n \in DOMAIN allocations : allocations[k][1] = allocations[n][1] => k = n
  /\ phase = "allocate" /\ needed > 0 =>
        \A i \in DOMAIN open_lots :
          i < lot /\ open_lots[i].contract = current.contract => open_lots[i].remaining = 0

SumsInv ==
  \A c \in Contract \ {Missing} :
    /\ LeftIn(open_lots, c) = StatedIn(transactions, scanned, c)
          + (IF phase = "allocate" /\ current.contract = c
             THEN current.quantity - needed ELSE 0)
    /\ ClosedIn(open_lots, c) = PaidIn(transactions, scanned, c)

AssignedIn(list, i) ==
  SumFunctionOnSet([k \in DOMAIN list |->
                      SumFunctionOnSet(Contracts(list[k].allocations),
                                       TakenFrom(list[k].allocations, i))],
                   DOMAIN list)

AssignedInv ==
  /\ \A k \in DOMAIN assignments : \A m \in DOMAIN assignments[k].allocations :
        assignments[k].allocations[m][1] \in DOMAIN open_lots
  /\ \A i \in DOMAIN open_lots : open_lots[i].assigned = AssignedIn(assignments, i)

\* The row that is read next has only other rows, none of them newer, behind it.
LEMMA RowAhead ==
  ASSUME TypeInv, OptionTypes, ReadingInv, phase \in {"scan", "allocate"},
         scanned < Len(transactions)
  PROVE  /\ current \in DatedRow /\ current = transactions[scanned + 1]
         /\ scanned + 1 \in DOMAIN transactions /\ scanned \in Nat
         /\ DOMAIN transactions = 1 .. Len(transactions) /\ Len(transactions) \in Nat
         /\ current.posted \in Int
         /\ \A n \in DOMAIN transactions : n > scanned =>
               transactions[n].posted \in Int /\ current.posted <= transactions[n].posted
<1>1. /\ current \in DatedRow /\ current = transactions[scanned + 1]
      /\ scanned + 1 \in DOMAIN transactions
  BY CurrentRow DEF current
<1>2. /\ DOMAIN transactions = 1 .. Len(transactions) /\ Len(transactions) \in Nat
      /\ scanned \in Nat /\ OldestFirst(transactions)
      /\ \A n \in DOMAIN transactions : transactions[n] \in DatedRow
  BY DEF TypeInv, OptionTypes, ReadingInv
<1>3. \A r \in DatedRow : r.posted \in Int
  BY DEF DatedRow, Row
<1>4. \A n \in DOMAIN transactions : transactions[n].posted \in Int
  BY <1>2, <1>3
<1>5. \A n \in DOMAIN transactions : n > scanned =>
        current.posted <= transactions[n].posted
  <2> SUFFICES ASSUME NEW n \in DOMAIN transactions, n > scanned
               PROVE  transactions[scanned + 1].posted <= transactions[n].posted
    BY <1>1
  <2>1. n \in Nat /\ (n = scanned + 1 \/ scanned + 1 < n)
    BY <1>2
  <2>2. CASE n = scanned + 1
    <3> DEFINE p == transactions[n].posted
    <3>1. p \in Int
      BY <1>4
    <3> HIDE DEF p
    <3>2. p <= p
      BY <3>1
    <3> QED
      BY <2>2, <3>2 DEF p
  <2>3. CASE scanned + 1 < n
    BY <1>1, <1>2, <2>3 DEF OldestFirst
  <2> QED
    BY <2>1, <2>2, <2>3
<1> QED
  BY <1>1, <1>2, <1>3, <1>4, <1>5

\* A row read that is about an option was valid.
LEMMA RowsReadStep ==
  ASSUME TypeInv, OptionTypes, ReadingInv, phase \in {"scan", "allocate"},
         scanned < Len(transactions), RowsRead,
         current.contract = Missing \/ ValidWrittenOptionRow(current)
  PROVE  \A i \in DOMAIN transactions :
           i <= scanned + 1 /\ transactions[i].contract # Missing
             => ValidWrittenOptionRow(transactions[i])
<1> SUFFICES ASSUME NEW i \in DOMAIN transactions, i <= scanned + 1,
                    transactions[i].contract # Missing
             PROVE  ValidWrittenOptionRow(transactions[i])
  OBVIOUS
<1>1. i \in Nat /\ scanned \in Nat /\ (i <= scanned \/ i = scanned + 1)
  BY RowAhead
<1>2. CASE i <= scanned
  BY <1>2 DEF RowsRead
<1>3. CASE i = scanned + 1
  BY <1>3, RowAhead
<1> QED
  BY <1>1, <1>2, <1>3

LEMMA RowStates ==
  \A r \in DatedRow :
    r.contract # Missing /\ ValidWrittenOptionRow(r) =>
      r.quantity \in Int /\ (r.label \in Closes => r.amount \in Int)
<1> SUFFICES ASSUME NEW r \in DatedRow, r.contract # Missing, ValidWrittenOptionRow(r)
             PROVE  r.quantity \in Int /\ (r.label \in Closes => r.amount \in Int)
  OBVIOUS
<1>1. r.quantity \in Nat \ {0}
  BY ValidRow
<1>2. r.label \in {"Sell to Open", "Buy to Close"} => r.amount \in Int
  BY ValidRow
<1>3. \A l \in Closes : l \in {"Sell to Open", "Buy to Close"}
  BY DEF Closes
<1>4. r.quantity \in Int
  BY <1>1
<1>5. r.label \in Closes => r.amount \in Int
  BY <1>2, <1>3
<1> QED
  BY <1>4, <1>5

LEMMA RowSums ==
  ASSUME TypeInv, OptionTypes, ReadingInv, phase \in {"scan", "allocate"},
         scanned < Len(transactions), RowsRead,
         current.contract = Missing \/ ValidWrittenOptionRow(current),
         NEW c \in Contract \ {Missing}
  PROVE  /\ StatedIn(transactions, scanned + 1, c) = StatedIn(transactions, scanned, c)
              + (IF current.contract = c /\ current.label \in OptionOutcomes
                 THEN current.quantity ELSE 0)
         /\ PaidIn(transactions, scanned + 1, c) = PaidIn(transactions, scanned, c)
              + (IF current.contract = c /\ current.label \in Closes
                 THEN -current.amount ELSE 0)
<1> DEFINE f == [i \in DOMAIN transactions |-> transactions[i].quantity]
           g == [i \in DOMAIN transactions |-> -transactions[i].amount]
           n == scanned
<1>1. /\ n \in Nat /\ n + 1 \in DOMAIN transactions /\ current = transactions[n + 1]
      /\ DOMAIN transactions = 1 .. Len(transactions) /\ Len(transactions) \in Nat
      /\ n + 1 <= Len(transactions)
      /\ \A i \in DOMAIN transactions : transactions[i] \in DatedRow
  BY RowAhead DEF TypeInv
<1>2. \A i \in 1 .. (n + 1) : i \in DOMAIN transactions /\ i <= n + 1
  BY <1>1
<1>3. \A i \in 1 .. (n + 1) : transactions[i].contract = c =>
        /\ transactions[i].quantity \in Int
        /\ transactions[i].label \in Closes => transactions[i].amount \in Int
  <2> SUFFICES ASSUME NEW i \in 1 .. (n + 1), transactions[i].contract = c
               PROVE  /\ transactions[i].quantity \in Int
                      /\ transactions[i].label \in Closes
                            => transactions[i].amount \in Int
    OBVIOUS
  <2>1. /\ transactions[i] \in DatedRow /\ ValidWrittenOptionRow(transactions[i])
        /\ transactions[i].contract # Missing
    BY <1>1, <1>2, RowsReadStep
  <2> QED
    BY <2>1, RowStates
<1>4. \A i \in RowsIn(transactions, n + 1, c, OptionOutcomes) : f[i] \in Int
  BY <1>2, <1>3 DEF RowsIn
<1>5. \A i \in RowsIn(transactions, n + 1, c, Closes) : g[i] \in Int
  <2> SUFFICES ASSUME NEW i \in RowsIn(transactions, n + 1, c, Closes)
               PROVE  g[i] \in Int
    OBVIOUS
  <2> DEFINE a == transactions[i].amount
  <2>1. a \in Int /\ g[i] = -a
    BY <1>2, <1>3 DEF RowsIn
  <2> HIDE DEF a, g
  <2> QED
    BY <2>1
<1>6. f[n + 1] = current.quantity /\ g[n + 1] = -current.amount
  BY <1>1
<1>7. /\ StatedIn(transactions, n, c)
            = SumFunctionOnSet(f, RowsIn(transactions, n, c, OptionOutcomes))
      /\ StatedIn(transactions, n + 1, c)
            = SumFunctionOnSet(f, RowsIn(transactions, n + 1, c, OptionOutcomes))
  BY DEF StatedIn
<1>8. /\ PaidIn(transactions, n, c)
            = SumFunctionOnSet(g, RowsIn(transactions, n, c, Closes))
      /\ PaidIn(transactions, n + 1, c)
            = SumFunctionOnSet(g, RowsIn(transactions, n + 1, c, Closes))
  BY DEF PaidIn
<1> HIDE DEF f, g
<1>9. SumFunctionOnSet(f, RowsIn(transactions, n + 1, c, OptionOutcomes))
        = SumFunctionOnSet(f, RowsIn(transactions, n, c, OptionOutcomes))
          + (IF transactions[n + 1].contract = c /\ transactions[n + 1].label \in OptionOutcomes
             THEN f[n + 1] ELSE 0)
  BY <1>1, <1>4, OneRowMore
<1>10. SumFunctionOnSet(g, RowsIn(transactions, n + 1, c, Closes))
        = SumFunctionOnSet(g, RowsIn(transactions, n, c, Closes))
          + (IF transactions[n + 1].contract = c /\ transactions[n + 1].label \in Closes
             THEN g[n + 1] ELSE 0)
  BY <1>1, <1>5, OneRowMore
<1>11. StatedIn(transactions, scanned + 1, c) = StatedIn(transactions, scanned, c)
          + (IF current.contract = c /\ current.label \in OptionOutcomes
             THEN current.quantity ELSE 0)
  BY <1>1, <1>6, <1>7, <1>9
<1>12. PaidIn(transactions, scanned + 1, c) = PaidIn(transactions, scanned, c)
          + (IF current.contract = c /\ current.label \in Closes
             THEN -current.amount ELSE 0)
  BY <1>1, <1>6, <1>8, <1>10
<1> QED
  BY <1>11, <1>12

LEMMA RowSumsTyped ==
  ASSUME TypeInv, OptionTypes, RowsRead, scanned <= Len(transactions),
         NEW c \in Contract \ {Missing}
  PROVE  StatedIn(transactions, scanned, c) \in Int /\ PaidIn(transactions, scanned, c) \in Int
<1> DEFINE f == [i \in DOMAIN transactions |-> transactions[i].quantity]
           g == [i \in DOMAIN transactions |-> -transactions[i].amount]
           n == scanned
           S == RowsIn(transactions, n, c, OptionOutcomes)
           T == RowsIn(transactions, n, c, Closes)
<1>1. /\ n \in Nat /\ DOMAIN transactions = 1 .. Len(transactions)
      /\ Len(transactions) \in Nat
      /\ \A i \in DOMAIN transactions : transactions[i] \in DatedRow
  BY DEF TypeInv, OptionTypes
<1>2. \A i \in 1 .. n : i \in DOMAIN transactions /\ i <= scanned
  BY <1>1
<1>3. \A i \in 1 .. n : transactions[i].contract = c =>
        /\ transactions[i].quantity \in Int
        /\ transactions[i].label \in Closes => transactions[i].amount \in Int
  <2> SUFFICES ASSUME NEW i \in 1 .. n, transactions[i].contract = c
               PROVE  /\ transactions[i].quantity \in Int
                      /\ transactions[i].label \in Closes
                            => transactions[i].amount \in Int
    OBVIOUS
  <2>1. /\ transactions[i] \in DatedRow /\ ValidWrittenOptionRow(transactions[i])
        /\ transactions[i].contract # Missing
    BY <1>1, <1>2 DEF RowsRead
  <2> QED
    BY <2>1, RowStates
<1>4. S \in SUBSET (1 .. n) /\ T \in SUBSET (1 .. n)
  BY DEF RowsIn
<1>5. IsFiniteSet(1 .. n)
  BY <1>1, FS_Interval
<1>6. IsFiniteSet(S) /\ IsFiniteSet(T)
  BY <1>4, <1>5, FS_Subset
<1>7. \A i \in S : f[i] \in Int
  BY <1>2, <1>3 DEF RowsIn
<1>8. \A i \in T : g[i] \in Int
  <2> SUFFICES ASSUME NEW i \in T
               PROVE  g[i] \in Int
    OBVIOUS
  <2> DEFINE a == transactions[i].amount
  <2>1. a \in Int /\ g[i] = -a
    BY <1>2, <1>3 DEF RowsIn
  <2> HIDE DEF a, g
  <2> QED
    BY <2>1
<1>9. StatedIn(transactions, n, c) = SumFunctionOnSet(f, S)
      /\ PaidIn(transactions, n, c) = SumFunctionOnSet(g, T)
  BY DEF StatedIn, PaidIn
<1> HIDE DEF f, g, S, T
<1>10. SumFunctionOnSet(f, S) \in Int /\ SumFunctionOnSet(g, T) \in Int
  BY <1>6, <1>7, <1>8, SumType
<1> QED
  BY <1>9, <1>10

-----------------------------------------------------------------------------
(* What each step does to the lots. *)

SameGrants ==
  /\ DOMAIN open_lots' = DOMAIN open_lots
  /\ \A i \in DOMAIN open_lots : /\ open_lots'[i].contract = open_lots[i].contract
                                 /\ open_lots'[i].day = open_lots[i].day
                                 /\ open_lots'[i].quantity = open_lots[i].quantity
SameRemaining == \A i \in DOMAIN open_lots : open_lots'[i].remaining = open_lots[i].remaining
SameClosed == \A i \in DOMAIN open_lots : open_lots'[i].close_cost = open_lots[i].close_cost
SameAssigned == \A i \in DOMAIN open_lots : open_lots'[i].assigned = open_lots[i].assigned

LEMMA LotsKept ==
  ASSUME open_lots' = open_lots
  PROVE  SameGrants /\ SameRemaining /\ SameClosed /\ SameAssigned
BY DEF SameGrants, SameRemaining, SameClosed, SameAssigned

LEMMA LotsTaken ==
  ASSUME TypeInv, OptionTypes, ReadingInv, TakeFromLot
  PROVE  /\ SameGrants /\ SameClosed /\ SameAssigned
         /\ \A i \in DOMAIN open_lots :
               i # lot => open_lots'[i].remaining = open_lots[i].remaining
         /\ open_lots'[lot].remaining = open_lots[lot].remaining - Taken
         /\ lot \in DOMAIN open_lots
<1>1. /\ open_lots' = [open_lots EXCEPT ![lot].remaining = @ - Taken]
      /\ phase = "allocate" /\ needed > 0 /\ lot <= Len(open_lots) /\ Available
  BY DEF TakeFromLot, Allocating
<1>2. lot \in DOMAIN open_lots /\ \A i \in DOMAIN open_lots : open_lots[i] \in Lot
  BY <1>1, TakenType, LotOf
<1> DEFINE left == open_lots[lot].remaining - Taken
           new == [open_lots[lot] EXCEPT !.remaining = left]
<1>3. open_lots' = [open_lots EXCEPT ![lot] = new]
  BY <1>1
<1>4. /\ new.contract = open_lots[lot].contract /\ new.day = open_lots[lot].day
      /\ new.quantity = open_lots[lot].quantity /\ new.remaining = left
      /\ new.close_cost = open_lots[lot].close_cost /\ new.assigned = open_lots[lot].assigned
  <2> HIDE DEF left
  <2> QED
    BY <1>2 DEF Lot
<1> HIDE DEF new
<1>5. /\ DOMAIN open_lots' = DOMAIN open_lots /\ open_lots'[lot] = new
      /\ \A i \in DOMAIN open_lots : i # lot => open_lots'[i] = open_lots[i]
  BY <1>2, <1>3
<1>6. SameGrants
  BY <1>4, <1>5 DEF SameGrants
<1>7. SameClosed /\ SameAssigned
  BY <1>4, <1>5 DEF SameClosed, SameAssigned
<1> QED
  BY <1>2, <1>4, <1>5, <1>6, <1>7

LEMMA LotsClosed ==
  ASSUME TypeInv, OptionTypes, RecordClose
  PROVE  /\ SameGrants /\ SameRemaining /\ SameAssigned
         /\ \A i \in DOMAIN open_lots :
               open_lots'[i].close_cost = open_lots[i].close_cost
                 + SumFunctionOnSet(CloseCost, TakenFrom(allocations, i))
<1> DEFINE cost(i) == open_lots[i].close_cost
                        + SumFunctionOnSet(CloseCost, TakenFrom(allocations, i))
           new(i) == [open_lots[i] EXCEPT !.close_cost = cost(i)]
<1>1. open_lots' = [i \in DOMAIN open_lots |-> new(i)]
  BY DEF RecordClose
<1>2. \A i \in DOMAIN open_lots : open_lots[i] \in Lot
  BY LotOf
<1>3. \A i \in DOMAIN open_lots :
        /\ new(i).contract = open_lots[i].contract /\ new(i).day = open_lots[i].day
        /\ new(i).quantity = open_lots[i].quantity /\ new(i).remaining = open_lots[i].remaining
        /\ new(i).assigned = open_lots[i].assigned /\ new(i).close_cost = cost(i)
  <2> HIDE DEF cost
  <2> QED
    BY <1>2 DEF Lot
<1>4. DOMAIN open_lots' = DOMAIN open_lots /\ \A i \in DOMAIN open_lots : open_lots'[i] = new(i)
  BY <1>1
<1> HIDE DEF new
<1>5. SameGrants
  BY <1>3, <1>4 DEF SameGrants
<1>6. SameRemaining /\ SameAssigned
  BY <1>3, <1>4 DEF SameRemaining, SameAssigned
<1> QED
  BY <1>3, <1>4, <1>5, <1>6

LEMMA LotsAssigned ==
  ASSUME TypeInv, OptionTypes, RecordAssignment
  PROVE  /\ SameGrants /\ SameRemaining /\ SameClosed
         /\ \A i \in DOMAIN open_lots :
               open_lots'[i].assigned =
                  IF TakenFrom(allocations, i) # {}
                  THEN open_lots[i].assigned
                         + allocations[CHOOSE k \in TakenFrom(allocations, i) : TRUE][2]
                  ELSE open_lots[i].assigned
<1> DEFINE taken(i) == IF TakenFrom(allocations, i) # {}
                       THEN open_lots[i].assigned
                              + allocations[CHOOSE k \in TakenFrom(allocations, i) : TRUE][2]
                       ELSE open_lots[i].assigned
           new(i) == [open_lots[i] EXCEPT !.assigned = taken(i)]
<1>1. open_lots' = [i \in DOMAIN open_lots |-> new(i)]
  BY DEF RecordAssignment
<1>2. \A i \in DOMAIN open_lots : open_lots[i] \in Lot
  BY LotOf
<1>3. \A i \in DOMAIN open_lots :
        /\ new(i).contract = open_lots[i].contract /\ new(i).day = open_lots[i].day
        /\ new(i).quantity = open_lots[i].quantity /\ new(i).remaining = open_lots[i].remaining
        /\ new(i).close_cost = open_lots[i].close_cost /\ new(i).assigned = taken(i)
  <2> HIDE DEF taken
  <2> QED
    BY <1>2 DEF Lot
<1>4. DOMAIN open_lots' = DOMAIN open_lots /\ \A i \in DOMAIN open_lots : open_lots'[i] = new(i)
  BY <1>1
<1> HIDE DEF new
<1>5. SameGrants
  BY <1>3, <1>4 DEF SameGrants
<1>6. SameRemaining /\ SameClosed
  BY <1>3, <1>4 DEF SameRemaining, SameClosed
<1> QED
  BY <1>3, <1>4, <1>5, <1>6

LEMMA LotsGranted ==
  ASSUME TypeInv, OptionTypes, ReadingInv, OpenLot
  PROVE  \E l \in Lot :
           /\ open_lots' = Append(open_lots, l)
           /\ l.contract = current.contract /\ l.day = current.posted
           /\ l.quantity = l.remaining /\ l.close_cost = 0 /\ l.assigned = 0
<1> DEFINE l == [row |-> scanned + 1, contract |-> current.contract, day |-> current.day,
             quantity |-> current.quantity, remaining |-> current.quantity,
             assigned |-> 0, close_cost |-> 0]
<1>1. /\ phase = "scan" /\ scanned < Len(transactions) /\ current.contract # Missing
      /\ ValidWrittenOptionRow(current) /\ open_lots' = Append(open_lots, l)
  BY DEF OpenLot, Scanning
<1>2. /\ current.contract \in Contract /\ current.quantity \in Nat
      /\ current.day = current.posted /\ current.posted \in Int /\ scanned \in Nat
  BY <1>1, CurrentRow, ValidRow DEF OptionTypes
<1>3. l \in Lot
  BY <1>2 DEF Lot
<1>4. /\ l.contract = current.contract /\ l.day = current.posted
      /\ l.quantity = l.remaining /\ l.close_cost = 0 /\ l.assigned = 0
  BY <1>2
<1> HIDE DEF l
<1> QED
  BY <1>1, <1>3, <1>4

-----------------------------------------------------------------------------
(* The rows read, through every step. *)

ReadsOn ==
  /\ transactions' = transactions
  /\ \/ scanned' = scanned
     \/ /\ scanned' = scanned + 1 /\ scanned < Len(transactions)
        /\ phase \in {"scan", "allocate"}
        /\ current.contract = Missing \/ ValidWrittenOptionRow(current)

LEMMA ReadingMoves ==
  ASSUME OptionTypes, ReadingInv, ReadingStep
  PROVE  ReadsOn
<1>1. CASE PassRow \/ OpenLot
  BY <1>1 DEF PassRow, OpenLot, Scanning, ReadsOn
<1>2. CASE StartOutcome \/ PassLot \/ TakeFromLot \/ EndScan \/ SettleAssignment
           \/ EmitOptionTransactions
  BY <1>2 DEF StartOutcome, PassLot, TakeFromLot, EndScan, SettleAssignment,
              EmitOptionTransactions, ReadsOn, optionVars
<1>3. CASE RecordClose \/ RecordExpiry \/ RecordAssignment
  <2>1. Allocated /\ EndOutcome
    BY <1>3 DEF RecordClose, RecordExpiry, RecordAssignment
  <2> QED
    BY <2>1 DEF Allocated, EndOutcome, ReadingInv, Ending, ReadsOn
<1> QED
  BY <1>1, <1>2, <1>3 DEF ReadingStep

LEMMA RowsReadMove ==
  ASSUME TypeInv, OptionTypes, ReadingInv, RowsRead, ReadsOn
  PROVE  RowsRead'
<1>1. CASE scanned' = scanned
  BY <1>1 DEF ReadsOn, RowsRead
<1>2. CASE scanned' # scanned
  <2>1. /\ scanned' = scanned + 1 /\ transactions' = transactions
        /\ \A i \in DOMAIN transactions :
             i <= scanned + 1 /\ transactions[i].contract # Missing
               => ValidWrittenOptionRow(transactions[i])
    BY <1>2, RowsReadStep DEF ReadsOn
  <2> QED
    BY <2>1 DEF RowsRead
<1> QED
  BY <1>1, <1>2

-----------------------------------------------------------------------------
(* The lots, through every step. *)

LEMMA ScannedGrows ==
  ASSUME OptionTypes, ReadsOn
  PROVE  scanned \in Nat /\ scanned' \in Nat /\ scanned <= scanned'
BY DEF OptionTypes, ReadsOn

LEMMA LotsStay ==
  ASSUME TypeInv, OptionTypes, LotsInv, ReadsOn, SameGrants, SameRemaining
  PROVE  LotsInv'
<1>1. scanned \in Nat /\ scanned' \in Nat /\ scanned <= scanned' /\ transactions' = transactions
  BY ScannedGrows DEF ReadsOn
<1>2. \A n \in DOMAIN transactions : n \in Nat
  BY DEF TypeInv
<1>3. \A i \in DOMAIN open_lots', n \in DOMAIN transactions' :
        n > scanned' => open_lots'[i].day <= transactions'[n].posted
  <2> SUFFICES ASSUME NEW i \in DOMAIN open_lots, NEW n \in DOMAIN transactions, n > scanned'
               PROVE  open_lots'[i].day <= transactions[n].posted
    BY <1>1 DEF SameGrants
  <2>1. n > scanned
    BY <1>1, <1>2
  <2>2. open_lots[i].day <= transactions[n].posted
    BY <2>1 DEF LotsInv
  <2> QED
    BY <2>2 DEF SameGrants
<1>4. \A i, j \in DOMAIN open_lots' :
        /\ i < j /\ open_lots'[i].contract = open_lots'[j].contract
        /\ open_lots'[j].remaining < open_lots'[j].quantity
        => open_lots'[i].remaining = 0
  BY DEF SameGrants, SameRemaining, LotsInv
<1> QED
  BY <1>3, <1>4 DEF LotsInv

LEMMA LotsGrow ==
  ASSUME TypeInv, OptionTypes, ReadingInv, LotsInv, OpenLot
  PROVE  LotsInv'
<1>1. PICK l \in Lot :
        /\ open_lots' = Append(open_lots, l)
        /\ l.day = current.posted /\ l.quantity = l.remaining
  BY LotsGranted
<1>2. /\ phase = "scan" /\ scanned < Len(transactions) /\ scanned' = scanned + 1
      /\ transactions' = transactions
  BY DEF OpenLot, Scanning
<1> DEFINE size == Len(open_lots)
<1>3. /\ size \in Nat /\ DOMAIN open_lots = 1 .. size /\ open_lots \in Seq(Lot)
      /\ \A i \in DOMAIN open_lots : open_lots[i] \in Lot
  BY DEF OptionTypes
<1>4. /\ DOMAIN open_lots' = 1 .. (size + 1)
      /\ \A i \in 1 .. size : open_lots'[i] = open_lots[i]
      /\ open_lots'[size + 1] = l
  BY <1>1, <1>3
<1>5. \A i \in 1 .. (size + 1) : i \in 1 .. size \/ i = size + 1
  BY <1>3
<1>6. scanned \in Nat /\ \A n \in DOMAIN transactions : n \in Nat
  BY DEF OptionTypes, TypeInv
<1>7. \A i \in 1 .. (size + 1), n \in DOMAIN transactions :
        n > scanned + 1 => open_lots'[i].day <= transactions[n].posted
  <2> SUFFICES ASSUME NEW i \in 1 .. (size + 1), NEW n \in DOMAIN transactions,
                      n > scanned + 1
               PROVE  open_lots'[i].day <= transactions[n].posted
    OBVIOUS
  <2>1. n > scanned
    BY <1>6
  <2>2. CASE i \in 1 .. size
    BY <1>3, <1>4, <2>1, <2>2 DEF LotsInv
  <2>3. CASE i = size + 1
    BY <1>1, <1>2, <1>4, <2>1, <2>3, RowAhead
  <2> QED
    BY <1>5, <2>2, <2>3
<1>8. l.quantity \in Nat
  BY DEF Lot
<1>9. \A i, j \in 1 .. (size + 1) :
        /\ i < j /\ open_lots'[i].contract = open_lots'[j].contract
        /\ open_lots'[j].remaining < open_lots'[j].quantity
        => open_lots'[i].remaining = 0
  <2> SUFFICES ASSUME NEW i \in 1 .. (size + 1), NEW j \in 1 .. (size + 1), i < j,
                      open_lots'[i].contract = open_lots'[j].contract,
                      open_lots'[j].remaining < open_lots'[j].quantity
               PROVE  open_lots'[i].remaining = 0
    OBVIOUS
  <2>1. j # size + 1
    BY <1>1, <1>4, <1>8
  <2>2. i \in 1 .. size /\ j \in 1 .. size
    BY <1>3, <2>1
  <2> QED
    BY <1>3, <1>4, <2>2 DEF LotsInv
<1> QED
  BY <1>2, <1>4, <1>7, <1>9 DEF LotsInv

\* A lot is drawn on only when the earlier ones of its series are empty.
LEMMA LotsDrawn ==
  ASSUME TypeInv, OptionTypes, ReadingInv, LotsInv, OutcomeInv, TakeFromLot
  PROVE  LotsInv'
<1>1. /\ phase = "allocate" /\ needed > 0 /\ scanned' = scanned
      /\ transactions' = transactions
      /\ open_lots[lot].contract = current.contract /\ open_lots[lot].remaining # 0
  BY DEF TakeFromLot, Allocating, Available
<1>2. /\ SameGrants
      /\ \A i \in DOMAIN open_lots :
            i # lot => open_lots'[i].remaining = open_lots[i].remaining
      /\ lot \in DOMAIN open_lots
  BY LotsTaken
<1>3. DOMAIN open_lots = 1 .. Len(open_lots) /\ Len(open_lots) \in Nat
  BY LotOf
<1>4. \A i, j \in DOMAIN open_lots :
        /\ i < j /\ open_lots[i].contract = open_lots[j].contract
        /\ open_lots'[j].remaining < open_lots[j].quantity
        => open_lots'[i].remaining = 0
  <2> SUFFICES ASSUME NEW i \in DOMAIN open_lots, NEW j \in DOMAIN open_lots, i < j,
                      open_lots[i].contract = open_lots[j].contract,
                      open_lots'[j].remaining < open_lots[j].quantity
               PROVE  open_lots'[i].remaining = 0
    OBVIOUS
  <2>1. CASE j = lot
    <3>1. open_lots[i].remaining = 0 /\ i # lot
      BY <1>1, <1>3, <2>1 DEF OutcomeInv
    <3> QED
      BY <1>2, <3>1
  <2>2. CASE j # lot
    <3>1. open_lots[i].remaining = 0
      BY <1>2, <2>2 DEF LotsInv
    <3> QED
      BY <1>1, <1>2, <3>1
  <2> QED
    BY <2>1, <2>2
<1>5. \A i \in DOMAIN open_lots, n \in DOMAIN transactions :
        n > scanned => open_lots'[i].day <= transactions[n].posted
  BY <1>2 DEF SameGrants, LotsInv
<1> QED
  BY <1>1, <1>2, <1>4, <1>5 DEF SameGrants, LotsInv

-----------------------------------------------------------------------------
(* The outcome being allocated, through every step. *)

LEMMA NothingTaken ==
  SumFunctionOnSet(Contracts(<<>>), DOMAIN <<>>) = 0
<1>1. DOMAIN <<>> = {}
  OBVIOUS
<1> QED
  BY <1>1, SumOfNone

LEMMA OutcomeStarts ==
  ASSUME TypeInv, OptionTypes, ReadingInv, StartOutcome
  PROVE  OutcomeInv'
<1>1. /\ phase = "scan" /\ scanned < Len(transactions) /\ current.contract # Missing
      /\ ValidWrittenOptionRow(current)
      /\ lot' = 1 /\ needed' = current.quantity /\ allocations' = <<>>
      /\ UNCHANGED <<transactions, scanned, open_lots>>
  BY DEF StartOutcome, Scanning
<1>2. current' = current
  BY <1>1 DEF current
<1>3. current.quantity \in Nat
  BY <1>1, CurrentRow, ValidRow
<1>4. current'.quantity - needed' = 0
  <2> DEFINE q == current.quantity
  <2>1. needed' = q /\ current'.quantity = q /\ q \in Nat
    BY <1>1, <1>2, <1>3
  <2> HIDE DEF q
  <2> QED
    BY <2>1
<1>5. SumFunctionOnSet(Contracts(allocations'), DOMAIN allocations') = 0
  BY <1>1, NothingTaken
<1>6. \A i \in DOMAIN open_lots : ~(i < 1)
  BY LotOf
<1>7. DOMAIN allocations' = {}
  BY <1>1
<1> QED
  BY <1>1, <1>4, <1>5, <1>6, <1>7 DEF OutcomeInv

LEMMA OutcomeOver ==
  ASSUME phase' # "allocate", allocations' = <<>>
  PROVE  OutcomeInv'
<1>1. DOMAIN allocations' = {}
  OBVIOUS
<1> QED
  BY <1>1 DEF OutcomeInv

LEMMA OutcomePasses ==
  ASSUME TypeInv, OptionTypes, ReadingInv, LotsInv, OutcomeInv, PassLot
  PROVE  OutcomeInv'
<1>1. /\ phase = "allocate" /\ needed > 0 /\ lot <= Len(open_lots) /\ ~Available
      /\ lot' = lot + 1 /\ scanned < Len(transactions)
      /\ UNCHANGED <<phase, transactions, scanned, open_lots, needed, allocations>>
  BY DEF PassLot, Allocating, ReadingInv
<1>2. current' = current
  BY <1>1 DEF current
<1>3. /\ DOMAIN open_lots = 1 .. Len(open_lots) /\ Len(open_lots) \in Nat /\ lot \in Nat
      /\ lot # 0 /\ allocations \in Seq(Allocation)
  BY <1>1, LotOf DEF OptionTypes, ReadingInv
<1>4. lot \in DOMAIN open_lots
  BY <1>1, <1>3
<1>5. open_lots[lot].day <= current.day
  <2>1. /\ current = transactions[scanned + 1] /\ scanned + 1 \in DOMAIN transactions
        /\ scanned \in Nat /\ current \in DatedRow
    BY <1>1, RowAhead
  <2>2. open_lots[lot].day <= transactions[scanned + 1].posted
    BY <1>4, <2>1 DEF LotsInv
  <2>3. current.day = current.posted
    BY <1>1, <2>1, ValidRow DEF ReadingInv, Ending
  <2> QED
    BY <2>1, <2>2, <2>3
<1>6. open_lots[lot].contract = current.contract => open_lots[lot].remaining = 0
  BY <1>1, <1>5 DEF Available
<1>7. \A i \in DOMAIN open_lots :
        i < lot + 1 /\ open_lots[i].contract = current.contract => open_lots[i].remaining = 0
  <2> SUFFICES ASSUME NEW i \in DOMAIN open_lots, i < lot + 1,
                      open_lots[i].contract = current.contract
               PROVE  open_lots[i].remaining = 0
    OBVIOUS
  <2>1. i < lot \/ i = lot
    BY <1>3
  <2> QED
    BY <1>1, <1>6, <2>1 DEF OutcomeInv
<1>8. \A k \in DOMAIN allocations : allocations[k][1] \in Nat
  BY <1>3, AllocationOf
<1>9. \A k \in DOMAIN allocations : allocations[k][1] < lot + 1
  BY <1>3, <1>8 DEF OutcomeInv
<1> QED
  BY <1>1, <1>2, <1>7, <1>9 DEF OutcomeInv

LEMMA ContractsType ==
  ASSUME NEW list \in Seq(Allocation)
  PROVE  SumFunctionOnSet(Contracts(list), DOMAIN list) \in Int
<1>1. \A k \in DOMAIN list : Contracts(list)[k] \in Int
  BY AllocationOf DEF Contracts
<1> QED
  BY <1>1, AllocationOf, SumType

LEMMA ContractsAppend ==
  ASSUME NEW list \in Seq(Allocation), NEW a \in Allocation
  PROVE  SumFunctionOnSet(Contracts(Append(list, a)), DOMAIN Append(list, a))
           = SumFunctionOnSet(Contracts(list), DOMAIN list) + a[2]
<1> DEFINE new == Append(list, a)
           n == Len(list)
           x == n + 1
           f == Contracts(list)
           g == Contracts(new)
           S == DOMAIN list
<1>1. /\ new \in Seq(Allocation) /\ n \in Nat /\ S = 1 .. n /\ DOMAIN new = 1 .. x
      /\ \A k \in 1 .. n : new[k] = list[k]
      /\ new[x] = a
  OBVIOUS
<1>2. a[2] \in Nat
  BY DEF Allocation
<1>3. x \in 1 .. x /\ x \notin S /\ 1 .. x = S \cup {x}
  BY <1>1
<1>4. \A k \in S : k \in DOMAIN new /\ g[k] = list[k][2] /\ f[k] = list[k][2]
  BY <1>1 DEF Contracts
<1>5. g[x] = a[2]
  BY <1>1, <1>3 DEF Contracts
<1>6. \A k \in S : list[k][2] \in Int
  BY AllocationOf
<1>7. IsFiniteSet(S)
  BY AllocationOf
<1>8. DOMAIN new = S \cup {x}
  BY <1>1, <1>3
<1> HIDE DEF new, n, x, f, g, S
<1>9. SumFunctionOnSet(g, S) = SumFunctionOnSet(f, S)
  BY <1>4, <1>7, SumSame
<1>10. \A k \in S : g[k] \in Int
  BY <1>4, <1>6
<1>11. g[x] \in Int
  BY <1>2, <1>5
<1>12. SumFunctionOnSet(g, S \cup {x}) = SumFunctionOnSet(g, S) + g[x]
  BY <1>3, <1>7, <1>10, <1>11, SumAdd
<1> QED
  BY <1>5, <1>8, <1>9, <1>12 DEF g, f, S, new

LEMMA OutcomeTakes ==
  ASSUME TypeInv, OptionTypes, ReadingInv, OutcomeInv, TakeFromLot
  PROVE  OutcomeInv'
<1>1. /\ phase = "allocate" /\ needed > 0 /\ lot <= Len(open_lots) /\ Available
      /\ allocations' = Append(allocations, <<lot, Taken>>)
      /\ needed' = needed - Taken /\ lot' = lot + 1 /\ scanned < Len(transactions)
      /\ UNCHANGED <<phase, transactions, scanned>>
  BY DEF TakeFromLot, Allocating, ReadingInv
<1>2. /\ SameGrants
      /\ \A i \in DOMAIN open_lots :
            i # lot => open_lots'[i].remaining = open_lots[i].remaining
      /\ open_lots'[lot].remaining = open_lots[lot].remaining - Taken
      /\ lot \in DOMAIN open_lots
  BY LotsTaken
<1>3. /\ Taken \in Nat \ {0} /\ Taken <= needed
      /\ Taken = needed \/ Taken = open_lots[lot].remaining
      /\ open_lots[lot].contract = current.contract
  BY <1>1, TakenType DEF Available
<1>4. /\ lot \in Nat /\ needed \in Nat /\ allocations \in Seq(Allocation)
      /\ \A i \in DOMAIN open_lots : i \in Nat /\ open_lots[i].remaining \in Nat
  BY LotOf DEF OptionTypes
<1>5. current' = current
  BY <1>1 DEF current
<1> DEFINE n == Len(allocations)
           a == <<lot, Taken>>
<1>6. a \in Allocation /\ a[1] = lot /\ a[2] = Taken
  BY <1>3, <1>4 DEF Allocation
<1>7. /\ n \in Nat /\ DOMAIN allocations = 1 .. n /\ DOMAIN allocations' = 1 .. (n + 1)
      /\ \A k \in 1 .. n : allocations'[k] = allocations[k]
      /\ allocations'[n + 1] = a
  BY <1>1, <1>4, <1>6
<1>8. SumFunctionOnSet(Contracts(allocations'), DOMAIN allocations')
        = current'.quantity - needed'
  <2> DEFINE taken == SumFunctionOnSet(Contracts(allocations), DOMAIN allocations)
             q == current.quantity
  <2>1. SumFunctionOnSet(Contracts(allocations'), DOMAIN allocations') = taken + Taken
    BY <1>1, <1>4, <1>6, ContractsAppend
  <2>2. taken = q - needed
    BY <1>1 DEF OutcomeInv
  <2>3. current'.quantity - needed' = q - (needed - Taken)
    BY <1>1, <1>5
  <2>4. q \in Nat
    BY <1>1, RowAhead, ValidRow DEF ReadingInv, Ending
  <2> HIDE DEF taken, q
  <2> QED
    BY <1>3, <1>4, <2>1, <2>2, <2>3, <2>4
<1>9. \A k \in 1 .. (n + 1) : k \in 1 .. n \/ k = n + 1
  BY <1>7
<1>10. \A k \in 1 .. n : /\ allocations[k][1] \in DOMAIN open_lots
                         /\ allocations[k][1] < lot
                         /\ allocations[k][1] < lot + 1 /\ allocations[k][1] # lot
                         /\ open_lots[allocations[k][1]].contract = current.contract
  BY <1>4, <1>7 DEF OutcomeInv
<1> HIDE DEF n, a
<1>11. \A k \in 1 .. (n + 1) :
        /\ allocations'[k][1] \in DOMAIN open_lots' /\ allocations'[k][1] < lot + 1
        /\ open_lots'[allocations'[k][1]].contract = current.contract
  <2> SUFFICES ASSUME NEW k \in 1 .. (n + 1)
               PROVE  /\ allocations'[k][1] \in DOMAIN open_lots
                      /\ allocations'[k][1] < lot + 1
                      /\ open_lots[allocations'[k][1]].contract = current.contract
    BY <1>2 DEF SameGrants
  <2>1. CASE k \in 1 .. n
    BY <1>7, <1>10, <2>1
  <2>2. CASE k = n + 1
    <3>1. allocations'[k][1] = lot
      BY <1>6, <1>7, <2>2
    <3> QED
      BY <1>2, <1>3, <1>4, <3>1
  <2> QED
    BY <1>9, <2>1, <2>2
<1>12. \A k, m \in 1 .. (n + 1) : allocations'[k][1] = allocations'[m][1] => k = m
  <2>1. \A k \in 1 .. n : allocations'[k][1] = allocations[k][1]
    BY <1>7
  <2>2. allocations'[n + 1][1] = lot
    BY <1>6, <1>7
  <2>3. \A k, m \in 1 .. n : allocations[k][1] = allocations[m][1] => k = m
    BY <1>7 DEF OutcomeInv
  <2> QED
    BY <1>9, <1>10, <2>1, <2>2, <2>3
<1>13. ASSUME needed' > 0, NEW i \in DOMAIN open_lots, i < lot + 1,
              open_lots[i].contract = current.contract
       PROVE  open_lots'[i].remaining = 0
  <2>1. Taken = open_lots[lot].remaining
    BY <1>1, <1>3, <1>4, <1>13
  <2>2. CASE i = lot
    BY <1>2, <1>4, <2>1, <2>2
  <2>3. CASE i # lot
    <3>1. i < lot
      BY <1>4, <1>13, <2>3
    <3>2. open_lots[i].remaining = 0
      BY <1>1, <1>13, <3>1 DEF OutcomeInv
    <3> QED
      BY <1>2, <2>3, <3>2
  <2> QED
    BY <2>2, <2>3
<1>14. needed' > 0 => \A i \in DOMAIN open_lots' :
         i < lot' /\ open_lots'[i].contract = current'.contract => open_lots'[i].remaining = 0
  BY <1>1, <1>2, <1>5, <1>13 DEF SameGrants
<1> QED
  BY <1>1, <1>5, <1>7, <1>8, <1>11, <1>12, <1>14 DEF OutcomeInv

-----------------------------------------------------------------------------
(* What left the lots against what the rows stated, through every step. *)

LEMMA SumsFinding ==
  ASSUME TypeInv, OptionTypes, ReadingInv, SumsInv, RowsRead, ReadingStep,
         PassRow \/ StartOutcome \/ PassLot \/ EndScan \/ SettleAssignment
  PROVE  SumsInv'
<1> SUFFICES ASSUME NEW c \in Contract \ {Missing}
             PROVE  /\ LeftIn(open_lots', c) = StatedIn(transactions', scanned', c)
                         + (IF phase' = "allocate" /\ current'.contract = c
                            THEN current'.quantity - needed' ELSE 0)
                    /\ ClosedIn(open_lots', c) = PaidIn(transactions', scanned', c)
  BY DEF SumsInv
<1>1. /\ LeftIn(open_lots, c) = StatedIn(transactions, scanned, c)
            + (IF phase = "allocate" /\ current.contract = c
               THEN current.quantity - needed ELSE 0)
      /\ ClosedIn(open_lots, c) = PaidIn(transactions, scanned, c)
  BY DEF SumsInv
<1>2. CASE PassRow
  <2>1. /\ phase = "scan" /\ phase' = "scan" /\ scanned < Len(transactions)
        /\ current.contract = Missing /\ scanned' = scanned + 1
        /\ transactions' = transactions /\ open_lots' = open_lots
    BY <1>2 DEF PassRow, Scanning
  <2>2. scanned <= Len(transactions)
    BY <2>1 DEF ReadingInv
  <2>3. StatedIn(transactions, scanned, c) \in Int /\ PaidIn(transactions, scanned, c) \in Int
    BY <2>2, RowSumsTyped
  <2>4. /\ StatedIn(transactions, scanned + 1, c) = StatedIn(transactions, scanned, c) + 0
        /\ PaidIn(transactions, scanned + 1, c) = PaidIn(transactions, scanned, c) + 0
    BY <2>1, RowSums
  <2> QED
    BY <1>1, <2>1, <2>3, <2>4
<1>3. CASE StartOutcome
  <2>1. /\ phase = "scan" /\ phase' = "allocate" /\ scanned < Len(transactions)
        /\ current.contract # Missing /\ ValidWrittenOptionRow(current)
        /\ needed' = current.quantity
        /\ UNCHANGED <<transactions, scanned, open_lots>>
    BY <1>3 DEF StartOutcome, Scanning
  <2>2. current' = current
    BY <2>1 DEF current
  <2>3. current.quantity \in Nat
    BY <2>1, CurrentRow, ValidRow
  <2>4. current'.quantity - needed' = 0
    <3> DEFINE q == current.quantity
    <3>1. needed' = q /\ current'.quantity = q /\ q \in Nat
      BY <2>1, <2>2, <2>3
    <3> HIDE DEF q
    <3> QED
      BY <3>1
  <2> QED
    BY <1>1, <2>1, <2>4
<1>4. CASE PassLot
  <2>1. UNCHANGED <<phase, transactions, scanned, open_lots, needed>>
    BY <1>4 DEF PassLot
  <2>2. current' = current
    BY <2>1 DEF current
  <2> QED
    BY <1>1, <2>1, <2>2
<1>5. CASE EndScan \/ SettleAssignment
  <2>1. /\ UNCHANGED <<transactions, scanned, open_lots>>
        /\ phase # "allocate" /\ phase' # "allocate"
    BY <1>5 DEF EndScan, SettleAssignment, Settling, optionVars
  <2> QED
    BY <1>1, <2>1
<1> QED
  BY <1>2, <1>3, <1>4, <1>5

LEMMA SumsOpen ==
  ASSUME TypeInv, OptionTypes, ReadingInv, SumsInv, RowsRead, OpenLot
  PROVE  SumsInv'
<1> SUFFICES ASSUME NEW c \in Contract \ {Missing}
             PROVE  /\ LeftIn(open_lots', c) = StatedIn(transactions', scanned', c)
                         + (IF phase' = "allocate" /\ current'.contract = c
                            THEN current'.quantity - needed' ELSE 0)
                    /\ ClosedIn(open_lots', c) = PaidIn(transactions', scanned', c)
  BY DEF SumsInv
<1>1. /\ phase = "scan" /\ phase' = "scan" /\ scanned < Len(transactions)
      /\ current.contract # Missing /\ ValidWrittenOptionRow(current)
      /\ current.label \notin OptionOutcomes /\ current.label \notin Closes
      /\ scanned' = scanned + 1 /\ transactions' = transactions
  BY DEF OpenLot, Scanning, OptionOutcomes, Closes
<1>2. /\ LeftIn(open_lots, c) = StatedIn(transactions, scanned, c) + 0
      /\ ClosedIn(open_lots, c) = PaidIn(transactions, scanned, c)
  BY <1>1 DEF SumsInv
<1>3. PICK l \in Lot : /\ open_lots' = Append(open_lots, l)
                       /\ l.quantity = l.remaining /\ l.close_cost = 0
  BY LotsGranted
<1>4. /\ LeftIn(open_lots', c) = LeftIn(open_lots, c)
      /\ ClosedIn(open_lots', c) = ClosedIn(open_lots, c)
  BY <1>3, LotAdded DEF OptionTypes
<1>5. scanned <= Len(transactions)
  BY <1>1 DEF ReadingInv
<1>6. StatedIn(transactions, scanned, c) \in Int /\ PaidIn(transactions, scanned, c) \in Int
  BY <1>5, RowSumsTyped
<1>7. /\ StatedIn(transactions, scanned + 1, c) = StatedIn(transactions, scanned, c) + 0
      /\ PaidIn(transactions, scanned + 1, c) = PaidIn(transactions, scanned, c) + 0
  BY <1>1, RowSums
<1> QED
  BY <1>1, <1>2, <1>4, <1>6, <1>7

LEMMA SumsTake ==
  ASSUME TypeInv, OptionTypes, ReadingInv, SumsInv, RowsRead, TakeFromLot, OptionTypes'
  PROVE  SumsInv'
<1> SUFFICES ASSUME NEW c \in Contract \ {Missing}
             PROVE  /\ LeftIn(open_lots', c) = StatedIn(transactions', scanned', c)
                         + (IF phase' = "allocate" /\ current'.contract = c
                            THEN current'.quantity - needed' ELSE 0)
                    /\ ClosedIn(open_lots', c) = PaidIn(transactions', scanned', c)
  BY DEF SumsInv
<1>1. /\ phase = "allocate" /\ phase' = "allocate" /\ needed > 0
      /\ lot <= Len(open_lots) /\ Available /\ needed' = needed - Taken
      /\ scanned < Len(transactions)
      /\ UNCHANGED <<transactions, scanned>>
  BY DEF TakeFromLot, Allocating, ReadingInv
<1>2. current' = current
  BY <1>1 DEF current
<1>3. /\ SameGrants /\ SameClosed
      /\ \A i \in DOMAIN open_lots :
            i # lot => open_lots'[i].remaining = open_lots[i].remaining
      /\ open_lots'[lot].remaining = open_lots[lot].remaining - Taken
      /\ lot \in DOMAIN open_lots
  BY LotsTaken
<1>4. /\ Taken \in Nat /\ open_lots[lot].contract = current.contract
      /\ open_lots[lot].remaining \in Nat /\ needed \in Nat
  BY <1>1, <1>3, TakenType, LotOf DEF Available, OptionTypes
<1>5. open_lots \in Seq(Lot) /\ open_lots' \in Seq(Lot)
  BY DEF OptionTypes
<1>6. /\ LeftIn(open_lots', c) = LeftIn(open_lots, c)
            + (IF open_lots[lot].contract = c
               THEN open_lots[lot].remaining - open_lots'[lot].remaining ELSE 0)
      /\ ClosedIn(open_lots', c) = ClosedIn(open_lots, c)
  BY <1>3, <1>5, LotDrawn DEF SameGrants, SameClosed
<1>7. open_lots[lot].remaining - open_lots'[lot].remaining = Taken
  <2> DEFINE a == open_lots[lot].remaining
             b == open_lots'[lot].remaining
             t == Taken
  <2>1. a \in Nat /\ t \in Nat /\ b = a - t
    BY <1>3, <1>4
  <2> HIDE DEF a, b, t
  <2>2. a - b = t
    BY <2>1
  <2> QED
    BY <2>2 DEF a, b, t
<1>8. /\ LeftIn(open_lots, c) = StatedIn(transactions, scanned, c)
            + (IF current.contract = c THEN current.quantity - needed ELSE 0)
      /\ ClosedIn(open_lots, c) = PaidIn(transactions, scanned, c)
  BY <1>1 DEF SumsInv
<1>9. scanned <= Len(transactions)
  BY <1>1 DEF ReadingInv
<1>10. StatedIn(transactions, scanned, c) \in Int
  BY <1>9, RowSumsTyped
<1>11. current.quantity \in Nat
  BY <1>1, RowAhead, ValidRow DEF ReadingInv, Ending
<1>12. LeftIn(open_lots', c) = StatedIn(transactions, scanned, c)
         + (IF current.contract = c THEN current.quantity - needed' ELSE 0)
  <2> DEFINE q == current.quantity
             s == StatedIn(transactions, scanned, c)
             t == Taken
  <2>1. CASE current.contract = c
    <3>1. LeftIn(open_lots', c) = (s + (q - needed)) + t /\ needed' = needed - t
      BY <1>1, <1>4, <1>6, <1>7, <1>8, <2>1
    <3>2. q \in Nat /\ s \in Int /\ t \in Nat /\ needed \in Nat
      BY <1>4, <1>10, <1>11
    <3> HIDE DEF q, s, t
    <3>3. LeftIn(open_lots', c) = s + (q - needed')
      BY <3>1, <3>2
    <3> QED
      BY <2>1, <3>3 DEF q, s
  <2>2. CASE current.contract # c
    <3>1. LeftIn(open_lots', c) = (s + 0) + 0
      BY <1>4, <1>6, <1>8, <2>2
    <3>2. s \in Int
      BY <1>10
    <3> HIDE DEF s
    <3>3. LeftIn(open_lots', c) = s + 0
      BY <3>1, <3>2
    <3> QED
      BY <2>2, <3>3 DEF s
  <2> QED
    BY <2>1, <2>2
<1> QED
  BY <1>1, <1>2, <1>6, <1>8, <1>12

\* A row that ends contracts, its outcome fully allocated.
LEMMA OutcomeRead ==
  ASSUME OptionTypes, ReadingInv, Allocated
  PROVE  /\ phase = "allocate" /\ needed = 0 /\ scanned < Len(transactions)
         /\ scanned <= Len(transactions)
         /\ current.contract # Missing /\ ValidWrittenOptionRow(current)
         /\ current.label \in OptionOutcomes
BY DEF Allocated, ReadingInv, Ending

LEMMA SumsRecordLeft ==
  ASSUME TypeInv, OptionTypes, ReadingInv, SumsInv, RowsRead, Allocated,
         SameGrants, SameRemaining, NEW c \in Contract \ {Missing}
  PROVE  LeftIn(open_lots', c) = StatedIn(transactions, scanned + 1, c)
<1>1. /\ phase = "allocate" /\ needed = 0 /\ scanned < Len(transactions)
      /\ scanned <= Len(transactions)
      /\ current.contract # Missing /\ ValidWrittenOptionRow(current)
      /\ current.label \in OptionOutcomes
  BY OutcomeRead
<1>2. current.quantity \in Nat
  BY <1>1, RowAhead, ValidRow
<1>3. LeftIn(open_lots', c) = LeftIn(open_lots, c)
  <2>1. open_lots \in Seq(Lot)
    BY DEF OptionTypes
  <2> QED
    BY <2>1, LeftSame DEF SameGrants, SameRemaining
<1>4. LeftIn(open_lots, c) = StatedIn(transactions, scanned, c)
         + (IF current.contract = c THEN current.quantity - needed ELSE 0)
  BY <1>1 DEF SumsInv
<1>5. StatedIn(transactions, scanned + 1, c) = StatedIn(transactions, scanned, c)
         + (IF current.contract = c THEN current.quantity ELSE 0)
  BY <1>1, RowSums
<1>6. current.quantity - needed = current.quantity
  <2> DEFINE q == current.quantity
  <2>1. q \in Nat
    BY <1>2
  <2> HIDE DEF q
  <2>2. q - needed = q
    BY <1>1, <2>1
  <2> QED
    BY <2>2 DEF q
<1> QED
  BY <1>3, <1>4, <1>5, <1>6

LEMMA SumsRecordOther ==
  ASSUME TypeInv, OptionTypes, ReadingInv, SumsInv, RowsRead,
         RecordExpiry \/ RecordAssignment
  PROVE  SumsInv'
<1> SUFFICES ASSUME NEW c \in Contract \ {Missing}
             PROVE  /\ LeftIn(open_lots', c) = StatedIn(transactions', scanned', c)
                         + (IF phase' = "allocate" /\ current'.contract = c
                            THEN current'.quantity - needed' ELSE 0)
                    /\ ClosedIn(open_lots', c) = PaidIn(transactions', scanned', c)
  BY DEF SumsInv
<1>1. /\ Allocated /\ phase' = "scan" /\ scanned' = scanned + 1
      /\ transactions' = transactions /\ current.label \notin Closes
  BY DEF RecordExpiry, RecordAssignment, EndOutcome, Closes
<1>2. SameGrants /\ SameRemaining /\ SameClosed
  BY LotsKept, LotsAssigned DEF RecordExpiry
<1>3. LeftIn(open_lots', c) = StatedIn(transactions, scanned + 1, c)
  BY <1>1, <1>2, SumsRecordLeft
<1>4. /\ phase = "allocate" /\ scanned < Len(transactions) /\ scanned <= Len(transactions)
      /\ ValidWrittenOptionRow(current)
  BY <1>1, OutcomeRead
<1>5. PaidIn(transactions, scanned + 1, c) = PaidIn(transactions, scanned, c) + 0
  BY <1>1, <1>4, RowSums
<1>6. PaidIn(transactions, scanned, c) \in Int
  BY <1>4, RowSumsTyped
<1>7. ClosedIn(open_lots', c) = ClosedIn(open_lots, c)
  <2>1. open_lots \in Seq(Lot)
    BY DEF OptionTypes
  <2> QED
    BY <1>2, <2>1, ClosedSame DEF SameGrants, SameClosed
<1>8. ClosedIn(open_lots, c) = PaidIn(transactions, scanned, c)
  BY DEF SumsInv
<1>9. StatedIn(transactions, scanned + 1, c) \in Int
  <2>1. StatedIn(transactions, scanned, c) \in Int
    BY <1>4, RowSumsTyped
  <2>2. current.quantity \in Int
    BY <1>1, OutcomeRead, RowAhead, RowStates
  <2>3. StatedIn(transactions, scanned + 1, c) = StatedIn(transactions, scanned, c)
          + (IF current.contract = c /\ current.label \in OptionOutcomes
             THEN current.quantity ELSE 0)
    BY <1>4, RowSums
  <2> QED
    BY <2>1, <2>2, <2>3
<1> QED
  BY <1>1, <1>3, <1>5, <1>6, <1>7, <1>8, <1>9

\* The outcome took something, so its close has lots to go to.
LEMMA SomethingTaken ==
  ASSUME TypeInv, OptionTypes, ReadingInv, OutcomeInv, Allocated
  PROVE  DOMAIN allocations # {}
<1> DEFINE q == current.quantity
           taken == SumFunctionOnSet(Contracts(allocations), DOMAIN allocations)
<1>1. phase = "allocate" /\ needed = 0
  BY OutcomeRead
<1>2. q \in Nat \ {0}
  BY OutcomeRead, RowAhead, ValidRow
<1>3. taken = q - needed
  BY <1>1 DEF OutcomeInv
<1>4. DOMAIN allocations = {} => taken = 0
  BY SumOfNone
<1> HIDE DEF q, taken
<1>5. taken # 0
  BY <1>1, <1>2, <1>3
<1> QED
  BY <1>4, <1>5

LEMMA SumsRecordClose ==
  ASSUME TypeInv, OptionTypes, ReadingInv, SumsInv, RowsRead, OutcomeInv, RecordClose
  PROVE  SumsInv'
<1> SUFFICES ASSUME NEW c \in Contract \ {Missing}
             PROVE  /\ LeftIn(open_lots', c) = StatedIn(transactions', scanned', c)
                         + (IF phase' = "allocate" /\ current'.contract = c
                            THEN current'.quantity - needed' ELSE 0)
                    /\ ClosedIn(open_lots', c) = PaidIn(transactions', scanned', c)
  BY DEF SumsInv
<1>1. /\ Allocated /\ phase' = "scan" /\ scanned' = scanned + 1
      /\ transactions' = transactions /\ current.label \in Closes /\ IsClose(current)
  BY DEF RecordClose, EndOutcome, Closes, IsClose
<1>2. /\ SameGrants /\ SameRemaining
      /\ \A i \in DOMAIN open_lots :
            open_lots'[i].close_cost = open_lots[i].close_cost
              + SumFunctionOnSet(CloseCost, TakenFrom(allocations, i))
  BY LotsClosed
<1>3. LeftIn(open_lots', c) = StatedIn(transactions, scanned + 1, c)
  BY <1>1, <1>2, SumsRecordLeft
<1>4. /\ phase = "allocate" /\ scanned < Len(transactions) /\ scanned <= Len(transactions)
      /\ ValidWrittenOptionRow(current)
  BY <1>1, OutcomeRead
<1>5. PaidIn(transactions, scanned + 1, c) = PaidIn(transactions, scanned, c)
        + (IF current.contract = c THEN -current.amount ELSE 0)
  BY <1>1, <1>4, RowSums
<1>6. /\ \A k \in DOMAIN allocations : CloseCost[k] \in Int
      /\ SumFunctionOnSet(CloseCost, DOMAIN allocations) = -current.amount
  BY <1>1, <1>4, CostType, SomethingTaken
<1>7. \A k \in DOMAIN allocations :
        /\ CloseCost[k] \in Int /\ allocations[k][1] \in DOMAIN open_lots
        /\ open_lots[allocations[k][1]].contract = current.contract
  BY <1>6 DEF OutcomeInv
<1>8. ClosedIn(open_lots', c) = ClosedIn(open_lots, c)
        + (IF c = current.contract
           THEN SumFunctionOnSet(CloseCost, DOMAIN allocations) ELSE 0)
  <2> DEFINE owner == current.contract
             cost == CloseCost
             new == open_lots'
  <2>1. open_lots \in Seq(Lot) /\ allocations \in Seq(Allocation)
    BY DEF OptionTypes
  <2>2. DOMAIN new = DOMAIN open_lots
    BY <1>2 DEF SameGrants
  <2>3. \A k \in DOMAIN allocations :
          /\ cost[k] \in Int /\ allocations[k][1] \in DOMAIN open_lots
          /\ open_lots[allocations[k][1]].contract = owner
    BY <1>7
  <2>4. \A i \in DOMAIN open_lots : new[i].contract = open_lots[i].contract
    BY <1>2 DEF SameGrants
  <2>6. \A i \in DOMAIN open_lots :
          new[i].close_cost
            = open_lots[i].close_cost + SumFunctionOnSet(cost, TakenFrom(allocations, i))
    BY <1>2
  <2> HIDE DEF owner, cost, new
  <2>7. \A k \in DOMAIN allocations : cost[k] \in Int
    BY <2>3
  <2>8. \A k \in DOMAIN allocations : allocations[k][1] \in DOMAIN open_lots
    BY <2>3
  <2>9. CASE c = owner
    <3>1. \A k \in DOMAIN allocations : open_lots[allocations[k][1]].contract = c
      BY <2>3, <2>9
    <3>2. ClosedIn(new, c) = ClosedIn(open_lots, c) + SumFunctionOnSet(cost, DOMAIN allocations)
      BY <2>1, <2>2, <2>4, <2>6, <2>7, <2>8, <3>1, CloseSpreads
    <3> QED
      BY <2>9, <3>2 DEF owner, cost, new
  <2>10. CASE c # owner
    <3>1. \A i \in LotsIn(open_lots, c) : new[i].close_cost = open_lots[i].close_cost
      <4> SUFFICES ASSUME NEW i \in LotsIn(open_lots, c)
                   PROVE  new[i].close_cost = open_lots[i].close_cost
        OBVIOUS
      <4>1. i \in DOMAIN open_lots /\ open_lots[i].contract = c
        BY DEF LotsIn
      <4>2. TakenFrom(allocations, i) = {}
        BY <2>3, <2>10, <4>1 DEF TakenFrom
      <4>3. SumFunctionOnSet(cost, TakenFrom(allocations, i)) = 0
        BY <4>2, SumOfNone
      <4>4. open_lots[i].close_cost \in Int
        BY <2>1, <4>1, LotsTyped
      <4> QED
        BY <2>6, <4>1, <4>3, <4>4
    <3>2. ClosedIn(new, c) = ClosedIn(open_lots, c)
      BY <2>1, <2>2, <2>4, <3>1, ClosedElsewhere
    <3>3. ClosedIn(new, c) = ClosedIn(open_lots, c) + 0
      <4>1. ClosedIn(open_lots, c) = PaidIn(transactions, scanned, c)
        BY DEF SumsInv
      <4>2. PaidIn(transactions, scanned, c) \in Int
        BY <1>4, RowSumsTyped
      <4> QED
        BY <3>2, <4>1, <4>2
    <3> QED
      BY <2>10, <3>3 DEF owner, cost, new
  <2> QED
    BY <2>9, <2>10
<1>9. ClosedIn(open_lots, c) = PaidIn(transactions, scanned, c)
  BY DEF SumsInv
<1>10. ClosedIn(open_lots', c) = PaidIn(transactions, scanned + 1, c)
  BY <1>5, <1>6, <1>8, <1>9
<1>11. StatedIn(transactions, scanned + 1, c) \in Int
  <2>1. StatedIn(transactions, scanned, c) \in Int
    BY <1>4, RowSumsTyped
  <2>2. current.quantity \in Int
    BY <1>1, OutcomeRead, RowAhead, RowStates
  <2>3. StatedIn(transactions, scanned + 1, c) = StatedIn(transactions, scanned, c)
          + (IF current.contract = c /\ current.label \in OptionOutcomes
             THEN current.quantity ELSE 0)
    BY <1>4, RowSums
  <2> QED
    BY <2>1, <2>2, <2>3
<1> QED
  BY <1>1, <1>3, <1>10, <1>11

-----------------------------------------------------------------------------
(* What the assignments took, through every step. *)

LEMMA AssignedTyped ==
  ASSUME NEW list \in Seq(Assignment), NEW i
  PROVE  /\ \A k \in DOMAIN list :
               SumFunctionOnSet(Contracts(list[k].allocations),
                                TakenFrom(list[k].allocations, i)) \in Int
         /\ \A k \in DOMAIN list : list[k].allocations \in Seq(Allocation)
         /\ DOMAIN list = 1 .. Len(list) /\ Len(list) \in Nat /\ IsFiniteSet(DOMAIN list)
<1>1. /\ \A k \in DOMAIN list : list[k] \in Assignment
      /\ DOMAIN list = 1 .. Len(list) /\ Len(list) \in Nat
  OBVIOUS
<1>2. \A a \in Assignment : a.allocations \in Seq(Allocation)
  BY DEF Assignment
<1>3. \A k \in DOMAIN list : list[k].allocations \in Seq(Allocation)
  BY <1>1, <1>2
<1>4. ASSUME NEW taken \in Seq(Allocation)
      PROVE  SumFunctionOnSet(Contracts(taken), TakenFrom(taken, i)) \in Int
  <2>1. TakenFrom(taken, i) \in SUBSET (DOMAIN taken) /\ IsFiniteSet(TakenFrom(taken, i))
    BY TakenTyped
  <2>2. \A k \in DOMAIN taken : Contracts(taken)[k] \in Int
    BY AllocationOf DEF Contracts
  <2> QED
    BY <2>1, <2>2, SumType
<1>5. IsFiniteSet(1 .. Len(list))
  BY <1>1, FS_Interval
<1>6. IsFiniteSet(DOMAIN list)
  BY <1>1, <1>5, Zenon
<1> QED
  BY <1>1, <1>3, <1>4, <1>6

LEMMA AssignedStays ==
  ASSUME AssignedInv, assignments' = assignments, SameGrants, SameAssigned
  PROVE  AssignedInv'
BY DEF AssignedInv, SameGrants, SameAssigned

LEMMA AssignedGrows ==
  ASSUME TypeInv, OptionTypes, ReadingInv, AssignedInv, OpenLot
  PROVE  AssignedInv'
<1> DEFINE size == Len(open_lots)
           f == [k \in DOMAIN assignments |->
                   SumFunctionOnSet(Contracts(assignments[k].allocations),
                                    TakenFrom(assignments[k].allocations, size + 1))]
<1>1. PICK l \in Lot : open_lots' = Append(open_lots, l) /\ l.assigned = 0
  BY LotsGranted
<1>2. assignments' = assignments /\ assignments \in Seq(Assignment)
  BY DEF OpenLot, OptionTypes
<1>3. /\ size \in Nat /\ DOMAIN open_lots = 1 .. size /\ DOMAIN open_lots' = 1 .. (size + 1)
      /\ \A i \in 1 .. size : open_lots'[i] = open_lots[i]
      /\ open_lots'[size + 1] = l
  BY <1>1 DEF OptionTypes
<1>4. \A i \in 1 .. size : i \in 1 .. (size + 1) /\ i # size + 1
  BY <1>3
<1>5. \A i \in 1 .. (size + 1) : i \in 1 .. size \/ i = size + 1
  BY <1>3
<1>6. \A k \in DOMAIN assignments : f[k] = 0
  <2> SUFFICES ASSUME NEW k \in DOMAIN assignments
               PROVE  SumFunctionOnSet(Contracts(assignments[k].allocations),
                                       TakenFrom(assignments[k].allocations, size + 1)) = 0
    OBVIOUS
  <2>1. \A m \in DOMAIN assignments[k].allocations :
          assignments[k].allocations[m][1] # size + 1
    BY <1>3, <1>4 DEF AssignedInv
  <2>2. TakenFrom(assignments[k].allocations, size + 1) = {}
    BY <2>1 DEF TakenFrom
  <2> QED
    BY <2>2, SumOfNone
<1>7. AssignedIn(assignments, size + 1) = SumFunctionOnSet(f, DOMAIN assignments)
  BY DEF AssignedIn
<1>8. IsFiniteSet(DOMAIN assignments)
  BY <1>2, AssignedTyped
<1> HIDE DEF f
<1>9. AssignedIn(assignments, size + 1) = 0
  BY <1>6, <1>7, <1>8, SumOfZeros
<1>10. \A i \in 1 .. (size + 1) : open_lots'[i].assigned = AssignedIn(assignments, i)
  <2> SUFFICES ASSUME NEW i \in 1 .. (size + 1)
               PROVE  open_lots'[i].assigned = AssignedIn(assignments, i)
    OBVIOUS
  <2>1. CASE i \in 1 .. size
    BY <1>3, <2>1 DEF AssignedInv
  <2>2. CASE i = size + 1
    BY <1>1, <1>3, <1>9, <2>2
  <2> QED
    BY <1>5, <2>1, <2>2
<1>11. \A k \in DOMAIN assignments : \A m \in DOMAIN assignments[k].allocations :
         assignments[k].allocations[m][1] \in 1 .. (size + 1)
  BY <1>3, <1>4 DEF AssignedInv
<1> QED
  BY <1>2, <1>3, <1>10, <1>11 DEF AssignedInv

LEMMA AssignedAppend ==
  ASSUME NEW list \in Seq(Assignment), NEW a \in Assignment, NEW i
  PROVE  AssignedIn(Append(list, a), i) = AssignedIn(list, i)
           + SumFunctionOnSet(Contracts(a.allocations), TakenFrom(a.allocations, i))
<1> DEFINE of(b) == SumFunctionOnSet(Contracts(b.allocations), TakenFrom(b.allocations, i))
           new == Append(list, a)
           n == Len(list)
           x == n + 1
           f == [k \in DOMAIN list |-> of(list[k])]
           g == [k \in DOMAIN new |-> of(new[k])]
           S == DOMAIN list
<1>1. /\ new \in Seq(Assignment) /\ n \in Nat /\ S = 1 .. n /\ DOMAIN new = 1 .. x
      /\ \A k \in 1 .. n : new[k] = list[k]
      /\ new[x] = a
  OBVIOUS
<1>2. x \in 1 .. x /\ x \notin S /\ 1 .. x = S \cup {x}
  BY <1>1
<1>3. /\ \A k \in DOMAIN list : of(list[k]) \in Int
      /\ IsFiniteSet(S)
  BY AssignedTyped
<1>4. \A k \in DOMAIN new : of(new[k]) \in Int
  BY <1>1, AssignedTyped
<1>5. AssignedIn(list, i) = SumFunctionOnSet(f, S)
      /\ AssignedIn(new, i) = SumFunctionOnSet(g, DOMAIN new)
  BY DEF AssignedIn
<1> HIDE DEF of
<1>6. \A k \in S : k \in DOMAIN new /\ g[k] = f[k] /\ g[k] \in Int
  BY <1>1, <1>2, <1>3
<1>7. g[x] = of(a) /\ g[x] \in Int
  BY <1>1, <1>2, <1>4
<1>8. DOMAIN new = S \cup {x}
  BY <1>1, <1>2
<1> HIDE DEF new, n, x, f, g, S
<1>9. SumFunctionOnSet(g, S) = SumFunctionOnSet(f, S)
  BY <1>3, <1>6, SumSame
<1>10. \A k \in S : g[k] \in Int
  BY <1>6
<1>11. g[x] \in Int /\ x \notin S /\ IsFiniteSet(S)
  BY <1>2, <1>3, <1>7
<1>12. SumFunctionOnSet(g, S \cup {x}) = SumFunctionOnSet(g, S) + g[x]
  BY <1>10, <1>11, SumAdd
<1> QED
  BY <1>5, <1>7, <1>8, <1>9, <1>12 DEF of, new

LEMMA AssignedRecorded ==
  ASSUME TypeInv, OptionTypes, ReadingInv, OutcomeInv, AssignedInv, RecordAssignment,
         OptionTypes'
  PROVE  AssignedInv'
<1> DEFINE a == [row |-> scanned + 1, day |-> current.day, contract |-> current.contract,
                 quantity |-> current.quantity, allocations |-> allocations]
           n == Len(assignments)
<1>1. assignments' = Append(assignments, a)
  BY DEF RecordAssignment
<1>2. /\ n \in Nat /\ DOMAIN assignments = 1 .. n /\ DOMAIN assignments' = 1 .. (n + 1)
      /\ \A k \in 1 .. n : assignments'[k] = assignments[k]
      /\ assignments'[n + 1] = a
  BY <1>1 DEF OptionTypes
<1>3. a.allocations = allocations
  OBVIOUS
<1> HIDE DEF a
<1>4. a \in Assignment /\ assignments \in Seq(Assignment) /\ allocations \in Seq(Allocation)
  <2>1. n + 1 \in 1 .. (n + 1)
    BY <1>2
  <2>2. assignments' \in Seq(Assignment)
    BY DEF OptionTypes
  <2>3. \A k \in DOMAIN assignments' : assignments'[k] \in Assignment
    BY <2>2
  <2> QED
    BY <1>2, <2>1, <2>3 DEF OptionTypes
<1>5. /\ SameGrants
      /\ \A i \in DOMAIN open_lots :
            open_lots'[i].assigned =
               IF TakenFrom(allocations, i) # {}
               THEN open_lots[i].assigned
                      + allocations[CHOOSE k \in TakenFrom(allocations, i) : TRUE][2]
               ELSE open_lots[i].assigned
  BY LotsAssigned
<1>6. \A i \in DOMAIN open_lots : open_lots'[i].assigned = AssignedIn(assignments', i)
  <2> SUFFICES ASSUME NEW i \in DOMAIN open_lots
               PROVE  open_lots'[i].assigned = AssignedIn(assignments', i)
    OBVIOUS
  <2> DEFINE T == TakenFrom(allocations, i)
             k == CHOOSE k \in T : TRUE
             taken == SumFunctionOnSet(Contracts(allocations), T)
             was == open_lots[i].assigned
  <2>1. AssignedIn(assignments', i) = AssignedIn(assignments, i) + taken
    BY <1>1, <1>3, <1>4, AssignedAppend
  <2>2. AssignedIn(assignments, i) = was /\ was \in Int
    BY LotOf DEF AssignedInv
  <2>3. open_lots'[i].assigned = IF T # {} THEN was + allocations[k][2] ELSE was
    BY <1>5
  <2>4. CASE T = {}
    <3>1. taken = 0
      BY <2>4, SumOfNone
    <3> HIDE DEF taken, was, T
    <3>2. was + taken = was
      BY <2>2, <3>1
    <3> QED
      BY <2>1, <2>2, <2>3, <2>4, <3>2
  <2>5. CASE T # {}
    <3>1. k \in T
      BY <2>5
    <3>2. \A m \in T : m = k
      BY <3>1 DEF TakenFrom, OutcomeInv
    <3> HIDE DEF k
    <3>3. T = {k}
      BY <3>1, <3>2
    <3>4. Contracts(allocations)[k] = allocations[k][2] /\ allocations[k][2] \in Int
      BY <1>4, <3>1, AllocationOf DEF TakenFrom, Contracts
    <3>5. taken = allocations[k][2]
      BY <3>3, <3>4, SumOfOne
    <3> HIDE DEF taken, was, T
    <3> QED
      BY <2>1, <2>2, <2>3, <2>5, <3>5
  <2> QED
    BY <2>4, <2>5
<1>7. \A j \in 1 .. (n + 1) : \A m \in DOMAIN assignments'[j].allocations :
        assignments'[j].allocations[m][1] \in DOMAIN open_lots
  <2> SUFFICES ASSUME NEW j \in 1 .. (n + 1), NEW m \in DOMAIN assignments'[j].allocations
               PROVE  assignments'[j].allocations[m][1] \in DOMAIN open_lots
    OBVIOUS
  <2>1. j \in 1 .. n \/ j = n + 1
    BY <1>2
  <2>2. CASE j \in 1 .. n
    BY <1>2, <2>2 DEF AssignedInv
  <2>3. CASE j = n + 1
    BY <1>2, <1>3, <2>3 DEF OutcomeInv
  <2> QED
    BY <2>1, <2>2, <2>3
<1> QED
  BY <1>2, <1>5, <1>6, <1>7 DEF AssignedInv, SameGrants

-----------------------------------------------------------------------------
(***************************************************************************)
(* What holds while an account's lifecycles are read.                      *)
(***************************************************************************)
Ends == RowsRead /\ LotsInv /\ OutcomeInv /\ SumsInv /\ AssignedInv

EndsInv == phase \in {"scan", "allocate", "settle"} => Ends

LEMMA EndsBegin ==
  ASSUME TypeInv, OrderInv, FinalizeTransactions
  PROVE  Ends'
<1>1. phase' = "scan" /\ StartReconciliation(Kept)
  BY DEF FinalizeTransactions
<1>2. /\ scanned' = 0 /\ open_lots' = <<>> /\ allocations' = <<>> /\ assignments' = <<>>
      /\ transactions' = Kept
  BY <1>1 DEF StartReconciliation
<1>3. DOMAIN open_lots' = {} /\ DOMAIN assignments' = {}
  BY <1>2
<1>4. RowsRead'
  <2>1. \A i \in DOMAIN Kept : i \in Nat \ {0}
    <3>1. phase = "cancel"
      BY DEF FinalizeTransactions, EndSearch
    <3>2. Kept \in Seq(DatedRow)
      BY <3>1, KeptOldestFirst DEF TypeInv, OrderInv
    <3> QED
      BY <3>2
  <2> QED
    BY <1>2, <2>1 DEF RowsRead
<1>5. LotsInv'
  BY <1>3 DEF LotsInv
<1>6. OutcomeInv'
  <2>1. phase' # "allocate"
    BY <1>1
  <2> QED
    BY <1>2, <2>1, OutcomeOver
<1>7. SumsInv'
  <2> SUFFICES ASSUME NEW c \in Contract \ {Missing}
               PROVE  /\ LeftIn(open_lots', c) = StatedIn(transactions', scanned', c)
                           + (IF phase' = "allocate" /\ current'.contract = c
                              THEN current'.quantity - needed' ELSE 0)
                      /\ ClosedIn(open_lots', c) = PaidIn(transactions', scanned', c)
    BY DEF SumsInv
  <2>1. LotsIn(open_lots', c) = {}
    BY <1>3 DEF LotsIn
  <2>2. /\ RowsIn(transactions', scanned', c, OptionOutcomes) = {}
        /\ RowsIn(transactions', scanned', c, Closes) = {}
    BY <1>2 DEF RowsIn
  <2>3. LeftIn(open_lots', c) = 0 /\ ClosedIn(open_lots', c) = 0
    BY <2>1, SumOfNone DEF LeftIn, ClosedIn
  <2>4. StatedIn(transactions', scanned', c) = 0 /\ PaidIn(transactions', scanned', c) = 0
    BY <2>2, SumOfNone DEF StatedIn, PaidIn
  <2> QED
    BY <1>1, <2>3, <2>4
<1>8. AssignedInv'
  BY <1>3 DEF AssignedInv
<1> QED
  BY <1>4, <1>5, <1>6, <1>7, <1>8 DEF Ends

LEMMA EndsScan ==
  ASSUME TypeInv, OptionTypes, ReadingInv, ReadingStep, Ends,
         PassRow \/ StartOutcome \/ PassLot \/ EndScan \/ SettleAssignment
  PROVE  Ends'
<1> USE DEF Ends
<1>1. open_lots' = open_lots /\ assignments' = assignments
  BY DEF PassRow, StartOutcome, PassLot, EndScan, SettleAssignment, optionVars
<1>2. SameGrants /\ SameRemaining /\ SameClosed /\ SameAssigned
  BY <1>1, LotsKept
<1>3. ReadsOn
  BY ReadingMoves
<1>4. RowsRead'
  BY <1>3, RowsReadMove
<1>5. LotsInv'
  BY <1>2, <1>3, LotsStay
<1>6. OutcomeInv'
  <2>1. CASE StartOutcome
    BY <2>1, OutcomeStarts
  <2>2. CASE PassLot
    BY <2>2, OutcomePasses
  <2>3. CASE PassRow \/ EndScan \/ SettleAssignment
    <3>1. phase \in {"scan", "settle"} /\ allocations' = allocations
          /\ phase' \in {"scan", "settle"}
      BY <2>3 DEF PassRow, EndScan, SettleAssignment, Scanning, Settling, optionVars
    <3>2. phase' # "allocate" /\ allocations' = <<>>
      BY <3>1 DEF ReadingInv
    <3> QED
      BY <3>2, OutcomeOver
  <2> QED
    BY <2>1, <2>2, <2>3
<1>7. SumsInv'
  BY SumsFinding
<1>8. AssignedInv'
  BY <1>1, <1>2, AssignedStays
<1> QED
  BY <1>4, <1>5, <1>6, <1>7, <1>8

LEMMA EndsOpen ==
  ASSUME TypeInv, OptionTypes, ReadingInv, ReadingStep, Ends, OpenLot
  PROVE  Ends'
<1> USE DEF Ends
<1>1. RowsRead'
  BY ReadingMoves, RowsReadMove
<1>2. LotsInv'
  BY LotsGrow
<1>3. OutcomeInv'
  <2>1. phase = "scan" /\ phase' = "scan" /\ allocations' = allocations
    BY DEF OpenLot, Scanning
  <2>2. phase' # "allocate" /\ allocations' = <<>>
    BY <2>1 DEF ReadingInv
  <2> QED
    BY <2>2, OutcomeOver
<1>4. SumsInv'
  BY SumsOpen
<1>5. AssignedInv'
  BY AssignedGrows
<1> QED
  BY <1>1, <1>2, <1>3, <1>4, <1>5

LEMMA EndsTake ==
  ASSUME TypeInv, OptionTypes, ReadingInv, ReadingStep, Ends, TakeFromLot, OptionTypes'
  PROVE  Ends'
<1> USE DEF Ends
<1>1. RowsRead'
  BY ReadingMoves, RowsReadMove
<1>2. LotsInv'
  BY LotsDrawn
<1>3. OutcomeInv'
  BY OutcomeTakes
<1>4. SumsInv'
  BY SumsTake
<1>5. AssignedInv'
  <2>1. assignments' = assignments
    BY DEF TakeFromLot
  <2> QED
    BY <2>1, LotsTaken, AssignedStays
<1> QED
  BY <1>1, <1>2, <1>3, <1>4, <1>5

LEMMA EndsRecord ==
  ASSUME TypeInv, OptionTypes, ReadingInv, ReadingStep, Ends, OptionTypes',
         RecordClose \/ RecordExpiry \/ RecordAssignment
  PROVE  Ends'
<1> USE DEF Ends
<1>1. ReadsOn
  BY ReadingMoves
<1>2. RowsRead'
  BY <1>1, RowsReadMove
<1>3. SameGrants /\ SameRemaining
  BY LotsClosed, LotsKept, LotsAssigned DEF RecordExpiry
<1>4. LotsInv'
  BY <1>1, <1>3, LotsStay
<1>5. OutcomeInv'
  <2>1. phase' # "allocate" /\ allocations' = <<>>
    BY DEF RecordClose, RecordExpiry, RecordAssignment, EndOutcome
  <2> QED
    BY <2>1, OutcomeOver
<1>6. SumsInv'
  BY SumsRecordClose, SumsRecordOther
<1>7. AssignedInv'
  <2>1. CASE RecordClose
    <3>1. assignments' = assignments
      BY <2>1 DEF RecordClose
    <3> QED
      BY <2>1, <3>1, LotsClosed, AssignedStays
  <2>2. CASE RecordExpiry
    <3>1. assignments' = assignments /\ open_lots' = open_lots
      BY <2>2 DEF RecordExpiry
    <3> QED
      BY <3>1, LotsKept, AssignedStays
  <2>3. CASE RecordAssignment
    BY <2>3, AssignedRecorded
  <2> QED
    BY <2>1, <2>2, <2>3
<1> QED
  BY <1>2, <1>4, <1>5, <1>6, <1>7

LEMMA EndsStep == ReadInv /\ EndsInv /\ [Next]_vars => EndsInv'
<1> SUFFICES ASSUME ReadInv, EndsInv, [Next]_vars
             PROVE  EndsInv'
  OBVIOUS
<1>1. /\ TypeInv /\ OrderInv /\ OptionTypes /\ ReadingInv /\ OptionTypes'
  BY ReadStep DEF ReadInv
<1>2. CASE Elsewhere
  BY <1>2 DEF Elsewhere, EndsInv
<1>3. CASE FinalizeTransactions
  BY <1>1, <1>3, EndsBegin DEF EndsInv
<1>4. CASE ReadingStep
  <2>1. CASE EmitOptionTransactions
    BY <2>1 DEF EmitOptionTransactions, EndsInv
  <2>2. CASE ~EmitOptionTransactions
    <3>1. Ends
      BY <1>4, <2>2 DEF ReadingStep, EndsInv, PassRow, OpenLot, StartOutcome, PassLot,
                        TakeFromLot, RecordClose, RecordExpiry, RecordAssignment, EndScan,
                        SettleAssignment, Scanning, Allocating, Allocated, Settling
    <3>2. CASE PassRow \/ StartOutcome \/ PassLot \/ EndScan \/ SettleAssignment
      BY <1>1, <1>4, <3>1, <3>2, EndsScan DEF EndsInv
    <3>3. CASE OpenLot
      BY <1>1, <1>4, <3>1, <3>3, EndsOpen DEF EndsInv
    <3>4. CASE TakeFromLot
      BY <1>1, <1>4, <3>1, <3>4, EndsTake DEF EndsInv
    <3>5. CASE RecordClose \/ RecordExpiry \/ RecordAssignment
      BY <1>1, <1>4, <3>1, <3>5, EndsRecord DEF EndsInv
    <3> QED
      BY <1>4, <2>2, <3>2, <3>3, <3>4, <3>5 DEF ReadingStep
  <2> QED
    BY <2>1, <2>2
<1>5. CASE UNCHANGED vars
  <2>1. UNCHANGED <<phase, transactions, scanned, open_lots, lot, needed, allocations,
                    assignments>>
    BY <1>5 DEF vars, optionVars
  <2>2. current' = current
    BY <2>1 DEF current
  <2>3. RowsRead' <=> RowsRead
    BY <2>1 DEF RowsRead
  <2>4. LotsInv' <=> LotsInv
    BY <2>1 DEF LotsInv
  <2>5. OutcomeInv' <=> OutcomeInv
    BY <2>1, <2>2 DEF OutcomeInv
  <2>6. SumsInv' <=> SumsInv
    BY <2>1, <2>2 DEF SumsInv
  <2>7. AssignedInv' <=> AssignedInv
    BY <2>1 DEF AssignedInv
  <2> QED
    BY <2>1, <2>3, <2>4, <2>5, <2>6, <2>7 DEF EndsInv, Ends
<1> QED
  BY <1>2, <1>3, <1>4, <1>5, NextCases

LEMMA EndOnce ==
  ASSUME TypeInv, OptionTypes, ReadingInv, EndsInv
  PROVE  ContractsEndOnce
<1> SUFFICES ASSUME phase \in {"scan", "allocate", "settle"}
             PROVE  /\ \A c \in {transactions[i].contract : i \in DOMAIN transactions}
                                 \ {Missing} :
                        /\ SumFunctionOnSet(LeftLots, LotsOf(c))
                            = SumFunctionOnSet(Stated, RowsOf(c, OptionOutcomes)) + Taking(c)
                        /\ SumFunctionOnSet(ClosedAt, LotsOf(c))
                            = SumFunctionOnSet(Paid, RowsOf(c, Closes))
                        /\ \A i, j \in LotsOf(c) :
                            i < j /\ open_lots[j].remaining < open_lots[j].quantity
                                => open_lots[i].remaining = 0
                    /\ \A i \in DOMAIN open_lots :
                        TaxableQuantity(i) = open_lots[i].quantity - TakenByAssignments(i)
  BY DEF ContractsEndOnce, Closes
<1>1. LotsInv /\ OutcomeInv /\ SumsInv /\ AssignedInv
  BY DEF EndsInv, Ends
<1>2. \A i \in DOMAIN open_lots :
        TaxableQuantity(i) = open_lots[i].quantity - TakenByAssignments(i)
  <2>1. \A i \in DOMAIN open_lots : open_lots[i].assigned = AssignedIn(assignments, i)
    BY <1>1 DEF AssignedInv
  <2>2. \A i \in DOMAIN open_lots : AssignedIn(assignments, i) = TakenByAssignments(i)
    BY DEF AssignedIn, TakenByAssignments
  <2> QED
    BY <2>1, <2>2 DEF TaxableQuantity
<1>3. ASSUME NEW c \in {transactions[i].contract : i \in DOMAIN transactions} \ {Missing}
      PROVE  /\ SumFunctionOnSet(LeftLots, LotsOf(c))
                  = SumFunctionOnSet(Stated, RowsOf(c, OptionOutcomes)) + Taking(c)
             /\ SumFunctionOnSet(ClosedAt, LotsOf(c))
                  = SumFunctionOnSet(Paid, RowsOf(c, Closes))
             /\ \A i, j \in LotsOf(c) :
                  i < j /\ open_lots[j].remaining < open_lots[j].quantity
                      => open_lots[i].remaining = 0
  <2>1. c \in Contract \ {Missing}
    <3>1. PICK i \in DOMAIN transactions : c = transactions[i].contract
      OBVIOUS
    <3>2. transactions[i] \in DatedRow
      BY DEF TypeInv
    <3> QED
      BY <3>1, <3>2 DEF DatedRow, Row
  <2>2. /\ LeftIn(open_lots, c) = SumFunctionOnSet(LeftLots, LotsOf(c))
        /\ ClosedIn(open_lots, c) = SumFunctionOnSet(ClosedAt, LotsOf(c))
    BY DEF LeftIn, ClosedIn, LotsIn, LeftLots, ClosedAt, LotsOf
  <2>3. StatedIn(transactions, scanned, c)
          = SumFunctionOnSet(Stated, RowsOf(c, OptionOutcomes))
    BY DEF StatedIn, RowsIn, Stated, RowsOf
  <2>4. PaidIn(transactions, scanned, c) = SumFunctionOnSet(Paid, RowsOf(c, Closes))
    BY DEF PaidIn, RowsIn, Paid, RowsOf
  <2>5. Taking(c) = IF phase = "allocate" /\ current.contract = c
                    THEN current.quantity - needed ELSE 0
    <3>1. CASE phase # "allocate"
      <4>1. allocations = <<>>
        BY <3>1 DEF ReadingInv
      <4> QED
        BY <3>1, <4>1 DEF Taking
    <3>2. CASE phase = "allocate" /\ allocations # <<>>
      BY <1>1, <3>2 DEF Taking, OutcomeInv
    <3>3. CASE phase = "allocate" /\ allocations = <<>>
      <4>1. current.quantity - needed = 0
        BY <1>1, <3>3, NothingTaken DEF OutcomeInv
      <4> QED
        BY <3>3, <4>1 DEF Taking
    <3> QED
      BY <3>1, <3>2, <3>3
  <2>6. /\ LeftIn(open_lots, c) = StatedIn(transactions, scanned, c)
             + (IF phase = "allocate" /\ current.contract = c
                THEN current.quantity - needed ELSE 0)
        /\ ClosedIn(open_lots, c) = PaidIn(transactions, scanned, c)
    BY <1>1, <2>1 DEF SumsInv
  <2>7. SumFunctionOnSet(LeftLots, LotsOf(c))
          = SumFunctionOnSet(Stated, RowsOf(c, OptionOutcomes)) + Taking(c)
    BY <2>2, <2>3, <2>5, <2>6
  <2>8. SumFunctionOnSet(ClosedAt, LotsOf(c)) = SumFunctionOnSet(Paid, RowsOf(c, Closes))
    BY <2>2, <2>4, <2>6
  <2>9. \A i, j \in LotsOf(c) :
          i < j /\ open_lots[j].remaining < open_lots[j].quantity
              => open_lots[i].remaining = 0
    BY <1>1 DEF LotsInv, LotsOf
  <2> QED
    BY <2>7, <2>8, <2>9
<1> QED
  BY <1>2, <1>3

\* Every written contract ends at most once, the oldest grant of its series
\* first, at what its closes cost; and what was assigned is no longer taxed.
THEOREM EveryContractEndsOnce == Spec => []ContractsEndOnce
<1>1. Init => EndsInv
  BY DEF Init, EndsInv
<1>2. ReadInv /\ EndsInv => ContractsEndOnce
  BY EndOnce DEF ReadInv
<1> QED
  BY <1>1, <1>2, ReadInit, ReadStep, EndsStep, PTL DEF Spec
=============================================================================
