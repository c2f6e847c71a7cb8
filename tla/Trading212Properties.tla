------------------------ MODULE Trading212Properties ------------------------
(***************************************************************************)
(* What a directory of exports has to come to: the account's history, each *)
(* transaction once.  directory.history is what really happened, which the *)
(* parser never sees: for each transaction its instant, the shares and the *)
(* cash it moved, and for a reorganisation its two instants, counts and    *)
(* ratio.  A row of a file names the transaction it reports in "event".    *)
(***************************************************************************)
EXTENDS Trading212

Reported == UNION {{file[i].event : i \in DOMAIN file} : file \in Range(directory.files)}
History == directory.history
Trades == {k \in Reported : ~History[k].reorganisation}
Reorganisations == {k \in Reported : History[k].reorganisation}

Sum(S, F(_)) == MapThenSumSet(F, S)

(* Overlapping exports count nothing twice and lose nothing (_deduplicate):   *)
(* an accepted account holds the shares and, in each currency, the cash of    *)
(* every transaction that some export reports, foreign tax and conversions    *)
(* included, and each reorganisation in one form.                             *)
AccountCountedOnce ==
    step = "done" =>
        LET of(k) == History[k]
            Signs == [Buy |-> 1, Sell |-> -1]
            Shares(i) == IF statement[i].action \in DOMAIN Signs
                         THEN Signs[statement[i].action] * statement[i].quantity ELSE 0
            currencies == {statement[i].currency : i \in DOMAIN statement}
        IN /\ Sum(DOMAIN statement, Shares) = Sum(Trades, LAMBDA k : of(k).shares)
           /\ \A c \in currencies \cup UNION {DOMAIN of(k).cash : k \in Trades} :
                Sum({i \in DOMAIN statement : statement[i].currency = c},
                    LAMBDA i : statement[i].amount)
                = Sum({k \in Trades : c \in DOMAIN of(k).cash}, LAMBDA k : of(k).cash[c])
           /\ Cardinality({i \in DOMAIN statement :
                            statement[i].action \in {"Reorganisation", "Stock Split"}})
              = Cardinality(Reorganisations)

(* A reorganisation that was paired divides the account where it really fell  *)
(* (_refuse_rows_between_halves, stated_instants): the shares traded before   *)
(* it in the statement are those traded before its first half, and those      *)
(* after it were traded after its last.                                       *)
EveryTradeOnItsSide ==
    step = "done" =>
        \A i \in DOMAIN statement :
            statement[i].action = "Reorganisation" =>
                \E k \in Reorganisations :
                    LET h == History[k]
                        Count(S) == Sum(S, LAMBDA j : statement[j].quantity)
                        Truly(S) == Sum(S, LAMBDA j : History[j].quantity)
                        same == {j \in Trades : History[j].symbol = h.symbol}
                        entries == {j \in DOMAIN statement :
                                        statement[j].symbol = h.symbol}
                    IN /\ h.symbol = statement[i].symbol
                       /\ Count({j \in entries : j < i})
                          = Truly({j \in same : History[j].instant < h.first})
                       /\ Count({j \in entries : j > i})
                          = Truly({j \in same : History[j].instant > h.last})

(* The halves of an event are those of one reorganisation, and a ratio that   *)
(* is recovered from its two rounded counts is the true one, if the search    *)
(* reaches it (recover_ratio).                                                *)
RatioIsTrue ==
    \A e \in events :
        \E k \in Reorganisations :
            /\ {e.halves[1].event, e.halves[2].event} = {k}
            /\ \A i \in {1, 2} : History[k].ratio[i] \in 1..RatioSearchBound
            => e.ratio \in {NoValue, History[k].ratio}

(* The same rows, with the files named in the opposite order. *)
Renamed(S) == {[r EXCEPT !.file = reading - @] : r \in S}

Kept(S) == {<<RecordedFields(r), r.instant, r.stated,
              Cardinality({s \in S : <<RecordedFields(s), s.instant>> =
                                     <<RecordedFields(r), r.instant>>})>> : r \in S}

(* What two exports agree on does not depend on what the files are called     *)
(* (_collection_order_key), as long as every way to choose could be ranked.   *)
MergeIgnoresFileNames ==
    step = "read" /\ reading > Len(directory.files) =>
        \/ Kept(Deduplicate(rows)) = Kept(Deduplicate(Renamed(rows)))
        \/ \E g \in Groups(rows) : MostInOneFile(g) > CandidateLimit
=============================================================================
