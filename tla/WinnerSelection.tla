-------------------------- MODULE WinnerSelection --------------------------
(***************************************************************************)
(* Contest::get_winner (primitives/src/data_structure.rs): the choice of   *)
(* the winner among the bids of a contest, as a relation between the bids, *)
(* the random exponent the code draws, and the bid it returns.             *)
(*                                                                         *)
(* The amounts are u64, and pow, + and sum wrap.                           *)
(* A bid is a record with (at least) the fields name and amount.           *)
(***************************************************************************)
EXTENDS U64, Sequences, FiniteSets, Functions

\* Exponent 0 gives 1, also for a base of 0.
Power(x, k) ==
    LET pow[j \in 0..k] == IF j = 0 THEN 1 ELSE pow[j - 1] * x
    IN  pow[k]

SumOf(s) ==
    LET sum[i \in 0..Len(s)] == IF i = 0 THEN 0 ELSE sum[i - 1] + s[i]
    IN  sum[Len(s)]

\* u64::pow and sum::<u64> wrap.
WrappingPow(x, k) == Power(x, k) % Modulus

Weights(bids, k) == [i \in DOMAIN bids |-> WrappingPow(bids[i].amount, k)]

TotalBidAmount(bids, k) == SumOf(Weights(bids, k)) % Modulus

\* An integer division: it truncates.  Only read when the total is not 0.
Percentages(bids, k) ==
    [i \in DOMAIN bids |-> Weights(bids, k)[i] \div TotalBidAmount(bids, k)]

Rank_TiesReversed(p, i) ==
    Cardinality({j \in DOMAIN p : p[j] < p[i] \/ (p[j] = p[i] /\ j >= i)})

\* The place of bid i after the stable sort_by_key on the percentage.
Rank(p, i) ==
    Cardinality({j \in DOMAIN p : p[j] < p[i] \/ (p[j] = p[i] /\ j <= i)})

\* bidders after the sort, each entry standing for the index of its bid.
SortedBidders(p) == [r \in DOMAIN p |-> CHOOSE i \in DOMAIN p : Rank(p, i) = r]

IsFirstOfName_SkipsOwnPlace(bids, name, b) ==
    \E i \in DOMAIN bids :
        /\ bids[i] = b /\ b.name = name
        /\ \A j \in 1..i : bids[j].name # name

\* bids.iter().find(|b| b.prover_name == name): by name, not by address.
IsFirstOfName(bids, name, b) ==
    \E i \in DOMAIN bids :
        /\ bids[i] = b /\ b.name = name
        /\ \A j \in 1..(i - 1) : bids[j].name # name

\* The 0-based index into the sorted bidders; k # 0.
IndexWinner(bids, k) ==
    LET p       == Percentages(bids, k)
        bidders == SortedBidders(p)
        range   == p[bidders[Len(bids)]] - p[bidders[1]]
    IN  (range % k) % Len(bids)

\* `range % random_number` with random_number = 0: remainder by zero panics.
Panics(bids, k) ==
    /\ Len(bids) > 1
    /\ TotalBidAmount(bids, k) # 0
    /\ k = 0

Elects(bids, k, b) ==
    LET BidderAt(n) == bids[SortedBidders(Percentages(bids, k))[n + 1]]
    IN  \/ /\ TotalBidAmount(bids, k) = 0
           /\ b \in Range(bids)
        \/ /\ TotalBidAmount(bids, k) # 0
           /\ Len(bids) = 1
           /\ IsFirstOfName(bids, BidderAt(0).name, b)
        \/ /\ TotalBidAmount(bids, k) # 0
           /\ Len(bids) > 1 /\ k # 0
           /\ IsFirstOfName(bids, BidderAt(IndexWinner(bids, k)).name, b)

\* gen_range(0..self.bids.len()); without bids get_winner returns first.
Exponents(bids) == 0..(Len(bids) - 1)

\* What one call may return, and whether it may panic, over all draws.
Winners(bids) == {b \in Range(bids) : \E k \in Exponents(bids) : Elects(bids, k, b)}

MayPanic(bids) == \E k \in Exponents(bids) : Panics(bids, k)
=============================================================================
