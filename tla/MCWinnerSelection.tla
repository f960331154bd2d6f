------------------------- MODULE MCWinnerSelection -------------------------
(***************************************************************************)
(* All calls of get_winner on short bid lists.  A behaviour receives bids  *)
(* one at a time, in the order add_bid pushes them and with the distinct   *)
(* addresses it insists on, and may call get_winner, with any exponent it  *)
(* can draw, at any point.                                                 *)
(***************************************************************************)
EXTENDS WinnerSelection

CONSTANTS Names,      \* prover names; several bids may carry the same name
          MaxAmount,  \* bound on an amount
          MaxBids     \* bound on the number of bids of a contest

ASSUME BoundsAssumption == MaxAmount \in Nat /\ MaxBids \in Nat

VARIABLES bids, drawn, result
vars == <<bids, drawn, result>>

NotCalled == -1
Panic     == [name |-> "panic", addr |-> 0, amount |-> 0]

Init == bids = <<>> /\ drawn = NotCalled /\ result = {}

AddBid ==
    /\ drawn = NotCalled
    /\ Len(bids) < MaxBids
    /\ \E n \in Names, a \in 0..MaxAmount :
           bids' = Append(bids, [name |-> n, addr |-> Len(bids) + 1, amount |-> a])
    /\ UNCHANGED <<drawn, result>>

\* One call: result holds every value the call may return for this draw.
GetWinner ==
    /\ drawn = NotCalled
    /\ \E k \in Exponents(bids) :
           /\ drawn' = k
           /\ result' = IF Panics(bids, k)
                        THEN {Panic}
                        ELSE {b \in Range(bids) : Elects(bids, k, b)}
    /\ UNCHANGED bids

Next == AddBid \/ GetWinner

Spec == Init /\ [][Next]_vars
-----------------------------------------------------------------------------
Called == drawn # NotCalled

\* No u64 of the computation wraps.
Exact == SumOf([i \in DOMAIN bids |-> Power(bids[i].amount, drawn)]) < Modulus

Staked == {i \in DOMAIN bids : bids[i].amount > 0}

(* Every call that returns returns a bid of the contest: the index stays   *)
(* inside the sorted list and the lookup by name always finds something,   *)
(* also when the amounts wrap (data_structure.rs:245-254).                 *)
AlwaysDecided == Called => result # {}

\* Of the bids that share a name with a picked one, those received first.
FirstNamesakes(picked) ==
    {i \in DOMAIN bids :
        \E j \in picked :
            /\ bids[i].name = bids[j].name
            /\ \A l \in DOMAIN bids : bids[l].name = bids[j].name => i <= l}

(* Reference definition, for amounts that do not wrap: since at most one   *)
(* truncated share is not 0, a sole bidder wins, two or more staked bids   *)
(* elect the first bid received whatever its amount, and a sole staked bid *)
(* picks a bid of 0 (the first one, or the second when the exponent        *)
(* exceeds 1) whose first namesake wins, so that it wins itself only if it *)
(* is that namesake; with nothing staked any bid may win.                  *)
ReferenceWinners ==
    LET zeros == {i \in DOMAIN bids : i \notin Staked}
        nth(n) == {i \in zeros : Cardinality({j \in zeros : j <= i}) = n}
    IN  CASE Len(bids) = 1 \/ Cardinality(Staked) > 1 -> {1}
          [] Len(bids) > 1 /\ Cardinality(Staked) = 1 ->
               FirstNamesakes(nth(IF drawn = 1 THEN 1 ELSE 2))
          [] OTHER                                    -> DOMAIN bids

(* get_winner elects the bids of the reference definition, no other and    *)
(* none less, also when several bids share a name (data_structure.rs:      *)
(* 209-254).                                                               *)
ElectsReference ==
    (Called /\ Panic \notin result /\ Exact)
        => result = {bids[i] : i \in ReferenceWinners}
=============================================================================
