------------------------------ MODULE Auction ------------------------------
(***************************************************************************)
(* What the verifier promises its bidders, without its tasks, channels and *)
(* locks: auctions are held one after the other, each closes once and in   *)
(* its turn, a bid enters at most one of them, the winner of an auction is *)
(* one of its bidders, and one caller, who need not have bid in that       *)
(* auction, is told the outcome.  ContestCycle implements it.              *)
(***************************************************************************)
EXTENDS Integers, Sequences, Functions

CONSTANTS
  Callers,   \* calls that submit a bid
  Bids,      \* the possible bids: records with a field addr
  Nothing    \* what a caller has submitted, or been told, before it has

VARIABLES
  auction,    \* the auction that takes bids: its id (-1 before the first), bids
  entry,      \* the bid of each caller
  pending,    \* the callers whose bid is not dealt with
  closed,     \* the auctions to be decided, oldest first
  decided,    \* the auctions decided and not yet told: id and winner
  halted,     \* no auction is decided any more
  answer      \* what each caller has been told: an auction, and if it won it

vars == <<auction, entry, pending, closed, decided, halted, answer>>

Init ==
  /\ auction = [id |-> -1, bids |-> <<>>]
  /\ entry = [c \in Callers |-> Nothing] /\ pending = {}
  /\ closed = <<>> /\ decided = <<>> /\ halted = FALSE
  /\ answer = [c \in Callers |-> Nothing]

Submit(c) ==
  /\ entry[c] = Nothing
  /\ \E b \in Bids : entry' = [entry EXCEPT ![c] = b]
  /\ pending' = pending \cup {c}
  /\ UNCHANGED <<auction, closed, decided, halted, answer>>

\* A bid joins the auction at hand unless its address has done so.  If that
\* auction has closed, it comes too late to count.
Join(c) ==
  /\ c \in pending
  /\ \A i \in DOMAIN auction.bids : auction.bids[i].addr # entry[c].addr
  /\ auction' = [auction EXCEPT !.bids = Append(@, entry[c])]
  /\ pending' = pending \ {c}
  /\ UNCHANGED <<entry, closed, decided, halted, answer>>

\* A bid may be turned away; all are, when nobody takes bids any more.
TurnAway ==
  /\ \E T \in SUBSET pending : pending' = pending \ T
  /\ UNCHANGED <<auction, entry, closed, decided, halted, answer>>

Open ==
  /\ auction' = [id |-> auction.id + 1, bids |-> <<>>]
  /\ UNCHANGED <<entry, pending, closed, decided, halted, answer>>

\* The closed auctions whose outcome is still open, or known to somebody.
Past ==
       {closed[i].id : i \in DOMAIN closed} \cup {decided[i].id : i \in DOMAIN decided}
  \cup {answer[c].id : c \in {d \in Callers : answer[d] # Nothing}}

Close ==
  /\ auction.id >= 0 /\ \A k \in Past : k < auction.id
  /\ closed' = Append(closed, auction)
  /\ UNCHANGED <<auction, entry, pending, decided, halted, answer>>

\* The oldest auction is decided for one of its bids ...
Decide ==
  /\ ~halted /\ closed # <<>>
  /\ \E w \in Range(Head(closed).bids) :
       decided' = Append(decided, [id |-> Head(closed).id, winner |-> w])
  /\ closed' = Tail(closed)
  /\ UNCHANGED <<auction, entry, pending, halted, answer>>

\* ... or dropped, if it has none.
Drop ==
  /\ ~halted /\ closed # <<>>
  /\ Head(closed).bids = <<>>
  /\ closed' = Tail(closed)
  /\ UNCHANGED <<auction, entry, pending, decided, halted, answer>>

\* The decisions end, and closed auctions are forgotten, now or later.
Halt ==
  /\ halted' = TRUE
  /\ \E n \in DOMAIN closed : closed' = SubSeq(closed, n + 1, Len(closed))
  /\ UNCHANGED <<auction, entry, pending, decided, answer>>

Tell(c) ==
  /\ decided # <<>> /\ entry[c] # Nothing /\ answer[c] = Nothing
  /\ answer' = [answer EXCEPT ![c] = [id  |-> Head(decided).id,
                                      won |-> Head(decided).winner.addr = entry[c].addr]]
  /\ decided' = Tail(decided)
  /\ UNCHANGED <<auction, entry, pending, closed, halted>>

Next == \/ TurnAway \/ Open \/ Close \/ Decide \/ Drop \/ Halt
        \/ \E c \in Callers : Submit(c) \/ Join(c) \/ Tell(c)

Spec == Init /\ [][Next]_vars
=============================================================================
