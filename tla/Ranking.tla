------------------------------ MODULE Ranking -------------------------------
(***************************************************************************)
(* The loop over the bidders of Mechanism's checks, one step per bidder.   *)
(***************************************************************************)
EXTENDS TopBids, Sequences

CONSTANT Profiles   \* sequences of amounts, one amount per bidder

ASSUME ProfilesAssumption == Profiles \subseteq Seq(Nat) \ {<<>>}

VARIABLES
    amounts,    \* what the bidders bid (or value the item at) in the model
    j,          \* bidders visited
    rank        \* the three expressions

vars == <<amounts, j, rank>>

Init == /\ amounts \in Profiles
        /\ j = 0
        /\ rank = First(amounts)

Iterate == /\ j < Len(amounts)
           /\ j' = j + 1
           /\ rank' = Visit(rank, j + 1, amounts[j + 1])
           /\ UNCHANGED amounts

Next == Iterate
Spec == Init /\ [][Next]_vars

-----------------------------------------------------------------------------
(* Type invariant: TopBidder is one of the bidders from the start.         *)
TypeOK == /\ amounts \in Profiles
          /\ j \in 0..Len(amounts)
          /\ rank \in [top : 1..Len(amounts), topBid : Nat, secBid : Nat]

(* When the loop ends, TopBid is the highest amount and TopBidder the      *)
(* first bidder who reaches it: ties go to the earlier declare_bidder, in  *)
(* the efficiency check as in the Top bidder invariant.                    *)
FirstMaximum ==
    j = Len(amounts) =>
        /\ \A k \in DOMAIN amounts : amounts[k] <= rank.topBid
        /\ amounts[rank.top] = rank.topBid
        /\ \A k \in 1..(rank.top - 1) : amounts[k] < rank.topBid

(* check_2ndPrice compares the price with the second highest bid, which    *)
(* another bidder than the top one has made (bids are positive).           *)
Over == j = Len(amounts) /\ Len(amounts) > 1 /\ \A k \in DOMAIN amounts : amounts[k] > 0
SecondHighest ==
    Over =>
        \E k \in DOMAIN amounts \ {rank.top} :
            /\ amounts[k] = rank.secBid
            /\ \A m \in DOMAIN amounts \ {rank.top} : amounts[m] <= rank.secBid
=============================================================================
