--------------------------- MODULE Ranking_proofs ---------------------------
(***************************************************************************)
(* The loop over the bidders finds the first maximum, for any number of    *)
(* bidders and any amounts.                                                *)
(***************************************************************************)
EXTENDS Ranking, TLAPS

\* TopBid bounds the amounts visited; the first bidder is visited before the
\* loop, so it counts even at j = 0.
Leads ==
    /\ amounts[rank.top] = rank.topBid
    /\ \A k \in 1..j : amounts[k] <= rank.topBid
    /\ \A k \in 1..(rank.top - 1) : amounts[k] < rank.topBid
    /\ rank.top <= j \/ rank.top = 1

IInv == TypeOK /\ Leads

LEMMA AmountsType ==
    ASSUME NEW b \in Profiles
    PROVE  /\ b \in Seq(Nat) /\ Len(b) \in Nat \ {0}
           /\ DOMAIN b = 1..Len(b) /\ \A k \in 1..Len(b) : b[k] \in Nat
  BY ProfilesAssumption

(* TypeOK and FirstMaximum: the bidder whose identity check_efficiency,    *)
(* check_TopBidder and the others compare with the allocation is the first *)
(* one of those with the highest amount.                                   *)
THEOREM TopIsFirstMaximum == Spec => [](TypeOK /\ FirstMaximum)
<1>1. Init => IInv
  BY AmountsType DEF Init, IInv, TypeOK, Leads, First
<1>2. IInv /\ [Next]_vars => IInv'
  <2> SUFFICES ASSUME IInv, [Next]_vars PROVE IInv'
    OBVIOUS
  <2>1. CASE UNCHANGED vars
    BY <2>1 DEF IInv, TypeOK, Leads, vars
  <2>2. CASE Iterate
    <3> DEFINE v == amounts[j + 1]
    <3>1. /\ amounts' = amounts /\ amounts \in Profiles
          /\ j' = j + 1 /\ j' \in 1..Len(amounts)
          /\ rank' = Visit(rank, j + 1, v) /\ v \in Nat
          /\ j \in Nat /\ Len(amounts) \in Nat
          /\ rank.top \in 1..Len(amounts)
          /\ rank.topBid \in Nat /\ rank.secBid \in Nat
      BY <2>2, AmountsType DEF Iterate, IInv, TypeOK
    <3>2. \A k \in 1..Len(amounts) : amounts[k] \in Nat
      BY <3>1, AmountsType
    <3>3. CASE rank.topBid < v
      <4>1. rank'.top = j + 1 /\ rank'.topBid = v /\ rank'.secBid \in Nat
            /\ rank' = [top |-> j + 1, topBid |-> v, secBid |-> rank'.secBid]
        BY <3>1, <3>3 DEF Visit, Top
      <4>2. TypeOK'
        BY <3>1, <4>1 DEF TypeOK
      <4>3. \A k \in 1..j : amounts[k] < v
        BY <3>1, <3>2, <3>3 DEF IInv, Leads
      <4>4. \A k \in 1..(j + 1) : amounts[k] <= v
        BY <3>1, <3>2, <4>3
      <4>5. rank'.top - 1 = j
        BY <3>1, <4>1
      <4>6. Leads'
        BY <3>1, <4>1, <4>3, <4>4, <4>5 DEF Leads
      <4> QED
        BY <4>2, <4>6 DEF IInv
    <3>4. CASE ~(rank.topBid < v)
      <4>1. rank'.top = rank.top /\ rank'.topBid = rank.topBid /\ rank'.secBid \in Nat
            /\ rank' = [top |-> rank.top, topBid |-> rank.topBid, secBid |-> rank'.secBid]
        BY <3>1, <3>4 DEF Visit, Top
      <4>2. TypeOK'
        BY <3>1, <4>1 DEF TypeOK
      <4>3. \A k \in 1..(j + 1) : amounts[k] <= rank.topBid
        BY <3>1, <3>2, <3>4 DEF IInv, Leads
      <4>4. Leads'
        BY <3>1, <4>1, <4>3 DEF Leads, IInv
      <4> QED
        BY <4>2, <4>4 DEF IInv
    <3> QED
      BY <3>3, <3>4
  <2> QED
    BY <2>1, <2>2 DEF Next
<1>3. IInv => TypeOK /\ FirstMaximum
  BY AmountsType DEF IInv, Leads, TypeOK, FirstMaximum
<1> QED
  BY <1>1, <1>2, <1>3, PTL DEF Spec
=============================================================================
