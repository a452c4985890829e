---------------------------- MODULE MCMechanism -----------------------------
(***************************************************************************)
(* Auctions for the model checker.  Two bidders, amounts 0 to 2.           *)
(*   first     the higher bid wins and pays; a tie goes to bidder 1        *)
(*   second    the same winner pays the lower bid                          *)
(*   later     as first, but a tie goes to bidder 2                        *)
(*   captured  bidder 1 always wins, pays its bid and must bid 2           *)
(*   posted    the higher bid wins and pays 1 (bids of 0 are not allowed)  *)
(*   raised    as first, on the paths where bidder 2 bids more             *)
(*   shaded    as second, with the assumption that bids are below values   *)
(*   solo, nobody, untyped, unpaid   one bidder, no bidder, no             *)
(*             declare_type, no declare_utility                            *)
(***************************************************************************)
EXTENDS Mechanism

MCAmounts == 0..2
Two == [1..2 -> MCAmounts]
All == Two \X Two

High(b) == IF b[1] < b[2] THEN b[2] ELSE b[1]
Low(b)  == IF b[1] < b[2] THEN b[1] ELSE b[2]

\* declare_utility(msg_senderK, pK - price)
Net(n, price) ==
    [k \in 1..n |-> [who |-> k,
        u |-> [p \in [1..n -> MCAmounts] \X [1..n -> MCAmounts] |-> p[2][k] - price[p[1]]]]]

Auction(n, alloc, price, pre, assume) ==
    [type |-> 0, n |-> n, alloc |-> alloc, price |-> price, pre |-> pre,
     assume |-> assume, util |-> Net(n, price)]

Earlier == [b \in Two |-> IF b[1] < b[2] THEN 2 ELSE 1]
Later   == [b \in Two |-> IF b[2] < b[1] THEN 1 ELSE 2]
PayHigh == [b \in Two |-> High(b)]
PayLow  == [b \in Two |-> Low(b)]
One     == [1..1 -> MCAmounts]
Zero    == [1..0 -> MCAmounts]

first  == Auction(2, Earlier, PayHigh, Two, All)
second == Auction(2, Earlier, PayLow, Two, All)

MCDesign == [
  first    |-> first,
  second   |-> second,
  later    |-> Auction(2, Later, PayHigh, Two, All),
  captured |-> Auction(2, [b \in Two |-> 1], [b \in Two |-> b[1]], Two,
                       {p \in All : p[1][1] = 2}),
  posted   |-> Auction(2, Earlier, [b \in Two |-> 1], Two, All),
  raised   |-> Auction(2, Earlier, PayHigh, {b \in Two : b[1] < b[2]}, All),
  shaded   |-> Auction(2, Earlier, PayLow, Two,
                       {p \in All : p[1][1] < p[2][1] /\ p[1][2] < p[2][2]}),
  solo     |-> Auction(1, [b \in One |-> 1], [b \in One |-> b[1]], One, One \X One),
  nobody   |-> Auction(0, [b \in Zero |-> 1], [b \in Zero |-> 0], Zero, Zero \X Zero),
  untyped  |-> [first EXCEPT !.type = -1],
  unpaid   |-> [first EXCEPT !.util = <<>>]
]
MCMechs == DOMAIN MCDesign

\* Every sequence of at most two types, the README's four, an unknown type;
\* and every sequence of at most two invariants.
UpTo2(S) == {<<>>} \cup {<<x>> : x \in S} \cup {<<x, y>> : <<x, y>> \in S \X S}
MCRequests ==
    [checks : UpTo2(0..3) \cup {<<0, 1, 2, 3>>, <<4>>}, invariants : {<<>>}]
    \cup [checks : {<<>>, <<0>>}, invariants : UpTo2(0..2)]
=============================================================================
