------------------------------ MODULE TopBids -------------------------------
(***************************************************************************)
(* The ite expressions TopBidder, TopBid (or TopVal) and SecBid that the   *)
(* checks of Mechanism build with a loop over the bidders.  Their value in *)
(* a model of the solver is the value of that loop on the model's amounts. *)
(***************************************************************************)
EXTENDS Integers

\* bidders.at(0), and int_val(0).
First(b) == [top |-> 1, topBid |-> b[1], secBid |-> 0]

\* Fault: a bidder who ties with the top one replaces it.
TopOrLast(r, k, v) == IF r.topBid <= v THEN k ELSE r.top
Top(r, k, v)       == IF r.topBid < v THEN k ELSE r.top

\* SecBid is updated from the TopBid that the line before has just raised.
Visit(r, k, v) ==
    LET high == IF r.topBid < v THEN v ELSE r.topBid
    IN  [top    |-> Top(r, k, v),
         topBid |-> high,
         secBid |-> IF high < v THEN high
                    ELSE IF r.secBid < v THEN v ELSE r.secBid]

\* The expressions after the loop over n bidders.
Ranked(b, n) == LET r[k \in 0..n] == IF k = 0 THEN First(b)
                                     ELSE Visit(r[k - 1], k, b[k])
                IN  r[n]
=============================================================================
