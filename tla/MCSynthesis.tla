---------------------------- MODULE MCSynthesis -----------------------------
(* Up to three paths over three inputs, each input on one path or on none; *)
(* a path tells its own outcome (its number), and declares one utility or  *)
(* two; the first path may lack declare_type.                              *)
EXTENDS Synthesis

MCInputs == 1..3
MCValues == 0..6

\* where: input -> its path (none: off all paths); utils: how many each path declares.
Path(k, where, utils, type) ==
    [pc    |-> {w \in MCInputs : where[w] = k},
     type  |-> type,
     alloc |-> [w \in MCInputs |-> k],
     price |-> [w \in MCInputs |-> k + w],
     util  |-> [j \in 1..utils[k] |-> [w \in MCInputs |-> k + j]]]

Of(n, where, utils, type) == [k \in 1..n |-> Path(k, where, utils, type)]

MCResults == {Of(n, where, utils, type) :
                n \in 0..3, where \in [MCInputs -> 0..3],
                utils \in [1..3 -> 1..2], type \in {-1, 0}}
=============================================================================
