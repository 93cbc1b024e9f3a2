---------------------------- MODULE UsageContract ----------------------------
(***************************************************************************)
(* What the usage ledger promises to who pays, without runtimes, copies or *)
(* rows: a turn that was charged stays charged, with its model, and at its *)
(* price once it has one, for as long as the workspace is there; when that *)
(* is deleted its charges are gone, and none comes back.                   *)
(***************************************************************************)
CONSTANTS
  Turn,
  Model,
  Cost

VARIABLES
  bill,   \* for each turn that was charged its model and its cost
  open    \* whether the workspace is there

vars == <<bill, open>>

Init == DOMAIN bill = {} /\ open = TRUE

\* Other turns are charged; a charge without a price may get one.
Charge ==
  /\ open /\ open' = open
  /\ DOMAIN bill \subseteq DOMAIN bill' /\ DOMAIN bill' \subseteq Turn
  /\ \A t \in DOMAIN bill' : bill'[t].model \in Model /\ bill'[t].cost \in Cost
  /\ \A t \in DOMAIN bill : bill'[t].model = bill[t].model /\ bill[t].cost \in {0, bill'[t].cost}

Close == open /\ open' = FALSE /\ DOMAIN bill' = {}

Next == Charge \/ Close

Spec == Init /\ [][Next]_vars

==============================================================================
