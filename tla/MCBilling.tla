----------------------------- MODULE MCBilling -----------------------------
(* One organization whose subscription changes its seats, ends and is       *)
(* replaced, and whose payments fail and succeed.                           *)
EXTENDS Billing, TLC

Sub(contract, status, seats, periodEnd) ==
  [kind |-> "subscription", customer |-> "cus", contract |-> contract,
   named |-> TRUE, status |-> status, seats |-> seats, periodEnd |-> periodEnd]

Unnamed(content) == [content EXCEPT !.named = FALSE]

Cus == [kind |-> "customer", customer |-> "cus", named |-> TRUE]

Invoices == {[kind |-> k, contract |-> "sub"] : k \in {"paid", "payment_failed"}}

MCContent ==
  {Sub("sub", "active", 2, 2), Sub("sub", "canceled", 1, None)} \cup Invoices

MCContentConverge ==
  {Sub("sub", "active", 1, None), Unnamed(Sub("sub", "active", 0, None)), Cus}

Symmetry == Permutations(Member)
============================================================================
