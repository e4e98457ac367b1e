------------------------------- MODULE MCPayment -------------------------------
(* Small instances of the whole checkout. *)
EXTENDS PaymentProperties, TLC

PaymentSymmetry ==
  Permutations(Docs) \cup Permutations(Attempts) \cup Permutations(Tickets)
    \cup Permutations(Tokens) \cup Permutations(OrderIds) \cup Permutations(ClientOrders)
=============================================================================
