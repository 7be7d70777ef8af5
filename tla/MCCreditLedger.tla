--------------------------- MODULE MCCreditLedger ---------------------------
(* Small instances of CreditLedger for TLC. *)
EXTENDS CreditLedger, TLC

CONSTANTS p1, p2, p3, e1, e2

\* Three packs that can lend to each other's reversals, settled by Razorpay.
LendPack == {p1, p2, p3}
LendEntry == {e1, e2}
LendPurchased == [p \in LendPack |-> IF p = p1 THEN 2 ELSE 1]
LendPaid == [p \in LendPack |-> IF p = p1 THEN 2 ELSE 1]
LendSymmetry == Permutations(LendEntry) \cup Permutations({p2, p3})

\* A Razorpay pack (p1) and a Lemon pack (p2, taxed: total above the price) that
\* lapse at different times.
ExpiryPack == {p1, p2}
ExpiryEntry == {e1}
ExpiryPurchased == [p \in ExpiryPack |-> IF p = p1 THEN 2 ELSE 3]
ExpiryPaid == [p \in ExpiryPack |-> 2]
ExpiryOrderTotal == [p \in ExpiryPack |-> IF p = p1 THEN 2 ELSE 3]
=============================================================================
