------------------------- MODULE PaymentSettlement -------------------------
(***************************************************************************)
(* What billing promises about one purchase, whichever provider took the   *)
(* money and however its messages were lost, repeated or reordered: a pack *)
(* is granted only for money the provider holds or, for good marked so, on *)
(* the word of an administrator, at most once, and the cash refund         *)
(* recorded on it only rises, never past what the provider has refunded.   *)
(***************************************************************************)
EXTENDS Naturals

CONSTANT Price

VARIABLES
    paid,       \* the provider has captured the payment
    refunded,   \* the amount it has refunded so far
    granted,    \* the pack exists
    vouched,    \* it was granted on somebody's word, without proof of payment
    cash        \* the refund the pack has been settled for

vars == <<paid, refunded, granted, vouched, cash>>

Init ==
    /\ paid = FALSE
    /\ refunded = 0
    /\ granted = FALSE
    /\ vouched = FALSE
    /\ cash = 0

Pay ==
    /\ ~ paid
    /\ paid' = TRUE
    /\ UNCHANGED <<refunded, granted, vouched, cash>>

Refund ==
    /\ paid
    /\ refunded' \in (refunded + 1)..Price
    /\ UNCHANGED <<paid, granted, vouched, cash>>

\* The pack appears, already settled for some of the refunds known so far.
Grant ==
    /\ ~ granted
    /\ granted' = TRUE
    /\ vouched' \in {FALSE, TRUE}
    /\ paid \/ vouched'
    /\ cash' \in 0..refunded
    /\ UNCHANGED <<paid, refunded>>

Settle ==
    /\ granted
    /\ cash' \in (cash + 1)..refunded
    /\ UNCHANGED <<paid, refunded, granted, vouched>>

Next == Pay \/ Refund \/ Grant \/ Settle

Spec == Init /\ [][Next]_vars

=============================================================================
