------------------------------ MODULE Purchase ------------------------------
(***************************************************************************)
(* One purchase as both payment providers know it: what the provider took  *)
(* and refunded, the pack it bought, and what billing promises about them, *)
(* whichever of RazorpayBilling and LemonBilling moves the rows.           *)
(***************************************************************************)
EXTENDS Naturals

CONSTANT Price  \* price_cents

VARIABLES
    pack,       \* the billing_credit_packs row
    provider,   \* what the provider knows of the payment
    heard       \* history: the highest refund level a handler acknowledged

Granted == pack.grants > 0

-----------------------------------------------------------------------------
\* A purchase is granted at most once, however the webhook's deliveries, the
\* recovered payment, their retries and the administrator's correction race:
\* under Razorpay's payment lock, and without a common lock at Lemon Squeezy
\* (handle_razorpay_link_paid, handle_order_created, admin_correction).
GrantedOnce == pack.grants <= 1

\* No refund that a handler acknowledged is forgotten: also when it came
\* before its grant and had to wait in a row that outlives the purge
\* (Razorpay) or is parked and retried (Lemon Squeezy), and when the pack is
\* granted between the handler's look-up and its answer
\* (handle_razorpay_refund, known_refund_cents, _refund_without_pack).
RefundRemembered == Granted => pack.cash >= heard

Settlement == INSTANCE PaymentSettlement WITH
    paid <- provider.paid, refunded <- provider.refunded,
    granted <- Granted, vouched <- pack.vouched, cash <- pack.cash

\* Every step of the inbox, the handlers, the lanes and the administrator is
\* a step of the abstract settlement, or changes nothing of it, whichever
\* provider took the money: the pack appears only for captured money, or
\* as one that an administrator vouched for (admin_correction asks Razorpay
\* for the payment and takes the word of the administrator for a Lemon
\* order), and the cash settled on it rises, never past what was refunded,
\* also when lane 2 applies an amount it read earlier.
SettlesPayment == Settlement!Spec
=============================================================================
