----------------------------- MODULE MCBilling -----------------------------
(***************************************************************************)
(* The two payment providers for TLC.  A deployment sells through one of   *)
(* them, so a behaviour is one scenario: a provider, the events it may     *)
(* emit for one purchase, and the bounds.  The inbox, the attempt, the     *)
(* pack and the reconcile run are the same tables and the same job.        *)
(***************************************************************************)
EXTENDS Purchase

CONSTANT Scenarios      \* the scenarios of this run

VARIABLES row, exec, try, now, faults, attempt, sent, recon,
          dispute, admin, scenario

shared == <<row, exec, try, now, faults, attempt, pack, provider, sent, recon, heard>>
vars == <<shared, dispute, admin, scenario>>

(***************************************************************************)
(* Razorpay.                                                               *)
(***************************************************************************)
Ev(kind, via, level, state, at) ==
    [kind |-> kind, via |-> via, level |-> level, state |-> state, at |-> at]

PaidHook == Ev("paid", "hook", 0, "none", 0)
PaidApi(levels) == {Ev("paid", "api", l, "none", 0) : l \in levels}
RefundHook(levels) == {Ev("refund", "hook", l, "none", 0) : l \in levels}
Decision(state, at) == Ev("dispute", "hook", 0, state, at)

\* One full refund, with retries, stale reclaims and the purge.
RefundEvents == {PaidHook} \cup PaidApi(0..1) \cup RefundHook(1..1)
Refunds == INSTANCE RazorpayBilling WITH Event <- RefundEvents, MaxTries <- 1,
    StaleAge <- 0, RetentionAge <- 0, MaxTime <- 1, MaxFaults <- 1,
    Price <- 1, Deducted <- 1, CheckoutTtl <- 0, Lookback <- 2

\* Two cumulative refund levels.
PartialEvents == {PaidHook} \cup PaidApi(0..2) \cup RefundHook(1..2)
Partial == INSTANCE RazorpayBilling WITH Event <- PartialEvents, MaxTries <- 1,
    StaleAge <- 0, RetentionAge <- 0, MaxTime <- 0, MaxFaults <- 1,
    Price <- 2, Deducted <- 1, CheckoutTtl <- 0, Lookback <- 2

\* A dispute with four decisions, two of them in one second.
DisputeEvents == {PaidHook, Decision("open", 1), Decision("lost", 1),
                  Decision("won", 1), Decision("closed_loss", 2)}
Disputes == INSTANCE RazorpayBilling WITH Event <- DisputeEvents, MaxTries <- 2,
    StaleAge <- 0, RetentionAge <- 0, MaxTime <- 0, MaxFaults <- 1,
    Price <- 2, Deducted <- 1, CheckoutTtl <- 0, Lookback <- 2

\* Every webhook of the payment is lost.
SilentEvents == PaidApi(0..1) \cup RefundHook(1..1)
Silent == INSTANCE RazorpayBilling WITH Event <- SilentEvents, MaxTries <- 2,
    StaleAge <- 0, RetentionAge <- 2, MaxTime <- 1, MaxFaults <- 1,
    Price <- 1, Deducted <- 1, CheckoutTtl <- 0, Lookback <- 1

ASSUME RazorpayScenarios ==
    /\ Refunds!InboxAssumption /\ Refunds!RazorpayAssumption
    /\ Partial!InboxAssumption /\ Partial!RazorpayAssumption
    /\ Disputes!InboxAssumption /\ Disputes!RazorpayAssumption
    /\ Silent!InboxAssumption /\ Silent!RazorpayAssumption

(***************************************************************************)
(* Lemon Squeezy.                                                          *)
(***************************************************************************)
Order(copies) == {[kind |-> "created", level |-> 0, copy |-> c] : c \in copies}
LemonRefund(levels) == {[kind |-> "refund", level |-> l, copy |-> 1] : l \in levels}

\* Two deliveries of the order with different payload hashes, one refund.
OrderEvents == Order({1, 2}) \cup LemonRefund(1..1)
Orders == INSTANCE LemonBilling WITH Event <- OrderEvents, MaxTries <- 1,
    StaleAge <- 0, RetentionAge <- 0, MaxTime <- 1, MaxFaults <- 1,
    Price <- 1, CheckoutTtl <- 0, GiveUpAge <- 0, Lookback <- 2

\* One delivery, two cumulative refunds that may come before it.
EarlyEvents == Order({1}) \cup LemonRefund(1..2)
Early == INSTANCE LemonBilling WITH Event <- EarlyEvents, MaxTries <- 2,
    StaleAge <- 0, RetentionAge <- 0, MaxTime <- 1, MaxFaults <- 0,
    Price <- 2, CheckoutTtl <- 0, GiveUpAge <- 0, Lookback <- 2

\* One delivery and one refund.
ParkedEvents == Order({1}) \cup LemonRefund(1..1)
Parked == INSTANCE LemonBilling WITH Event <- ParkedEvents, MaxTries <- 1,
    StaleAge <- 0, RetentionAge <- 0, MaxTime <- 1, MaxFaults <- 0,
    Price <- 1, CheckoutTtl <- 0, GiveUpAge <- 0, Lookback <- 2

ASSUME LemonScenarios ==
    /\ Orders!InboxAssumption /\ Orders!LemonAssumption
    /\ Early!InboxAssumption /\ Early!LemonAssumption
    /\ Parked!InboxAssumption /\ Parked!LemonAssumption

(***************************************************************************)
(* A behaviour stays in the scenario it starts in.                         *)
(***************************************************************************)
Init ==
    /\ scenario \in Scenarios
    /\ \/ scenario = "refunds" /\ Refunds!Init /\ admin = "none"
       \/ scenario = "partial" /\ Partial!Init /\ admin = "none"
       \/ scenario = "disputes" /\ Disputes!Init /\ admin = "none"
       \/ scenario = "silent" /\ Silent!Init /\ admin = "none"
       \/ scenario = "orders" /\ Orders!Init /\ dispute = "none"
       \/ scenario = "early" /\ Early!Init /\ dispute = "none"
       \/ scenario = "parked" /\ Parked!Init /\ dispute = "none"

In(s) == scenario = s /\ UNCHANGED scenario
Razorpay(s) == In(s) /\ UNCHANGED admin
Lemon(s) == In(s) /\ UNCHANGED dispute

Next ==
    \/ Razorpay("refunds") /\ Refunds!Next
    \/ Razorpay("partial") /\ Partial!Next
    \/ Razorpay("disputes") /\ Disputes!Next
    \/ Razorpay("silent") /\ Silent!Next
    \/ Lemon("orders") /\ Orders!Next
    \/ Lemon("early") /\ Early!Next
    \/ Lemon("parked") /\ Parked!Next

Spec == Init /\ [][Next]_vars

\* The fairness of RazorpayBilling and LemonBilling, in their scenarios.
LiveSpec ==
    /\ Spec
    /\ \A e \in SilentEvents : WF_vars(Razorpay("silent") /\ Silent!Processor("job", e))
    /\ \A e \in PaidApi(0..1) : WF_vars(Razorpay("silent") /\ Silent!Processor("cron", e))
    /\ WF_vars(Razorpay("silent") /\ Silent!SweepRows)
    /\ WF_vars(Razorpay("silent") /\ Silent!Reconcile)
    /\ \A e \in ParkedEvents : WF_vars(Lemon("parked") /\ Parked!Processor("job", e))
    /\ WF_vars(Lemon("parked") /\ Parked!SweepRows)
    /\ WF_vars(Lemon("parked") /\ Parked!Reconcile)

(***************************************************************************)
(* Properties beside those of Purchase.                                    *)
(***************************************************************************)
\* Once every decision Razorpay announced has been processed, in whatever
\* order, the stored dispute is Razorpay's last word and the pack is settled
\* for it (handle_razorpay_dispute, settle_pack).
LastDecisionWins ==
    scenario = "disputes" => (Disputes!DecisionsProcessed => Disputes!LastWordStored)

\* A paid purchase is granted in the end even if every webhook is lost, the
\* attempt has expired and calls to Razorpay fail, as long as the attempt is
\* within the lookback (recover_attempts).
PaidIsGranted ==
    (scenario = "silent" /\ provider.paid) ~> (scenario = "silent" /\ Silent!PaidSeen)

\* A refund reaches its pack in the end even if its webhook is lost or was
\* given up (_reconcile_lane2 of both providers).
RefundReachesPack ==
    \/ scenario = "silent" /\ Silent!RefundDue
    \/ scenario = "parked" /\ Parked!RefundDue
    ~>
    \/ scenario = "silent" /\ Silent!RefundSettled
    \/ scenario = "parked" /\ Parked!RefundSettled

\* A received refund row is processed in the end, through a crash, a failure
\* or a lost queue, while the faults are fewer than the tries
\* (billing_process_pending_webhooks, billing_process_webhook).
RowsFinish ==
    \A e \in RefundHook(1..1) :
        (scenario = "silent" /\ Silent!RowWaits(e)) ~> (scenario = "silent" /\ Silent!RowDone(e))

=============================================================================
