-------------------------- MODULE RazorpayBilling --------------------------
(***************************************************************************)
(* One Razorpay purchase: the checkout attempt, the provider, the inbox    *)
(* with the three Razorpay handlers, the admin correction, and the         *)
(* reconcile run with its lanes.  The provider's webhooks may be lost,     *)
(* repeated and reordered.                                                 *)
(*                                                                         *)
(* Every handler takes the payment's advisory lock before it reads the     *)
(* attempt, the pack or the stored refunds, and holds it to its commit, so *)
(* it is one step.  The credits behind a pack are CreditLedger's; here a   *)
(* pack is the cash refund and the entitlement it was settled for.         *)
(*                                                                         *)
(* An event is [kind, via, level, state, at]: the refund level the         *)
(* payment entity in the payload shows and, for a dispute, the state and   *)
(* the provider's timestamp.                                               *)
(***************************************************************************)
EXTENDS BillingInbox, Purchase, FiniteSetsExt

CONSTANTS
    Deducted,       \* amount_deducted of a dispute closed with a loss
    CheckoutTtl,    \* razorpay_checkout_ttl_minutes
    Lookback        \* razorpay_reconcile_lookback_days

VARIABLES
    attempt,        \* the billing_checkout_attempts row
    dispute,        \* the billing_disputes row
    sent,           \* the webhooks Razorpay has emitted
    recon           \* where the reconcile run is, and what lane 2 has read

\* What the webhooks and the settings may say; no refund and no dispute is for
\* more than the price.
RazorpayAssumption ==
    /\ Price \in Nat /\ Deducted \in Nat
    /\ Event \subseteq [kind : {"paid", "refund", "dispute"}, via : {"hook", "api"},
                       level : 0..Price,
                       state : {"none", "open", "lost", "won", "closed", "closed_loss"},
                       at : Nat]

money == <<attempt, pack, dispute, provider, sent, recon, heard>>
vars == <<inbox, money>>

Levels == 0..Price
Terminal == {"lost", "won", "closed", "closed_loss"}
DisputeState == {"none", "open"} \cup Terminal

AttemptStatus ==
    {"none", "created", "provider_created", "completed", "expired", "failed", "purged"}

Lane == {"idle", "lane2", "apply", "recover", "lane3"}

TypeOK ==
    /\ InboxTypeOK
    /\ attempt \in [status : AttemptStatus, link : BOOLEAN, at : 0..MaxTime]
    /\ pack \in [grants : 0..2, vouched : BOOLEAN, cash : Levels, effective : Levels]
    /\ dispute \in [state : DisputeState, at : Nat]
    /\ provider \in [paid : BOOLEAN, at : 0..MaxTime, refunded : Levels,
                     dispute : [state : DisputeState, at : Nat]]
    /\ sent \subseteq Event
    /\ recon \in [lane : Lane, seen : Levels]
    /\ heard \in Levels

Init ==
    /\ InboxInit
    /\ attempt = [status |-> "none", link |-> FALSE, at |-> 0]
    /\ pack = [grants |-> 0, vouched |-> FALSE, cash |-> 0, effective |-> 0]
    /\ dispute = [state |-> "none", at |-> 0]
    /\ provider = [paid |-> FALSE, at |-> 0, refunded |-> 0,
                   dispute |-> [state |-> "none", at |-> 0]]
    /\ sent = {}
    /\ recon = [lane |-> "idle", seen |-> 0]
    /\ heard = 0

(***************************************************************************)
(* create_checkout.                                                        *)
(***************************************************************************)
\* The attempt is committed before the provider is called.
CreateCheckout ==
    /\ attempt.status = "none"
    /\ attempt' = [status |-> "created", link |-> FALSE, at |-> now]
    /\ UNCHANGED <<inbox, pack, dispute, provider, sent, recon, heard>>

\* The provider answered; the link is committed, then the URL is returned.
\* A crash or a failing commit in between leaves the attempt "created".
LinkCreated ==
    /\ attempt.status = "created"
    /\ attempt' = [attempt EXCEPT !.status = "provider_created", !.link = TRUE]
    /\ UNCHANGED <<inbox, pack, dispute, provider, sent, recon, heard>>

LinkRefused ==
    /\ attempt.status = "created"
    /\ Fault
    /\ attempt' = [attempt EXCEPT !.status = "failed"]
    /\ UNCHANGED <<row, exec, try, now, pack, dispute, provider, sent, recon, heard>>

(***************************************************************************)
(* Razorpay.                                                               *)
(***************************************************************************)
\* Only a URL that was returned can be paid.
Pay ==
    /\ attempt.link /\ ~ provider.paid
    /\ provider' = [provider EXCEPT !.paid = TRUE, !.at = now]
    /\ sent' = sent \cup {e \in Event : e.kind = "paid" /\ e.via = "hook" /\ e.level = 0}
    /\ UNCHANGED <<inbox, attempt, pack, dispute, recon, heard>>

RefundAt(e) ==
    /\ e.kind = "refund"
    /\ provider.paid /\ provider.refunded < e.level
    /\ provider' = [provider EXCEPT !.refunded = e.level]
    /\ sent' = sent \cup {e}
    /\ UNCHANGED <<inbox, attempt, pack, dispute, recon, heard>>

\* A dispute opens, is decided, and a decision may be replaced by a later
\* one, even within the same second.
Decide(e) ==
    /\ e.kind = "dispute" /\ e \notin sent
    /\ provider.paid
    /\ provider.dispute.state \in (IF e.state = "open" THEN {"none"}
                                   ELSE DisputeState \ {"none", e.state})
    /\ provider.dispute.at <= e.at
    /\ e.level = provider.refunded
    /\ provider' = [provider EXCEPT !.dispute = [state |-> e.state, at |-> e.at]]
    /\ sent' = sent \cup {e}
    /\ UNCHANGED <<inbox, attempt, pack, dispute, recon, heard>>

\* Razorpay delivers an event for the first time, or again after a purge.
Deliver(e) ==
    /\ e \in sent
    /\ Insert(e)
    /\ UNCHANGED money

(***************************************************************************)
(* razorpay_settlement.                                                    *)
(***************************************************************************)
\* The value of lost disputes.
Loss(d) ==
    CASE d.state = "lost" -> Price
      [] d.state = "closed_loss" -> Deducted
      [] OTHER -> 0

\* settle_pack: cash only rises, and disputed value covers the same credits.
Settle(p, level, d) ==
    LET cash == Min({Price, Max({p.cash, level})})
    IN  [p EXCEPT !.cash = cash, !.effective = Min({Price, Max({cash, Loss(d)})})]

\* known_refund_cents: the stored refund events of the payment, whatever
\* their status.
KnownRefund ==
    Max({0} \cup {e.level : e \in {f \in Event : /\ f.kind = "refund"
                                                /\ row[f].status # "absent"}})

\* A purchase grants once; a pack that exists is only settled.
GrantAndSettle(level) ==
    Settle([pack EXCEPT !.grants = IF Granted THEN @ ELSE 1],
           Max({level, KnownRefund}), dispute)

Complete == [attempt EXCEPT !.status = "completed", !.link = TRUE]

(***************************************************************************)
(* The handlers: the row is still to be processed when the handler locks   *)
(* it, and is processed when it commits.                                   *)
(***************************************************************************)
Handling(x, e, kind) ==
    /\ e.kind = kind
    /\ exec[x][e] = "claimed"
    /\ row[e].status \notin {"absent", "processed"}

Finish(x, e) ==
    /\ row' = [row EXCEPT ![e] = Processed(@)]
    /\ Leave(x, e)
    /\ UNCHANGED <<try, now, faults>>

\* handle_razorpay_link_paid.  Without its attempt the event is rejected; an
\* expired or failed attempt is accepted.
HandleLinkPaid(x, e) ==
    /\ Handling(x, e, "paid")
    /\ IF attempt.status = "purged"
         THEN UNCHANGED <<attempt, pack>>
         ELSE attempt' = Complete /\ pack' = GrantAndSettle(e.level)
    /\ Finish(x, e)
    /\ UNCHANGED <<dispute, provider, sent, recon, heard>>

\* handle_razorpay_refund.  Without a pack the row itself is the evidence.
HandleRefund(x, e) ==
    /\ Handling(x, e, "refund")
    /\ pack' = IF Granted THEN Settle(pack, e.level, dispute) ELSE pack
    /\ heard' = Max({heard, e.level})
    /\ Finish(x, e)
    /\ UNCHANGED <<attempt, dispute, provider, sent, recon>>

\* An event that says nothing new: older, or not a decision once there is
\* one, or the same decision again.
OutOfDate(e) ==
    /\ dispute.state # "none"
    /\ \/ e.at < dispute.at
       \/ dispute.state \in Terminal /\ e.state \notin Terminal
       \/ e.at = dispute.at /\ dispute.state \in Terminal /\ dispute.state = e.state

M_Undecidable(e) == FALSE

\* Two different decisions in the same second: ask Razorpay which one holds.
Undecidable(e) ==
    /\ ~ OutOfDate(e)
    /\ e.at = dispute.at /\ dispute.state \in Terminal /\ e.state \in Terminal

\* handle_razorpay_dispute.
HandleDispute(x, e) ==
    /\ Handling(x, e, "dispute")
    /\ IF OutOfDate(e)
         THEN UNCHANGED <<dispute, pack>>
         ELSE /\ dispute' = [state |-> IF Undecidable(e) THEN provider.dispute.state
                                                         ELSE e.state,
                             at |-> e.at]
              /\ pack' = IF Granted THEN Settle(pack, e.level, dispute') ELSE pack
    /\ Finish(x, e)
    /\ UNCHANGED <<attempt, provider, sent, recon, heard>>

M_AdminCorrection ==
    /\ attempt.status \notin {"none", "purged"} /\ attempt.link
    /\ attempt' = Complete
    /\ pack' = IF Granted THEN pack ELSE GrantAndSettle(provider.refunded)
    /\ UNCHANGED <<inbox, dispute, provider, sent, recon, heard>>

\* admin_correction: the payment is read from Razorpay under the lock, and
\* must be the one the attempt's link took.
AdminCorrection ==
    /\ attempt.status \notin {"none", "purged"} /\ attempt.link /\ provider.paid
    /\ attempt' = Complete
    /\ pack' = IF Granted THEN pack ELSE GrantAndSettle(provider.refunded)
    /\ UNCHANGED <<inbox, dispute, provider, sent, recon, heard>>

(***************************************************************************)
(* billing_reconcile: one run at a time (the cursor rows are locked for    *)
(* the whole run), its lanes in order.                                     *)
(***************************************************************************)
Goto(lane) == recon' = [recon EXCEPT !.lane = lane]

\* Lane 1 replays the inbox, parked rows included.
Lane1 ==
    /\ recon.lane = "idle"
    /\ Requeue(TRUE)
    /\ Goto("lane2")
    /\ UNCHANGED <<attempt, pack, dispute, provider, sent, heard>>

\* Lane 2 reads the payment of a pack bought within the lookback, without
\* any lock.
Lane2Read ==
    /\ recon.lane = "lane2"
    /\ recon' = IF Granted /\ now - provider.at <= Lookback /\ provider.refunded > 0
                  THEN [lane |-> "apply", seen |-> provider.refunded]
                  ELSE [recon EXCEPT !.lane = "recover"]
    /\ UNCHANGED <<inbox, attempt, pack, dispute, provider, sent, heard>>

\* A provider error ends the lane, not the run.
Lane2Fails ==
    /\ recon.lane = "lane2"
    /\ Fault
    /\ Goto("recover")
    /\ UNCHANGED <<row, exec, try, now, attempt, pack, dispute, provider, sent, heard>>

M_Lane2Apply ==
    /\ recon.lane = "apply"
    /\ recon' = [lane |-> "recover", seen |-> 0]
    /\ UNCHANGED <<inbox, attempt, pack, dispute, provider, sent, heard>>

\* _reconcile_apply_reversal, with what was read before the lock.
Lane2Apply ==
    /\ recon.lane = "apply"
    /\ pack' = Settle(pack, recon.seen, dispute)
    /\ recon' = [lane |-> "recover", seen |-> 0]
    /\ UNCHANGED <<inbox, attempt, dispute, provider, sent, heard>>

M_Recoverable ==
    /\ attempt.status \in {"created", "provider_created"} /\ attempt.link
    /\ now - attempt.at <= Lookback
    /\ provider.paid

\* recover_attempts considers every attempt with a recorded link that is not
\* completed, and Razorpay says the link is paid.
Recoverable ==
    /\ attempt.status \notin {"none", "purged", "completed"} /\ attempt.link
    /\ now - attempt.at <= Lookback
    /\ provider.paid

\* process_recovered_payment stores what it read as an event of its own and
\* processes it on the spot, not through the queue.
Recover(e) ==
    /\ recon.lane = "recover"
    /\ e.kind = "paid" /\ e.via = "api" /\ e.level = provider.refunded
    /\ Recoverable
    /\ row' = [row EXCEPT ![e] = IF @.status = "absent"
                                   THEN [Absent EXCEPT !.status = "received", !.at = now]
                                   ELSE @]
    /\ exec' = [exec EXCEPT !["cron"][e] = "queued"]
    /\ Goto("lane3")
    /\ UNCHANGED <<try, now, faults, attempt, pack, dispute, provider, sent, heard>>

RecoverNothing ==
    /\ recon.lane = "recover"
    /\ Recoverable => Fault
    /\ ~ Recoverable => UNCHANGED faults
    /\ Goto("lane3")
    /\ UNCHANGED <<row, exec, try, now, attempt, pack, dispute, provider, sent, heard>>

\* Lane 3 expires attempts, once the recovered event has been dealt with; a
\* failure there is logged and the run goes on.
Lane3 ==
    /\ recon.lane = "lane3"
    /\ \A e \in Event : exec["cron"][e] = "none"
    /\ attempt' = IF attempt.status \in {"created", "provider_created"}
                     /\ now - attempt.at > CheckoutTtl
                    THEN [attempt EXCEPT !.status = "expired"] ELSE attempt
    /\ Goto("idle")
    /\ UNCHANGED <<inbox, pack, dispute, provider, sent, heard>>

\* The run dies, or a lane raises: the later lanes wait for the next run.
ReconcileDies ==
    /\ recon.lane # "idle"
    /\ Fault
    /\ recon' = [lane |-> "idle", seen |-> 0]
    /\ exec' = [exec EXCEPT !["cron"] = [e \in Event |-> "none"]]
    /\ UNCHANGED <<row, try, now, attempt, pack, dispute, provider, sent, heard>>

\* purge_billing_events keeps a refund that still waits for its pack, and an
\* unfinished attempt whose link is recorded.
M_Kept(e) == FALSE

Kept(e) == e.kind = "refund" /\ ~ Granted

Purge(e) ==
    /\ ~ Kept(e)
    /\ PurgeRow(e)
    /\ UNCHANGED money

PurgeAttempt ==
    /\ attempt.status \in {"expired", "failed", "completed"}
    /\ now - attempt.at > RetentionAge
    /\ ~ (attempt.status # "completed" /\ attempt.link)
    /\ attempt' = [attempt EXCEPT !.status = "purged"]
    /\ UNCHANGED <<inbox, pack, dispute, provider, sent, recon, heard>>

Processor(x, e) ==
    \/ InboxStep(x, e) /\ UNCHANGED money
    \/ HandleLinkPaid(x, e)
    \/ HandleRefund(x, e)
    \/ HandleDispute(x, e)

Reconcile ==
    \/ Lane1 \/ Lane2Read \/ Lane2Fails \/ Lane2Apply
    \/ \E e \in Event : Recover(e)
    \/ RecoverNothing \/ Lane3

SweepRows == Sweep /\ UNCHANGED money

Next ==
    \/ CreateCheckout \/ LinkCreated \/ LinkRefused
    \/ Pay
    \/ \E e \in Event : RefundAt(e) \/ Decide(e) \/ Deliver(e) \/ Purge(e)
    \/ \E x \in Executor, e \in Event : Processor(x, e)
    \/ \E e \in Event : Crash(e) /\ UNCHANGED money
    \/ AdminCorrection
    \/ SweepRows
    \/ Reconcile \/ ReconcileDies
    \/ PurgeAttempt
    \/ Tick /\ UNCHANGED money

Spec == Init /\ [][Next]_vars

(***************************************************************************)
(* Fairness: the worker runs queued jobs, the sweep and the reconcile cron *)
(* keep ticking.  Nothing is assumed of the deliveries, of the user or of  *)
(* the administrator, and faults are finite.                               *)
(***************************************************************************)
Fairness ==
    /\ \A x \in Executor, e \in Event : WF_vars(Processor(x, e))
    /\ WF_vars(SweepRows)
    /\ WF_vars(Reconcile)

LiveSpec == Spec /\ Fairness

(***************************************************************************)
(* Properties beside those of Purchase.                                    *)
(***************************************************************************)
\* Every decision Razorpay announced has been processed.
DecisionsProcessed == \A e \in sent : e.kind = "dispute" => row[e].status = "processed"

\* The stored dispute is Razorpay's last word, and a granted pack is settled
\* for it and for the refunds.
LastWordStored ==
    /\ dispute.state = provider.dispute.state
    /\ Granted => pack.effective = Max({pack.cash, Loss(dispute)})

PaidSeen == Granted \/ now - attempt.at > Lookback

RefundDue == Granted /\ provider.refunded > pack.cash

RefundSettled == pack.cash = provider.refunded \/ now - provider.at > Lookback

RowWaits(e) == row[e].status = "received"

RowDone(e) == row[e].status \in {"processed", "absent"}

=============================================================================
