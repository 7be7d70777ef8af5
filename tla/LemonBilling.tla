---------------------------- MODULE LemonBilling ----------------------------
(***************************************************************************)
(* One Lemon Squeezy purchase from the moment its checkout URL was         *)
(* returned.  Unlike Razorpay there is no payment lock: the order_created  *)
(* handler locks the checkout attempt, the order_refunded handler looks    *)
(* for the pack without a lock, and a refund that comes before its grant   *)
(* is put back into the inbox, parked, until the grant arrives or a day    *)
(* has passed.                                                             *)
(*                                                                         *)
(* An event is [kind, level, copy]: order_created or order_refunded, the   *)
(* refunded amount (Price for a fraud, whatever amount it carries), and a  *)
(* number that tells deliveries with different payload hashes apart.       *)
(***************************************************************************)
EXTENDS BillingInbox, Purchase, FiniteSetsExt

CONSTANTS
    CheckoutTtl,    \* lemonsqueezy_checkout_ttl_minutes
    GiveUpAge,      \* _REFUND_GIVE_UP_HOURS
    Lookback        \* razorpay_reconcile_lookback_days, used for both providers

LemonAssumption ==
    /\ Price \in Nat /\ GiveUpAge \in Nat
    /\ Event \subseteq [kind : {"created", "refund"}, level : 0..Price, copy : Nat]

VARIABLES
    attempt,        \* the billing_checkout_attempts row
    sent,           \* the webhooks it has emitted
    recon,          \* where the reconcile run is, and what lane 2 has read
    admin           \* the administrator's correction

money == <<attempt, pack, provider, sent, recon, admin, heard>>
vars == <<inbox, money>>

Levels == 0..Price
AttemptStatus == {"provider_created", "completed", "expired", "purged"}

TypeOK ==
    /\ InboxTypeOK
    /\ attempt \in AttemptStatus
    /\ pack \in [grants : 0..2, vouched : BOOLEAN, at : 0..MaxTime, cash : Levels]
    /\ provider \in [paid : BOOLEAN, at : 0..MaxTime, refunded : Levels]
    /\ sent \subseteq Event
    /\ recon \in [lane : {"idle", "lane2", "apply", "lane3"}, seen : Levels]
    /\ admin \in {"idle", "checked"}
    /\ heard \in Levels

Init ==
    /\ InboxInit
    /\ attempt = "provider_created"
    /\ pack = [grants |-> 0, vouched |-> FALSE, at |-> 0, cash |-> 0]
    /\ provider = [paid |-> FALSE, at |-> 0, refunded |-> 0]
    /\ sent = {}
    /\ recon = [lane |-> "idle", seen |-> 0]
    /\ admin = "idle"
    /\ heard = 0

\* The attempt was created at time 0.
AttemptLate == now > CheckoutTtl

(***************************************************************************)
(* Lemon Squeezy.                                                          *)
(***************************************************************************)
Pay ==
    /\ ~ provider.paid
    /\ provider' = [provider EXCEPT !.paid = TRUE, !.at = now]
    /\ sent' = sent \cup {e \in Event : e.kind = "created"}
    /\ UNCHANGED <<inbox, attempt, pack, recon, admin, heard>>

RefundAt(e) ==
    /\ e.kind = "refund"
    /\ provider.paid /\ provider.refunded < e.level
    /\ provider' = [provider EXCEPT !.refunded = e.level]
    /\ sent' = sent \cup {e}
    /\ UNCHANGED <<inbox, attempt, pack, recon, admin, heard>>

Deliver(e) ==
    /\ e \in sent
    /\ Insert(e)
    /\ UNCHANGED money

(***************************************************************************)
(* handle_order_created: attempt, user and pack are read under the         *)
(* attempt's lock; the unique indexes turn a lost race into a duplicate.   *)
(***************************************************************************)
Handling(x, e, kind) ==
    /\ e.kind = kind
    /\ exec[x][e] = "claimed"
    /\ row[e].status \notin {"absent", "processed"}

Finish(x, e) ==
    /\ row' = [row EXCEPT ![e] = Processed(@)]
    /\ Leave(x, e)
    /\ UNCHANGED <<try, now, faults>>

\* The pack is dated, and granted on proof of payment or on somebody's word.
GrantPack(at, word) ==
    IF Granted THEN pack
               ELSE [pack EXCEPT !.grants = 1, !.vouched = word, !.at = at]

\* An attempt that has expired, or is gone, is refused for good.  The pack is as old
\* as the order.
HandleCreated(x, e) ==
    /\ Handling(x, e, "created")
    /\ IF attempt \in {"provider_created", "completed"}
         THEN attempt' = "completed" /\ pack' = GrantPack(provider.at, FALSE)
         ELSE UNCHANGED <<attempt, pack>>
    /\ Finish(x, e)
    /\ UNCHANGED <<provider, sent, recon, admin, heard>>

(***************************************************************************)
(* handle_order_refunded and _refund_without_pack.                         *)
(***************************************************************************)
\* apply_refund_reversal: the processed level only rises.
M_Reverse(level) == [pack EXCEPT !.cash = level]

Reverse(level) == [pack EXCEPT !.cash = Max({@, level})]

\* History: an answer counts while the attempt proves who paid and the refund
\* is not older than GiveUpAge.
Acknowledge(e) ==
    heard' = IF attempt # "purged" /\ now - row[e].at <= GiveUpAge
               THEN Max({heard, e.level}) ELSE heard

HandleRefund(x, e) ==
    /\ Handling(x, e, "refund")
    /\ Granted
    /\ pack' = Reverse(e.level)
    /\ Acknowledge(e)
    /\ Finish(x, e)
    /\ UNCHANGED <<attempt, provider, sent, recon, admin>>

\* No pack was found; the handler goes on holding the lock of its row only.
RefundFindsNoPack(x, e) ==
    /\ Handling(x, e, "refund")
    /\ ~ Granted
    /\ exec' = [exec EXCEPT ![x][e] = "nopack"]
    /\ UNCHANGED <<row, try, now, faults, money>>

\* The attempt is over and a day has passed.
GiveUp(e) == (attempt = "expired" \/ AttemptLate) /\ now - row[e].at > GiveUpAge

\* Back to "received", with the error that keeps the 60 s sweep away.
Park(x, e) ==
    /\ row' = [row EXCEPT ![e].status = "received", ![e].parked = TRUE]
    /\ Leave(x, e)

\* Without its attempt a refund has no proof of ownership.
RefundWithoutPack(x, e) ==
    /\ exec[x][e] = "nopack"
    /\ IF attempt = "purged" \/ GiveUp(e)
         THEN row' = [row EXCEPT ![e] = Processed(@)] /\ Leave(x, e) /\ Acknowledge(e)
         ELSE Park(x, e) /\ UNCHANGED heard
    /\ UNCHANGED <<try, now, faults, attempt, pack, provider, sent, recon, admin>>

(***************************************************************************)
(* admin_correction for a Lemon order: nobody asks the provider whether it *)
(* is paid, and no lock joins the look-up and the insert; the unique       *)
(* indexes decide.                                                         *)
(***************************************************************************)
AdminCheck ==
    /\ admin = "idle" /\ ~ Granted
    /\ admin' = "checked"
    /\ UNCHANGED <<inbox, attempt, pack, provider, sent, recon, heard>>

M_AdminGrant ==
    /\ admin = "checked"
    /\ admin' = "idle"
    /\ pack' = [pack EXCEPT !.grants = @ + 1, !.vouched = TRUE, !.at = now]
    /\ UNCHANGED <<inbox, attempt, provider, sent, recon, heard>>

AdminGrant ==
    /\ admin = "checked"
    /\ admin' = "idle"
    /\ pack' = GrantPack(now, TRUE)
    /\ UNCHANGED <<inbox, attempt, provider, sent, recon, heard>>

(***************************************************************************)
(* billing_reconcile.                                                      *)
(***************************************************************************)
\* Lane 1 also takes the parked rows.
Lane1 ==
    /\ recon.lane = "idle"
    /\ Requeue(TRUE)
    /\ recon' = [recon EXCEPT !.lane = "lane2"]
    /\ UNCHANGED <<attempt, pack, provider, sent, admin, heard>>

Lane2Read ==
    /\ recon.lane = "lane2"
    /\ recon' = IF Granted /\ now - pack.at <= Lookback /\ provider.refunded > 0
                  THEN [lane |-> "apply", seen |-> provider.refunded]
                  ELSE [recon EXCEPT !.lane = "lane3"]
    /\ UNCHANGED <<inbox, attempt, pack, provider, sent, admin, heard>>

Lane2Fails ==
    /\ recon.lane = "lane2"
    /\ Fault
    /\ recon' = [recon EXCEPT !.lane = "lane3"]
    /\ UNCHANGED <<row, exec, try, now, attempt, pack, provider, sent, admin, heard>>

Lane2Apply ==
    /\ recon.lane = "apply"
    /\ pack' = Reverse(recon.seen)
    /\ recon' = [lane |-> "lane3", seen |-> 0]
    /\ UNCHANGED <<inbox, attempt, provider, sent, admin, heard>>

Lane3 ==
    /\ recon.lane = "lane3"
    /\ attempt' = IF attempt = "provider_created" /\ AttemptLate THEN "expired" ELSE attempt
    /\ recon' = [recon EXCEPT !.lane = "idle"]
    /\ UNCHANGED <<inbox, pack, provider, sent, admin, heard>>

ReconcileDies ==
    /\ recon.lane # "idle"
    /\ Fault
    /\ recon' = [lane |-> "idle", seen |-> 0]
    /\ UNCHANGED <<row, exec, try, now, attempt, pack, provider, sent, admin, heard>>

PurgeAttempt ==
    /\ attempt \in {"expired", "completed"}
    /\ now > RetentionAge
    /\ attempt' = "purged"
    /\ UNCHANGED <<inbox, pack, provider, sent, recon, admin, heard>>

Processor(x, e) ==
    \/ InboxStep(x, e) /\ UNCHANGED money
    \/ HandleCreated(x, e)
    \/ HandleRefund(x, e)
    \/ RefundFindsNoPack(x, e)
    \/ RefundWithoutPack(x, e)

Reconcile == Lane1 \/ Lane2Read \/ Lane2Fails \/ Lane2Apply \/ Lane3

SweepRows == Sweep /\ UNCHANGED money

Next ==
    \/ Pay
    \/ \E e \in Event : RefundAt(e) \/ Deliver(e)
    \/ \E e \in Event : Processor("job", e)
    \/ \E e \in Event : Crash(e) /\ UNCHANGED money
    \/ AdminCheck \/ AdminGrant
    \/ SweepRows
    \/ Reconcile \/ ReconcileDies
    \/ \E e \in Event : PurgeRow(e) /\ UNCHANGED money
    \/ PurgeAttempt
    \/ Tick /\ UNCHANGED money

Spec == Init /\ [][Next]_vars

\* The worker runs queued jobs; the sweep and the reconcile cron keep ticking.
LiveSpec ==
    /\ Spec
    /\ \A e \in Event : WF_vars(Processor("job", e))
    /\ WF_vars(SweepRows)
    /\ WF_vars(Reconcile)

RefundDue == Granted /\ provider.refunded > pack.cash

RefundSettled == pack.cash = provider.refunded \/ now - pack.at > Lookback

=============================================================================
