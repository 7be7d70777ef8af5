---------------------------- MODULE CreditLedger ----------------------------
(***************************************************************************)
(* One user's credit accounts: the balance, the purchased packs, the debts *)
(* and the provenance rows written by backend/services/credit_service.py   *)
(* and backend/services/razorpay_settlement.py.                            *)
(*                                                                         *)
(* Every operation runs in one database transaction that holds the user    *)
(* row FOR UPDATE, so operations of one user are serial.  A transaction is *)
(* split into the steps of its loops and of its mutual recursion (tx and   *)
(* todo below): nothing but the open transaction moves until it ends,      *)
(* except the clock, which the code reads more than once per transaction   *)
(* (ClockMovesInTxn).  PostgreSQL evaluates the CHECK constraints at every *)
(* flush, so they are stated of these intermediate states too.             *)
(***************************************************************************)
EXTENDS Integers, Sequences, FiniteSets, Functions

CONSTANTS
    Pack,             \* billing_credit_packs rows that may ever exist
    NoPack,           \* "no pack" in a transaction record
    Entry,            \* deductions (negative credit_ledger rows)
    NoEntry,
    Purchased,        \* credits_purchased, per pack
    Paid,             \* paid_item_amount_cents = price_cents, per pack
    OrderTotal,       \* provider_order_total_cents (tax included), per pack
    Razorpay,         \* the packs settled by settle_pack; the others are Lemon's
    Charges,          \* the amounts deduct() is called with
    Bonus,            \* the amounts credit() is called with
    MaxCredited,      \* bound: total of the non-pack credits
    MaxOwed,          \* bound: debts no longer extended (owed only ever grows)
    MaxTime,          \* bound: the clock
    Expiries,         \* the expires_at values a granted pack may have
    ClockMovesInTxn   \* may the clock pass an expiry inside a transaction?

ASSUME LedgerAssumption ==
    /\ IsFiniteSet(Pack) /\ IsFiniteSet(Entry)
    /\ NoPack \notin Pack
    /\ NoEntry \notin Entry
    /\ Purchased \in [Pack -> Nat \ {0}]
    /\ Paid \in [Pack -> Nat \ {0}]
    /\ OrderTotal \in [Pack -> Nat]
    /\ Razorpay \subseteq Pack
    /\ \A p \in Razorpay : OrderTotal[p] = Paid[p]
    /\ Charges \subseteq Nat \ {0}
    /\ Bonus \subseteq Nat
    /\ MaxCredited \in Nat
    /\ MaxOwed \in Nat
    /\ MaxTime \in Nat
    /\ Expiries \subseteq Nat
    /\ ClockMovesInTxn \in BOOLEAN

VARIABLES
    now,       \* datetime.now()
    balance,   \* users.credit_balance
    credited,  \* sum of the non-pack credit() rows of the ledger
    pack,      \* billing_credit_packs
    debt,      \* billing_credit_debts, one per source pack (owed = 0: no row)
    recov,     \* recov[p][q]: unreturned part of what p's reversal took from q
    used,      \* used[e][p]: unreturned part of what deduction e took from p
    entry,     \* the deductions: state, amount and unallocated_credits
    tx,        \* the open transaction
    todo       \* its stack of _restore_pack_value / _return_reversal_recovery calls

vars == <<now, balance, credited, pack, debt, recov, used, entry, tx, todo>>
book == <<balance, credited, pack, debt, recov, used, entry>>

Least(a, b) == IF a <= b THEN a ELSE b
Greatest(a, b) == IF a >= b THEN a ELSE b

\* "never below zero": the balance after a subtraction.
Floored(b) == Greatest(0, b)

Counter == {"consumed", "debtRecovered"}

\* The value revoked directly from a pack ("directly_revoked", "gap").
Gap(p) == Purchased[p] - (pack[p].remaining + pack[p].consumed
                           + pack[p].expired + pack[p].debtRecovered)

\* The rest of credits_revoked: collected from other packs, or owed as debt.
Elsewhere(p) == pack[p].revoked - Gap(p)

Outstanding(p) == debt[p].owed - debt[p].recovered

Lapsed(p, t) == pack[p].status = "active" /\ pack[p].expires <= t

Idle == [op |-> "idle", pack |-> NoPack, entry |-> NoEntry, at |-> 0, left |-> 0,
         total |-> 0, cents |-> 0, usable |-> 0, full |-> FALSE,
         settle |-> FALSE, cash |-> 0, eff |-> 0]

NewPack(p, e) == [status |-> "active", remaining |-> Purchased[p], consumed |-> 0,
                  expired |-> 0, debtRecovered |-> 0, revoked |-> 0, expires |-> e,
                  seen |-> 0, processed |-> 0]

Init ==
    /\ now = 0
    /\ balance = 0
    /\ credited = 0
    /\ pack = [p \in Pack |-> [status |-> "none", remaining |-> 0, consumed |-> 0,
                               expired |-> 0, debtRecovered |-> 0,
                               revoked |-> 0, expires |-> 0, seen |-> 0,
                               processed |-> 0]]
    /\ debt = [p \in Pack |-> [owed |-> 0, recovered |-> 0, pending |-> FALSE,
                               since |-> 0]]
    /\ recov = [p \in Pack |-> [q \in Pack |-> 0]]
    /\ used = [e \in Entry |-> [p \in Pack |-> 0]]
    /\ entry = [e \in Entry |-> [state |-> "none", amount |-> 0, unallocated |-> 0]]
    /\ tx = Idle
    /\ todo = <<>>

Exists(p) == pack[p].status # "none"

-----------------------------------------------------------------------------
(* The clock, and the lock on the user row.                                *)

Tick ==
    /\ now < MaxTime
    /\ ClockMovesInTxn \/ tx.op = "idle"
    /\ now' = now + 1
    /\ UNCHANGED <<book, tx, todo>>

\* A transaction locks the user row and notes the time of its expiry sweep.
Begin(t) ==
    /\ tx.op = "idle"
    /\ tx' = [t EXCEPT !.at = now]
    /\ UNCHANGED <<now, book, todo>>

Commit == tx' = Idle

\* _expire_user_packs, one lapsed pack at a time: flooring the balance at zero
\* pack by pack and once for the total are the same.
Sweeping == tx.op \in {"balance", "deduct", "refund", "reverse", "settle"}

Expire(p) ==
    /\ Sweeping
    /\ Lapsed(p, tx.at)
    /\ pack' = [pack EXCEPT ![p].expired = @ + pack[p].remaining,
                            ![p].status = "expired",
                            ![p].remaining = 0]
    /\ balance' = Floored(balance - pack[p].remaining)
    /\ UNCHANGED <<now, credited, debt, recov, used, entry, tx, todo>>

Swept(op) == tx.op = op /\ \A p \in Pack : ~Lapsed(p, tx.at)

GetBalance == Begin([Idle EXCEPT !.op = "balance"])

BalanceRead ==
    /\ Swept("balance")
    /\ Commit
    /\ UNCHANGED <<now, book, todo>>

-----------------------------------------------------------------------------
(* credit(): a non-pack credit.                                            *)

Credit(amount) ==
    /\ tx.op = "idle"
    /\ credited + amount <= MaxCredited
    /\ balance' = balance + amount
    /\ credited' = credited + amount
    /\ UNCHANGED <<now, pack, debt, recov, used, entry, tx, todo>>

-----------------------------------------------------------------------------
(* grant_credits_with_debt_recovery: pending debts, oldest first, are paid *)
(* out of the new pack before the surplus reaches the balance.             *)

Grant(p, expires) ==
    /\ tx.op = "idle"
    /\ ~Exists(p)
    /\ pack' = [pack EXCEPT ![p] = NewPack(p, expires)]
    /\ tx' = [Idle EXCEPT !.op = "grant", !.pack = p, !.left = Purchased[p]]
    /\ UNCHANGED <<now, balance, credited, debt, recov, used, entry, todo>>

\* A pending debt with nothing outstanding is skipped.
Payable(s) == debt[s].pending /\ Outstanding(s) > 0

OldestPayable(s) ==
    /\ Payable(s)
    /\ \A r \in Pack : Payable(r) => debt[s].since <= debt[r].since

\* Mutant: the provenance row is not written.
M_Lend(s, q, take) == recov

\* The CreditPackAllocation row of a recovery: pack q pays for source s.
Lend(s, q, take) == [recov EXCEPT ![s][q] = @ + take]

RecoverDebt(s) ==
    /\ tx.op = "grant"
    /\ tx.left > 0
    /\ OldestPayable(s)
    /\ LET p == tx.pack
           take == Least(tx.left, Outstanding(s))
       IN /\ pack' = [pack EXCEPT ![p].remaining = @ - take,
                                  ![p].debtRecovered = @ + take]
          /\ debt' = [debt EXCEPT ![s].recovered = @ + take,
                                  ![s].pending = debt[s].recovered + take < debt[s].owed]
          /\ recov' = Lend(s, p, take)
          /\ tx' = [tx EXCEPT !.left = @ - take]
    /\ UNCHANGED <<now, balance, credited, used, entry, todo>>

\* Mutant: the whole grant reaches the balance, debt recovery notwithstanding.
M_GrantDone ==
    /\ tx.op = "grant"
    /\ tx.left = 0 \/ \A s \in Pack : ~Payable(s)
    /\ balance' = balance + Purchased[tx.pack]
    /\ Commit
    /\ UNCHANGED <<now, credited, pack, debt, recov, used, entry, todo>>

GrantDone ==
    /\ tx.op = "grant"
    /\ tx.left = 0 \/ \A s \in Pack : ~Payable(s)
    /\ balance' = balance + tx.left
    /\ Commit
    /\ UNCHANGED <<now, credited, pack, debt, recov, used, entry, todo>>

-----------------------------------------------------------------------------
(* deduct() and its FIFO drain, _drain_packs.                              *)

Deduct(e, amount) ==
    /\ entry[e].state = "none"
    /\ Begin([Idle EXCEPT !.op = "deduct", !.entry = e, !.left = amount,
                          !.total = amount])

\* InsufficientCreditsError.  The caller's rollback would also undo the sweep,
\* which is the behaviour in which this transaction never began.
DeductRefused ==
    /\ Swept("deduct")
    /\ balance < tx.total
    /\ Commit
    /\ UNCHANGED <<now, book, todo>>

DeductCharge ==
    /\ Swept("deduct")
    /\ balance >= tx.total
    /\ balance' = balance - tx.total
    /\ tx' = [tx EXCEPT !.op = "drain"]
    /\ UNCHANGED <<now, credited, pack, debt, recov, used, entry, todo>>

SoonestActive(p) ==
    /\ pack[p].status = "active"
    /\ \A q \in Pack : pack[q].status = "active" => pack[p].expires <= pack[q].expires

DrainPack(p) ==
    /\ tx.op = "drain"
    /\ tx.left > 0
    /\ SoonestActive(p)
    /\ LET drain == Least(pack[p].remaining, tx.left)
       IN /\ pack' = [pack EXCEPT ![p].remaining = @ - drain,
                                  ![p].consumed = @ + drain,
                                  ![p].status = IF pack[p].remaining = drain
                                                THEN "consumed" ELSE @]
          /\ used' = [used EXCEPT ![tx.entry][p] = @ + drain]
          /\ tx' = [tx EXCEPT !.left = @ - drain]
    /\ UNCHANGED <<now, balance, credited, debt, recov, entry, todo>>

DeductDone ==
    /\ tx.op = "drain"
    /\ tx.left = 0 \/ \A p \in Pack : pack[p].status # "active"
    /\ entry' = [entry EXCEPT ![tx.entry] = [state |-> "charged", amount |-> tx.total,
                                             unallocated |-> tx.left]]
    /\ Commit
    /\ UNCHANGED <<now, balance, credited, pack, debt, recov, used, todo>>

-----------------------------------------------------------------------------
(* The mutual recursion of _restore_pack_value ("restore" frames) and      *)
(* _return_reversal_recovery ("return", then "collect" frames once its     *)
(* recovery rows are read).  The code orders rows by random UUIDs: any     *)
(* order here.  In a state of RestoreRaises or ReturnRaises the code       *)
(* raises ValueError and rolls back; NeverRaises shows there is none, so   *)
(* the transaction has no step there.                                      *)

RestoreFrame(p, amount, counter) ==
    [call |-> "restore", pack |-> p, amount |-> amount, counter |-> counter, rows |-> {}]
ReturnFrame(p, amount) ==
    [call |-> "return", pack |-> p, amount |-> amount, counter |-> "consumed", rows |-> {}]

Calling(c) == todo # <<>> /\ Head(todo).call = c

\* The pack row after amount is taken back out of the counter: the part a
\* reversal already claimed is absorbed, the normal part is usable or lapses.
RestoredRow(r, counter, amount, normal, t) ==
    LET s == [r EXCEPT !.consumed = IF counter = "consumed" THEN @ - amount ELSE @,
                       !.debtRecovered = IF counter = "consumed" THEN @ ELSE @ - amount]
    IN  IF r.expires <= t
        THEN [s EXCEPT !.expired = @ + normal,
                       !.status = IF @ \in {"refunded", "disputed"} THEN @ ELSE "expired"]
        ELSE [s EXCEPT !.remaining = @ + normal,
                       !.status = IF normal > 0 THEN "active" ELSE @]

CounterOf(r, counter) == IF counter = "consumed" THEN r.consumed ELSE r.debtRecovered

\* Mutant: a restored deduction ignores the pack's reversal.
M_Absorbed(p, amount) == 0

Absorbed(p, amount) == Least(amount, Greatest(0, Elsewhere(p)))

RestorePackValue ==
    /\ Calling("restore")
    /\ LET f == Head(todo)
           p == f.pack
           absorbed == Absorbed(p, f.amount)
           normal == f.amount - absorbed
       IN /\ CounterOf(pack[p], f.counter) >= f.amount
          /\ pack' = [pack EXCEPT ![p] =
                        RestoredRow(pack[p], f.counter, f.amount, normal, now)]
          /\ tx' = [tx EXCEPT !.usable = @ + IF pack[p].expires <= now THEN 0 ELSE normal]
          /\ todo' = IF absorbed > 0 THEN <<ReturnFrame(p, absorbed)>> \o Tail(todo)
                                     ELSE Tail(todo)
    /\ UNCHANGED <<now, balance, credited, debt, recov, used, entry>>

\* "Credit allocation exceeds source accounting".
RestoreRaises ==
    /\ Calling("restore")
    /\ CounterOf(pack[Head(todo).pack], Head(todo).counter) < Head(todo).amount

\* Cancel outstanding debt first, then read the unreturned recovery rows.
ReturnDebt ==
    /\ Calling("return")
    /\ LET f == Head(todo)
           take == Least(f.amount, Outstanding(f.pack))
       IN /\ debt' = [debt EXCEPT ![f.pack].recovered = @ + take,
                                  ![f.pack].pending =
                                      @ /\ debt[f.pack].recovered + take # debt[f.pack].owed]
          /\ todo' = <<[f EXCEPT !.call = "collect", !.amount = @ - take,
                                 !.rows = {q \in Pack : recov[f.pack][q] > 0}]>>
                     \o Tail(todo)
    /\ UNCHANGED <<now, balance, credited, pack, recov, used, entry, tx>>

ReturnRecovery(q) ==
    /\ Calling("collect")
    /\ LET f == Head(todo)
           take == Least(f.amount, recov[f.pack][q])
       IN /\ q \in f.rows
          /\ take > 0
          /\ recov' = [recov EXCEPT ![f.pack][q] = @ - take]
          /\ todo' = <<RestoreFrame(q, take, "debtRecovered"),
                       [f EXCEPT !.amount = @ - take, !.rows = @ \ {q}]>> \o Tail(todo)
    /\ UNCHANGED <<now, balance, credited, pack, debt, used, entry, tx>>

ReturnDone ==
    /\ Calling("collect")
    /\ Head(todo).amount = 0
    /\ todo' = Tail(todo)
    /\ UNCHANGED <<now, book, tx>>

\* "Payment reversal needs legacy recovery allocation repair": the rows are
\* exhausted, or one of them no longer has anything to return.
ReturnRaises ==
    /\ Calling("collect")
    /\ Head(todo).amount > 0
    /\ Head(todo).rows = {} \/ \E q \in Head(todo).rows : recov[Head(todo).pack][q] = 0

-----------------------------------------------------------------------------
(* refund() of a deduction, with _restore_deduction.                       *)

Refund(e) ==
    /\ entry[e].state = "charged"
    /\ Begin([Idle EXCEPT !.op = "refund", !.entry = e])

RefundStart ==
    /\ Swept("refund")
    /\ entry' = [entry EXCEPT ![tx.entry].state = "refunded"]
    /\ tx' = [tx EXCEPT !.op = "restore", !.usable = entry[tx.entry].unallocated]
    /\ UNCHANGED <<now, balance, credited, pack, debt, recov, used, todo>>

RestoreAllocation(p) ==
    /\ tx.op = "restore"
    /\ todo = <<>>
    /\ used[tx.entry][p] > 0
    /\ used' = [used EXCEPT ![tx.entry][p] = 0]
    /\ todo' = <<RestoreFrame(p, used[tx.entry][p], "consumed")>>
    /\ UNCHANGED <<now, balance, credited, pack, debt, recov, entry, tx>>

RefundDone ==
    /\ tx.op = "restore"
    /\ todo = <<>>
    /\ \A p \in Pack : used[tx.entry][p] = 0
    /\ balance' = balance + tx.usable
    /\ Commit
    /\ UNCHANGED <<now, credited, pack, debt, recov, used, entry, todo>>

-----------------------------------------------------------------------------
(* apply_refund_reversal, called for a Lemon refund or by settle_pack.     *)

Reverse(p, cents, full) ==
    /\ Exists(p)
    /\ debt[p].owed <= MaxOwed
    /\ Begin([Idle EXCEPT !.op = "reverse", !.pack = p, !.cents = cents, !.full = full])

ProviderTotal(p) == Greatest(OrderTotal[p], Paid[p])

\* The refund level in item cents, tax normalised.
NewItem(p, cents, full) ==
    IF full \/ cents >= ProviderTotal(p)
    THEN Paid[p]
    ELSE (Paid[p] * cents) \div ProviderTotal(p)

\* The credits a refund level claims; expired value is never reclaimed.
\* Mutant: expired value is reclaimed too.
M_TargetRevoked(p, item) ==
    IF item = Paid[p] THEN Purchased[p] ELSE (Purchased[p] * item) \div Paid[p]

TargetRevoked(p, item) ==
    IF item = Paid[p] THEN Purchased[p] - pack[p].expired
    ELSE ((Purchased[p] - pack[p].expired) * item) \div Paid[p]

Refunded == Least(Greatest(tx.cents, 0), ProviderTotal(tx.pack))
Item == NewItem(tx.pack, Refunded, tx.full)

\* Where a reversal or a release returns to: settle_pack, or the caller.
ReturnToCaller == tx' = IF tx.settle THEN [tx EXCEPT !.op = "close"] ELSE Idle

\* A replay of the same or a lower level only advances the seen total.
ReverseReplay ==
    /\ Swept("reverse")
    /\ Item <= pack[tx.pack].processed
    /\ pack' = [pack EXCEPT ![tx.pack].seen = Greatest(@, Refunded)]
    /\ ReturnToCaller
    /\ UNCHANGED <<now, balance, credited, debt, recov, used, entry, todo>>

ReverseNothing ==
    /\ Swept("reverse")
    /\ Item > pack[tx.pack].processed
    /\ TargetRevoked(tx.pack, Item) <= pack[tx.pack].revoked
    /\ pack' = [pack EXCEPT ![tx.pack].seen = Greatest(@, Refunded),
                            ![tx.pack].processed = Item]
    /\ ReturnToCaller
    /\ UNCHANGED <<now, balance, credited, debt, recov, used, entry, todo>>

\* Drain what is left of the source pack first.
ReverseSource ==
    /\ Swept("reverse")
    /\ Item > pack[tx.pack].processed
    /\ TargetRevoked(tx.pack, Item) > pack[tx.pack].revoked
    /\ LET p == tx.pack
           toRevoke == TargetRevoked(p, Item) - pack[p].revoked
           take == Least(pack[p].remaining, toRevoke)
       IN /\ pack' = [pack EXCEPT ![p].remaining = @ - take]
          /\ tx' = [tx EXCEPT !.op = "revoke", !.total = toRevoke, !.left = toRevoke - take]
    /\ UNCHANGED <<now, balance, credited, debt, recov, used, entry, todo>>

CanDonate(q) ==
    q # tx.pack /\ pack[q].status = "active" /\ pack[q].remaining > 0

\* Then the other active packs, soonest expiring first.
ReverseDonor(q) ==
    /\ tx.op = "revoke"
    /\ tx.left > 0
    /\ CanDonate(q)
    /\ \A r \in Pack : CanDonate(r) => pack[q].expires <= pack[r].expires
    /\ LET take == Least(pack[q].remaining, tx.left)
       IN /\ pack' = [pack EXCEPT ![q].remaining = @ - take,
                                  ![q].debtRecovered = @ + take,
                                  ![q].status = IF pack[q].remaining = take
                                                THEN "consumed" ELSE @]
          /\ recov' = Lend(tx.pack, q, take)
          /\ tx' = [tx EXCEPT !.left = @ - take]
    /\ UNCHANGED <<now, balance, credited, debt, used, entry, todo>>

\* _upsert_refund_debt: one debt per source pack, extended by later reversals.
\* Mutant: an existing debt is reopened but not extended.
M_UpsertDebt(d, amount) ==
    [owed |-> IF d.owed = 0 THEN amount ELSE d.owed, recovered |-> d.recovered,
     pending |-> d.recovered < d.owed + amount,
     since |-> IF d.owed = 0 THEN now ELSE d.since]

UpsertDebt(d, amount) ==
    [owed |-> d.owed + amount, recovered |-> d.recovered, pending |-> TRUE,
     since |-> IF d.owed = 0 THEN now ELSE d.since]

\* The rest becomes debt; then the counters, the balance and the status.
ReverseDone ==
    /\ tx.op = "revoke"
    /\ tx.left = 0 \/ \A q \in Pack : ~CanDonate(q)
    /\ LET p == tx.pack
       IN /\ debt' = IF tx.left > 0 THEN [debt EXCEPT ![p] = UpsertDebt(@, tx.left)]
                                    ELSE debt
          /\ pack' = [pack EXCEPT ![p].revoked = @ + tx.total,
                                  ![p].seen = Greatest(@, Refunded),
                                  ![p].processed = Item,
                                  ![p].status =
                                     IF Item = Paid[p] THEN "refunded"
                                     ELSE IF @ = "expired" THEN @
                                     ELSE IF pack[p].remaining > 0 THEN "active"
                                     ELSE "consumed"]
    /\ balance' = Floored(balance - (tx.total - tx.left))
    /\ ReturnToCaller
    /\ UNCHANGED <<now, credited, recov, used, entry, todo>>

-----------------------------------------------------------------------------
(* settle_pack: cash refunds and lost disputes of a Razorpay payment.      *)

Settle(p, cents, lost) ==
    /\ Exists(p)
    /\ debt[p].owed <= MaxOwed
    /\ Begin([Idle EXCEPT !.op = "settle", !.pack = p, !.cents = cents, !.total = lost,
                          !.settle = TRUE])

Cash == Least(Paid[tx.pack], Greatest(pack[tx.pack].seen, tx.cents))
Effective == Least(Paid[tx.pack], Greatest(Cash, tx.total))

\* More is lost than was settled: reverse up to the new level (a new sweep).
SettleMore ==
    /\ Swept("settle")
    /\ Effective > pack[tx.pack].processed
    /\ tx' = [tx EXCEPT !.op = "reverse", !.at = now, !.cents = Effective,
                        !.full = Effective = Paid[tx.pack], !.cash = Cash,
                        !.eff = Effective]
    /\ UNCHANGED <<now, book, todo>>

SettleSame ==
    /\ Swept("settle")
    /\ Effective = pack[tx.pack].processed
    /\ tx' = [tx EXCEPT !.op = "close", !.cash = Cash, !.eff = Effective]
    /\ UNCHANGED <<now, book, todo>>

\* A dispute was won: release_reversal down to the new level.
ReleaseAmount ==
    Greatest(0, pack[tx.pack].revoked
                - ((Purchased[tx.pack] - pack[tx.pack].expired) * Effective) \div Paid[tx.pack])

ReleasedElsewhere(p) == Least(ReleaseAmount, Greatest(0, Elsewhere(p)))

SettleLess ==
    /\ Swept("settle")
    /\ Effective < pack[tx.pack].processed
    /\ LET p == tx.pack
           elsewhere == ReleasedElsewhere(p)
       IN /\ tx' = [tx EXCEPT !.op = "release", !.cash = Cash, !.eff = Effective,
                              !.total = ReleaseAmount, !.left = ReleaseAmount - elsewhere]
          /\ todo' = IF elsewhere > 0 THEN <<ReturnFrame(p, elsewhere)>> ELSE <<>>
    /\ UNCHANGED <<now, book>>

\* release_reversal after its donors are repaid: tx.left is the direct part.
\* Mutant: the direct part becomes usable although the pack has lapsed.
M_ReleaseDirect ==
    /\ tx.op = "release"
    /\ todo = <<>>
    /\ LET p == tx.pack
           r == [pack[p] EXCEPT !.revoked = @ - tx.total, !.processed = tx.eff]
       IN /\ pack' = [pack EXCEPT ![p] = [r EXCEPT !.remaining = @ + tx.left]]
          /\ balance' = balance + tx.usable + tx.left
    /\ tx' = [tx EXCEPT !.op = "close"]
    /\ UNCHANGED <<now, credited, debt, recov, used, entry, todo>>

ReleaseDirect ==
    /\ tx.op = "release"
    /\ todo = <<>>
    /\ LET p == tx.pack
           lapsed == pack[p].expires <= now
           r == [pack[p] EXCEPT !.revoked = @ - tx.total, !.processed = tx.eff]
       IN /\ pack' = [pack EXCEPT ![p] =
                IF tx.total = 0 THEN r
                ELSE IF lapsed
                THEN [r EXCEPT !.expired = @ + tx.left, !.status = "expired"]
                ELSE [r EXCEPT !.remaining = @ + tx.left,
                               !.status = IF r.remaining + tx.left > 0 THEN "active"
                                                                       ELSE "consumed"]]
          /\ balance' = balance + tx.usable + IF lapsed THEN 0 ELSE tx.left
    /\ tx' = [tx EXCEPT !.op = "close"]
    /\ UNCHANGED <<now, credited, debt, recov, used, entry, todo>>

\* The cash level and the status, whichever branch was taken.
SettleClose ==
    /\ tx.op = "close"
    /\ LET p == tx.pack
       IN pack' = [pack EXCEPT ![p].seen = tx.cash,
                               ![p].status =
                    IF tx.eff = Paid[p]
                    THEN IF tx.cash < Paid[p] THEN "disputed" ELSE "refunded"
                    ELSE IF pack[p].expires <= now THEN "expired"
                    ELSE IF pack[p].remaining > 0 THEN "active" ELSE "consumed"]
    /\ Commit
    /\ UNCHANGED <<now, balance, credited, debt, recov, used, entry, todo>>

-----------------------------------------------------------------------------

Operation ==
    \/ GetBalance
    \/ \E b \in Bonus : Credit(b)
    \/ \E p \in Pack, t \in Expiries : Grant(p, t)
    \/ \E e \in Entry, c \in Charges : Deduct(e, c)
    \/ \E e \in Entry : Refund(e)
    \/ \E p \in Pack \ Razorpay, full \in BOOLEAN :
         \E cents \in 0 .. OrderTotal[p] : Reverse(p, cents, full)
    \/ \E p \in Razorpay : \E cents, lost \in 0 .. Paid[p] : Settle(p, cents, lost)

TxStep ==
    \/ \E p \in Pack : Expire(p)
    \/ BalanceRead
    \/ \E s \in Pack : RecoverDebt(s)
    \/ GrantDone
    \/ DeductRefused
    \/ DeductCharge
    \/ \E p \in Pack : DrainPack(p)
    \/ DeductDone
    \/ RestorePackValue
    \/ ReturnDebt
    \/ \E q \in Pack : ReturnRecovery(q)
    \/ ReturnDone
    \/ RefundStart
    \/ \E p \in Pack : RestoreAllocation(p)
    \/ RefundDone
    \/ ReverseReplay
    \/ ReverseNothing
    \/ ReverseSource
    \/ \E q \in Pack : ReverseDonor(q)
    \/ ReverseDone
    \/ SettleMore
    \/ SettleSame
    \/ SettleLess
    \/ ReleaseDirect
    \/ SettleClose

Next == Operation \/ TxStep \/ Tick

Spec == Init /\ [][Next]_vars

\* The database connection keeps executing an open transaction.
FairSpec == Spec /\ WF_vars(TxStep)
-----------------------------------------------------------------------------
(* Properties.                                                             *)

TxOp == {"idle", "balance", "grant", "deduct", "drain", "refund", "restore", "reverse",
         "revoke", "settle", "release", "close"}

TxRecord == [op : TxOp,
             pack : Pack \cup {NoPack}, entry : Entry \cup {NoEntry}, at : Nat,
             left : Nat, total : Nat, cents : Nat, usable : Nat, full : BOOLEAN,
             settle : BOOLEAN, cash : Nat, eff : Nat]

Frame == [call : {"restore", "return", "collect"}, pack : Pack, amount : Nat,
          counter : Counter, rows : SUBSET Pack]

PackStatus == {"none", "active", "consumed", "expired", "refunded", "disputed"}

PackRow == [status : PackStatus, remaining : Nat, consumed : Nat, expired : Nat,
            debtRecovered : Nat, revoked : Nat, expires : Nat, seen : Nat, processed : Nat]

DebtRow == [owed : Nat, recovered : Nat, pending : BOOLEAN, since : Nat]

\* Every counter of every row is a natural number in every flushed state: the
\* "nonneg" CHECK constraints of billing_credit_packs, _debts and _allocations.
TypeOK ==
    /\ now \in Nat /\ balance \in Nat /\ credited \in Nat
    /\ pack \in [Pack -> PackRow]
    /\ debt \in [Pack -> DebtRow]
    /\ recov \in [Pack -> [Pack -> Nat]]
    /\ used \in [Entry -> [Pack -> Nat]]
    /\ entry \in [Entry -> [state : {"none", "charged", "refunded"}, amount : Nat,
                             unallocated : Nat]]
    /\ tx \in TxRecord
    /\ todo \in Seq(Frame)

\* The relational CHECK constraints of billing_credit_packs and _debts hold in
\* every flushed state (a violation would abort a refund or a dispute forever):
\* remaining + consumed + expired + debt_recovered <= purchased, revoked <=
\* purchased, processed <= paid, seen <= order total, recovered <= owed.
ChecksHold ==
    \A p \in Pack :
        /\ Exists(p) =>
             /\ Gap(p) >= 0
             /\ pack[p].revoked <= Purchased[p]
             /\ pack[p].processed <= Paid[p]
             /\ pack[p].seen <= OrderTotal[p]
        /\ debt[p].recovered <= debt[p].owed

\* Neither ValueError of the restore recursion is reachable: an allocation never
\* exceeds its pack's counter, and what a reversal collected elsewhere can always
\* be returned from debt and recovery rows (no "legacy recovery allocation repair").
NeverRaises == ~RestoreRaises /\ ~ReturnRaises

\* While a reversal is being collected its total is not yet in credits_revoked.
Collecting(p) == IF tx.op = "revoke" /\ tx.pack = p THEN tx.total ELSE 0

\* A reversal never claims lapsed value, and never more than the pack still
\* accounts for (apply_refund_reversal: "Expired value is never reclaimed").
ExpiredNeverReclaimed ==
    \A p \in Pack : Exists(p) =>
        pack[p].revoked + Collecting(p) <= Purchased[p] - pack[p].expired

\* A pack that still has unspent credits has no part of its reversal collected from
\* other packs or owed as debt: the user is never charged elsewhere for value that
\* could have been taken from the source pack.
SourcePaysFirst ==
    \A p \in Pack : Exists(p) /\ pack[p].remaining > 0 => Elsewhere(p) + Collecting(p) <= 0

\* In committed states the part of a pack's reversal that was not taken from the
\* pack itself is exactly its open debt plus what other packs still lend it.
Provenance ==
    tx.op = "idle" =>
        \A p \in Pack : Exists(p) => Elsewhere(p) = Outstanding(p) + SumFunction(recov[p])

\* In committed states every consumed credit belongs to one unrefunded deduction
\* and every debt_recovered credit to one unreturned recovery row.
CountersBacked ==
    tx.op = "idle" =>
        \A p \in Pack :
            /\ pack[p].consumed = SumFunction([e \in Entry |-> used[e][p]])
            /\ pack[p].debtRecovered = SumFunction([s \in Pack |-> recov[s][p]])

Charged == {e \in Entry : entry[e].state = "charged"}

\* A deduction's allocation rows and unallocated credits add up to its amount
\* (otherwise refund() raises "Incomplete credit allocation history").
DeductionAllocated ==
    tx.op = "idle" =>
        \A e \in Charged : entry[e].unallocated + SumFunction(used[e]) = entry[e].amount

\* In committed states the balance is exactly what non-pack credits and active packs
\* still back, so the max(0, ...) floors never hide a lost or an invented credit.
BalanceBacked ==
    tx.op = "idle" =>
        balance = credited
                  - SumFunction([e \in Charged |-> entry[e].unallocated])
                  + SumFunction([p \in {q \in Pack : pack[q].status = "active"} |->
                                   pack[p].remaining])

\* The user's position as the business sees it, in committed states: what was
\* bought or given, and neither lapsed nor reversed, is what the user holds plus
\* what was spent on runs that were not refunded, minus what is still owed.
EntitlementSettled ==
    tx.op = "idle" =>
        credited + SumFunction([p \in {q \in Pack : Exists(q)} |->
                                  Purchased[p] - pack[p].expired - pack[p].revoked])
        = balance + SumFunction([e \in Charged |-> entry[e].amount])
                  - SumFunction([p \in Pack |-> Outstanding(p)])

\* A fully reversed pack holds nothing and all its value that did not lapse is
\* revoked, whatever is refunded, expired or released around it afterwards.
FullReversalKeepsNothing ==
    tx.op = "idle" =>
        \A p \in Pack : pack[p].status \in {"refunded", "disputed"} =>
            /\ pack[p].remaining = 0
            /\ pack[p].revoked = Purchased[p] - pack[p].expired

\* Lapsed value is never resurrected: no refund of a deduction, no released dispute
\* and no returned recovery puts usable credits back into a pack past its expiry.
LapsedNeverUsable ==
    [][\A p \in Pack : Exists(p) /\ pack[p].expires <= now =>
          pack'[p].remaining <= pack[p].remaining]_vars

\* Every transaction ends: the drains, and the recursion between restored packs and
\* the packs that lent to their reversals, terminate.
TransactionsEnd == tx.op # "idle" ~> tx.op = "idle"
=============================================================================
