--------------------------- MODULE RazorpayProofs ---------------------------
(***************************************************************************)
(* Proofs about RazorpayBilling, for any webhooks, refund levels, disputes,*)
(* tries, faults and ages: its types, that a refund acknowledged before    *)
(* its grant is not forgotten, and that every step of the inbox, the       *)
(* handlers, the reconcile lanes and the administrator is a step of the    *)
(* abstract settlement of one payment, or changes nothing of it.           *)
(***************************************************************************)
EXTENDS RazorpayBilling, BillingInboxProofs

-----------------------------------------------------------------------------
(* Settlement.                                                             *)

\* settle_pack: the cash rises to the level, up to the price.
LEMMA SettleRaises ==
    ASSUME RazorpayAssumption,
           NEW p \in [grants : 0..2, vouched : BOOLEAN, cash : Levels, effective : Levels],
           NEW level \in Levels, NEW d
    PROVE  /\ Settle(p, level, d) \in
                  [grants : 0..2, vouched : BOOLEAN, cash : Levels, effective : Levels]
           /\ Settle(p, level, d).grants = p.grants
           /\ Settle(p, level, d).vouched = p.vouched
           /\ Settle(p, level, d).cash = IF p.cash >= level THEN p.cash ELSE level
<1> DEFINE m == Max({p.cash, level})
           cash == Min({Price, m})
           loss == Max({cash, Loss(d)})
           effective == Min({Price, loss})
<1>1. p.cash \in Nat /\ level \in Nat /\ Price \in Nat /\ p.cash <= Price /\ level <= Price
  BY DEF RazorpayAssumption, Levels
<1>2. m = IF p.cash >= level THEN p.cash ELSE level
  BY <1>1, MaxOfTwo
<1> HIDE DEF m
<1>3. cash = m
  BY <1>1, <1>2, MinOfTwo
<1>4. cash \in Nat /\ cash <= Price
  BY <1>1, <1>2, <1>3
<1> HIDE DEF cash
<1>5. Loss(d) \in Nat
  BY DEF Loss, RazorpayAssumption
<1>6. loss \in Nat
  BY <1>4, <1>5, MaxOfTwo
<1> HIDE DEF loss
<1>7. effective \in Nat /\ effective <= Price
  BY <1>1, <1>6, MinOfTwo
<1>8. Settle(p, level, d) = [p EXCEPT !.cash = cash, !.effective = effective]
  BY DEF Settle, cash, effective, m, loss
<1> HIDE DEF effective
<1>9. cash \in Levels /\ effective \in Levels
  BY <1>1, <1>4, <1>7 DEF Levels
<1> QED
  BY <1>2, <1>3, <1>8, <1>9

\* A handler commits.
LEMMA FinishTyped ==
    ASSUME InboxAssumption, InboxTypeOK, NEW x \in Executor, NEW e \in Event,
           Stored(e), Finish(x, e)
    PROVE  InboxTypeOK' /\ SameRows
<1> DEFINE r == Processed(row[e])
<1>1. row[e] \in Row /\ now \in 0..MaxTime /\ "processed" \in Status
  BY DEF InboxTypeOK, Status
<1>2. r \in Row /\ r.status = "processed"
  BY <1>1, RowShapes
<1>3. row' = [row EXCEPT ![e] = r]
  BY DEF Finish, InboxTypeOK
<1> HIDE DEF r
<1>4. /\ row' \in [Event -> Row] /\ row'[e] = r
      /\ \A f \in Event : f # e => row'[f] = row[f]
  BY <1>2, <1>3, RowWritten
<1>5. SameRows
  BY <1>2, <1>4 DEF SameRows, Stored
<1>6. exec' \in [Executor -> [Event -> Phase]]
  BY LeaveTyped DEF Finish
<1> QED
  BY <1>4, <1>5, <1>6 DEF Finish, InboxTypeOK

-----------------------------------------------------------------------------
(* The money: what is known of the payment, and what a step may do.        *)

Pack == [grants : 0..2, vouched : BOOLEAN, cash : Levels, effective : Levels]

Attempt == [status : AttemptStatus, link : BOOLEAN, at : 0..MaxTime]

Dispute == [state : DisputeState, at : Nat]

Provider == [paid : BOOLEAN, at : 0..MaxTime, refunded : Levels, dispute : Dispute]

Recon == [lane : Lane, seen : Levels]

\* Everything that is stored or announced was true of the payment, and still is.
Known(e) == provider.paid /\ e.level <= provider.refunded

Truthful ==
    /\ \A e \in sent : Known(e)
    /\ \A e \in Event : Stored(e) => Known(e)
    /\ recon.seen <= provider.refunded

\* A pack stands on a captured payment, and its cash on what was refunded.
PackBacked ==
    /\ GrantedOnce
    /\ Granted => provider.paid
    /\ ~ pack.vouched
    /\ ~ Granted => pack.cash = 0
    /\ pack.cash <= provider.refunded
    /\ recon.lane = "apply" => Granted

\* What was heard is settled, or waits in a row that is kept.
RefundKept == RefundRemembered /\ (~ Granted => heard <= KnownRefund)

Inv == Truthful /\ PackBacked /\ RefundKept

\* Levels and times of an event; the times are the provider's.
LEMMA EventShape ==
    ASSUME RazorpayAssumption, NEW e \in Event
    PROVE  e.level \in Levels /\ e.state \in DisputeState /\ e.at \in Nat
BY DEF RazorpayAssumption, Levels, DisputeState, Terminal

LEMMA LevelsAreNumbers ==
    ASSUME RazorpayAssumption
    PROVE  Price \in Nat /\ 0 \in Levels /\ \A l \in Levels : l \in Nat /\ l <= Price
BY DEF RazorpayAssumption, Levels

\* The types, with their names.
LEMMA Parts ==
    TypeOK <=> /\ InboxTypeOK /\ attempt \in Attempt /\ pack \in Pack /\ dispute \in Dispute
               /\ provider \in Provider /\ sent \subseteq Event /\ recon \in Recon
               /\ heard \in Levels
BY DEF TypeOK, Attempt, Pack, Dispute, Provider, Recon

LEMMA PartsAfter ==
    ASSUME InboxTypeOK', attempt' \in Attempt, pack' \in Pack, dispute' \in Dispute,
           provider' \in Provider, sent' \subseteq Event, recon' \in Recon, heard' \in Levels
    PROVE  TypeOK'
BY DEF TypeOK, Attempt, Pack, Dispute, Provider, Recon

\* The greatest refund in the inbox.
LEMMA KnownRefundIsGreatest ==
    ASSUME RazorpayAssumption
    PROVE  /\ KnownRefund \in Levels
           /\ \A e \in Event : e.kind = "refund" /\ Stored(e) => e.level <= KnownRefund
           /\ \/ KnownRefund = 0
              \/ \E e \in Event : e.kind = "refund" /\ Stored(e) /\ KnownRefund = e.level
<1> DEFINE refunds == {f \in Event : f.kind = "refund" /\ row[f].status # "absent"}
           S == {0} \cup {e.level : e \in refunds}
<1>1. S \in SUBSET Levels /\ S # {} /\ Price \in Nat
  BY EventShape, LevelsAreNumbers
<1>2. KnownRefund = Max(S)
  BY DEF KnownRefund
<1>3. Max(S) \in S /\ \A k \in S : Max(S) >= k
  <2> HIDE DEF S
  <2> QED
    BY <1>1, MaxIsMax DEF Levels
<1>4. \A k \in S : k <= Max(S)
  BY <1>1, <1>3, LevelsAreNumbers
<1>5. \A e \in Event : e.kind = "refund" /\ Stored(e) => e.level \in S
  BY DEF Stored
<1>6. \A k \in S : k = 0 \/ \E e \in Event : e.kind = "refund" /\ Stored(e) /\ k = e.level
  BY DEF Stored
<1> HIDE DEF S
<1> QED
  BY <1>1, <1>2, <1>3, <1>4, <1>5, <1>6

\* Rows that are added raise it, and it stays while refund rows are neither added nor purged.
LEMMA KnownRefundRises ==
    ASSUME RazorpayAssumption, \A e \in Event : e.kind = "refund" /\ Stored(e) => Stored(e)'
    PROVE  KnownRefund <= KnownRefund'
<1> DEFINE refunds == {f \in Event : f.kind = "refund" /\ row'[f].status # "absent"}
           S == {0} \cup {e.level : e \in refunds}
<1>1. S \in SUBSET Levels /\ S # {} /\ Price \in Nat
  BY EventShape, LevelsAreNumbers
<1>2. KnownRefund' = Max(S)
  BY DEF KnownRefund
<1>3. Max(S) \in S /\ \A k \in S : Max(S) >= k
  <2> HIDE DEF S
  <2> QED
    BY <1>1, MaxIsMax DEF Levels
<1>4. KnownRefund \in S
  BY KnownRefundIsGreatest DEF Stored
<1> HIDE DEF S
<1> QED
  BY <1>1, <1>2, <1>3, <1>4, LevelsAreNumbers

\* The pack of a grant: settled for the level and for every refund in the inbox.
LEMMA GrantRaises ==
    ASSUME RazorpayAssumption, TypeOK, GrantedOnce, NEW level \in Levels
    PROVE  /\ GrantAndSettle(level) \in Pack
           /\ GrantAndSettle(level).grants = 1
           /\ GrantAndSettle(level).vouched = pack.vouched
           /\ GrantAndSettle(level).cash >= pack.cash
           /\ GrantAndSettle(level).cash >= level
           /\ GrantAndSettle(level).cash >= KnownRefund
           /\ GrantAndSettle(level).cash \in {pack.cash, level, KnownRefund}
<1> DEFINE p == [pack EXCEPT !.grants = IF Granted THEN @ ELSE 1]
           l == Max({level, KnownRefund})
<1>1. pack \in Pack /\ pack.grants \in 0..1
  BY Parts DEF GrantedOnce, Pack
<1>2. p \in Pack /\ p.grants = 1 /\ p.cash = pack.cash /\ p.vouched = pack.vouched
  BY <1>1 DEF Pack, Granted
<1>3. KnownRefund \in Levels /\ KnownRefund \in Nat /\ level \in Nat
      /\ pack.cash \in Nat
  BY <1>1, KnownRefundIsGreatest, LevelsAreNumbers DEF Pack
<1>4. l = IF level >= KnownRefund THEN level ELSE KnownRefund
  BY <1>3, MaxOfTwo
<1>5. l \in Levels /\ l \in Nat
  BY <1>3, <1>4
<1>6. GrantAndSettle(level) = Settle(p, l, dispute)
  BY DEF GrantAndSettle
<1> HIDE DEF p, l
<1>7. /\ Settle(p, l, dispute) \in Pack
      /\ Settle(p, l, dispute).grants = p.grants
      /\ Settle(p, l, dispute).vouched = p.vouched
      /\ Settle(p, l, dispute).cash = IF p.cash >= l THEN p.cash ELSE l
  BY <1>2, <1>5, SettleRaises DEF Pack
<1> QED
  BY <1>2, <1>3, <1>4, <1>5, <1>6, <1>7

-----------------------------------------------------------------------------
(* Five kinds of step.                                                     *)

\* The inbox, the attempt and the lanes move; nothing of the money does.
Quiet ==
    /\ UNCHANGED <<pack, provider, sent, heard>>
    /\ \A e \in Event : Stored(e)' => Stored(e) \/ Known(e)
    /\ ~ Granted => \A e \in Event : e.kind = "refund" /\ Stored(e) => Stored(e)'
    /\ recon'.seen \in {recon.seen, 0, provider.refunded}
    /\ recon'.lane = "apply" => Granted

\* The provider takes the payment, refunds more of it or decides a dispute, and says so.
Moves ==
    /\ UNCHANGED <<row, pack, recon, heard>>
    /\ provider'.paid /\ provider'.refunded >= provider.refunded
    /\ ~ provider.paid => provider'.refunded = provider.refunded
    /\ \A e \in sent' : e \in sent \/ e.level <= provider'.refunded

\* The cash of a pack rises to a level that was refunded.
Raises(level) ==
    /\ Granted /\ level \in Levels /\ level <= provider.refunded
    /\ pack'.grants = pack.grants /\ pack'.vouched = pack.vouched
    /\ pack'.cash = IF pack.cash >= level THEN pack.cash ELSE level
    /\ UNCHANGED <<provider, sent>> /\ SameRows
    /\ heard' \in {heard, level}
    /\ recon'.seen \in {recon.seen, 0}

\* The pack is granted, if it was not, for a captured payment.
Grants(level) ==
    /\ provider.paid /\ level \in Levels /\ level <= provider.refunded
    /\ pack' = GrantAndSettle(level)
    /\ UNCHANGED <<provider, sent, recon, heard>> /\ SameRows

\* A refund is acknowledged before its grant.
Hears(e) ==
    /\ ~ Granted /\ e.kind = "refund" /\ Stored(e)
    /\ heard' \in {heard, e.level}
    /\ UNCHANGED <<pack, provider, sent, recon>> /\ SameRows

\* The step of the abstract settlement.
Settles == [Settlement!Next]_(Settlement!vars)

Kinds ==
    \/ Quiet \/ Moves
    \/ \E level \in Levels : Raises(level) \/ Grants(level)
    \/ \E e \in Event : Hears(e)

\* What the numbers are.
LEMMA Numbers ==
    ASSUME InboxAssumption, RazorpayAssumption, TypeOK
    PROVE  /\ Price \in Nat
           /\ pack.cash \in Nat /\ pack.cash <= Price /\ pack.grants \in Nat
           /\ provider.refunded \in Nat /\ provider.refunded <= Price
           /\ heard \in Nat /\ recon.seen \in Nat
           /\ KnownRefund \in Nat
           /\ provider.paid \in BOOLEAN /\ pack.vouched \in BOOLEAN
<1>1. /\ pack \in Pack /\ provider \in Provider /\ heard \in Levels /\ recon \in Recon
      /\ KnownRefund \in Levels
  BY Parts, KnownRefundIsGreatest
<1>2. pack.cash \in Levels /\ provider.refunded \in Levels /\ recon.seen \in Levels
      /\ pack.grants \in Nat /\ provider.paid \in BOOLEAN /\ pack.vouched \in BOOLEAN
  BY <1>1 DEF Pack, Provider, Recon
<1> QED
  BY <1>1, <1>2, LevelsAreNumbers

LEMMA NumbersAfter ==
    ASSUME InboxAssumption, RazorpayAssumption, TypeOK'
    PROVE  /\ pack'.cash \in Nat /\ pack'.cash <= Price /\ pack'.grants \in Nat
           /\ provider'.refunded \in Nat /\ provider'.refunded <= Price
           /\ heard' \in Nat /\ recon'.seen \in Nat
           /\ KnownRefund' \in Nat /\ pack'.vouched \in BOOLEAN
<1>1. /\ pack'.cash \in Levels /\ provider'.refunded \in Levels /\ recon'.seen \in Levels
      /\ pack'.grants \in Nat /\ heard' \in Levels /\ pack'.vouched \in BOOLEAN
  BY DEF TypeOK
<1>2. KnownRefund' \in Levels
  <2> DEFINE refunds == {f \in Event : f.kind = "refund" /\ row'[f].status # "absent"}
             S == {0} \cup {e.level : e \in refunds}
  <2>1. S \in SUBSET Levels /\ S # {} /\ Price \in Nat
    BY EventShape, LevelsAreNumbers
  <2>2. KnownRefund' = Max(S)
    BY DEF KnownRefund
  <2> HIDE DEF S
  <2> QED
    BY <2>1, <2>2, MaxIsMax DEF Levels
<1> QED
  BY <1>1, <1>2, LevelsAreNumbers

LEMMA QuietKeeps ==
    ASSUME InboxAssumption, RazorpayAssumption, TypeOK, TypeOK', Inv, Quiet
    PROVE  Inv' /\ Settles
<1>1. pack' = pack /\ provider' = provider /\ heard' = heard /\ sent' = sent
  BY DEF Quiet
<1>2. Truthful'
  <2>1. \A e \in Event : Stored(e)' => Known(e)
    BY DEF Quiet, Inv, Truthful
  <2>2. recon'.seen <= provider.refunded
    BY Numbers DEF Quiet, Inv, Truthful
  <2>3. \A e \in sent : Known(e)
    BY DEF Inv, Truthful
  <2> QED
    BY <1>1, <2>1, <2>2, <2>3 DEF Truthful, Known
<1>3. PackBacked'
  BY <1>1 DEF Quiet, Inv, PackBacked, GrantedOnce, Granted
<1>4. RefundKept'
  <2>1. RefundRemembered'
    BY <1>1 DEF Inv, RefundKept, RefundRemembered, Granted
  <2>2. ASSUME ~ Granted
        PROVE  heard' <= KnownRefund'
    <3>1. KnownRefund <= KnownRefund'
      BY <2>2, KnownRefundRises DEF Quiet
    <3>2. heard <= KnownRefund
      BY <2>2 DEF Inv, RefundKept
    <3> QED
      BY <1>1, <3>1, <3>2, Numbers, NumbersAfter
  <2> QED
    BY <1>1, <2>1, <2>2 DEF RefundKept, Granted
<1>5. UNCHANGED Settlement!vars
  BY <1>1 DEF Settlement!vars, Granted
<1> QED
  BY <1>2, <1>3, <1>4, <1>5 DEF Inv, Settles

LEMMA MovesKeeps ==
    ASSUME InboxAssumption, RazorpayAssumption, TypeOK, TypeOK', Inv, Moves
    PROVE  Inv' /\ Settles
<1>1. pack' = pack /\ heard' = heard /\ recon' = recon /\ row' = row
  BY DEF Moves
<1>2. /\ provider'.paid /\ provider'.refunded >= provider.refunded
      /\ ~ provider.paid => provider'.refunded = provider.refunded
  BY DEF Moves
<1>3. ASSUME NEW e \in Event, Known(e)
      PROVE  Known(e)'
  <2>1. e.level \in Nat
    BY EventShape, LevelsAreNumbers
  <2> QED
    BY <1>2, <1>3, <2>1, Numbers, NumbersAfter DEF Known
<1>4. sent' \subseteq Event /\ sent \subseteq Event
  BY DEF TypeOK
<1>5. Truthful'
  <2>1. \A e \in sent' : Known(e)'
    <3>1. \A e \in sent : Known(e)'
      BY <1>3, <1>4 DEF Inv, Truthful
    <3>2. \A e \in sent' : e \notin sent => Known(e)'
      BY <1>2 DEF Moves, Known
    <3> QED
      BY <3>1, <3>2
  <2>2. \A e \in Event : Stored(e)' => Known(e)'
    BY <1>1, <1>3 DEF Inv, Truthful, Stored
  <2>3. recon'.seen <= provider'.refunded
    BY <1>1, <1>2, Numbers, NumbersAfter DEF Inv, Truthful
  <2> QED
    BY <2>1, <2>2, <2>3 DEF Truthful
<1>6. PackBacked'
  <2>1. pack'.cash <= provider'.refunded
    BY <1>1, <1>2, Numbers, NumbersAfter DEF Inv, PackBacked
  <2> QED
    BY <1>1, <1>2, <2>1 DEF Inv, PackBacked, GrantedOnce, Granted
<1>7. RefundKept'
  BY <1>1 DEF Inv, RefundKept, RefundRemembered, Granted, KnownRefund
<1>8. Settles
  <2>1. CASE ~ provider.paid
    <3>1. Settlement!Pay
      BY <1>1, <1>2, <2>1, Numbers DEF Settlement!Pay, Granted
    <3> QED
      BY <3>1 DEF Settles, Settlement!Next
  <2>2. CASE provider.paid /\ provider'.refunded = provider.refunded
    <3>1. provider'.paid = provider.paid
      <4>1. provider'.paid \in BOOLEAN /\ provider.paid \in BOOLEAN
        BY DEF TypeOK
      <4> QED
        BY <1>2, <2>2, <4>1
    <3> QED
      BY <1>1, <2>2, <3>1 DEF Settles, Settlement!vars, Granted
  <2>3. CASE provider.paid /\ provider'.refunded # provider.refunded
    <3>1. provider'.refunded \in (provider.refunded + 1)..Price
      BY <1>2, <2>3, Numbers, NumbersAfter
    <3>2. provider'.paid = provider.paid
      <4>1. provider'.paid \in BOOLEAN /\ provider.paid \in BOOLEAN
        BY DEF TypeOK
      <4> QED
        BY <1>2, <2>3, <4>1
    <3>3. Settlement!Refund
      BY <1>1, <2>3, <3>1, <3>2 DEF Settlement!Refund, Granted
    <3> QED
      BY <3>3 DEF Settles, Settlement!Next
  <2> QED
    BY <2>1, <2>2, <2>3
<1> QED
  BY <1>5, <1>6, <1>7, <1>8 DEF Inv

LEMMA RaisesKeeps ==
    ASSUME InboxAssumption, RazorpayAssumption, TypeOK, TypeOK', Inv, NEW level \in Levels, Raises(level)
    PROVE  Inv' /\ Settles
<1>1. /\ provider' = provider /\ sent' = sent /\ Granted /\ pack'.grants = pack.grants
      /\ pack'.vouched = pack.vouched /\ ~ pack.vouched
      /\ level <= provider.refunded /\ level \in Nat
      /\ pack'.cash = IF pack.cash >= level THEN pack.cash ELSE level
      /\ heard' \in {heard, level}
  BY LevelsAreNumbers DEF Raises, Inv, PackBacked
<1>2. Granted'
  BY <1>1 DEF Granted
<1>3. Truthful'
  <2>1. \A e \in Event : Stored(e)' => Known(e)
    BY DEF Raises, SameRows, Inv, Truthful
  <2>2. recon'.seen <= provider.refunded
    BY Numbers DEF Raises, Inv, Truthful
  <2>3. \A e \in sent : Known(e)
    BY DEF Inv, Truthful
  <2> QED
    BY <1>1, <2>1, <2>2, <2>3 DEF Truthful, Known
<1>4. pack'.cash <= provider'.refunded
  BY <1>1, Numbers DEF Inv, PackBacked
<1>5. PackBacked'
  BY <1>1, <1>2, <1>4 DEF Inv, PackBacked, GrantedOnce
<1>6. pack'.cash >= heard'
  BY <1>1, Numbers DEF Inv, RefundKept, RefundRemembered
<1>7. RefundKept'
  BY <1>2, <1>6 DEF RefundKept, RefundRemembered
<1>8. Settles
  <2>1. CASE pack.cash >= level
    BY <1>1, <1>2, <2>1 DEF Settles, Settlement!vars
  <2>2. CASE ~(pack.cash >= level)
    <3>1. pack'.cash \in (pack.cash + 1)..provider.refunded
      BY <1>1, <2>2, Numbers
    <3>2. Settlement!Settle
      BY <1>1, <1>2, <3>1 DEF Settlement!Settle
    <3> QED
      BY <3>2 DEF Settles, Settlement!Next
  <2> QED
    BY <2>1, <2>2
<1> QED
  BY <1>3, <1>5, <1>7, <1>8 DEF Inv

LEMMA GrantsKeeps ==
    ASSUME InboxAssumption, RazorpayAssumption, TypeOK, TypeOK', Inv, NEW level \in Levels, Grants(level)
    PROVE  Inv' /\ Settles
<1>1. /\ provider' = provider /\ sent' = sent /\ recon' = recon /\ heard' = heard
      /\ level <= provider.refunded /\ level \in Nat /\ provider.paid
  BY LevelsAreNumbers DEF Grants
<1>2. /\ pack'.grants = 1 /\ pack'.vouched = pack.vouched /\ ~ pack.vouched
      /\ pack'.cash >= pack.cash
      /\ pack'.cash >= KnownRefund
      /\ pack'.cash \in {pack.cash, level, KnownRefund}
  BY GrantRaises DEF Grants, Inv, PackBacked
<1>3. Granted'
  BY <1>2 DEF Granted
<1>4. KnownRefund <= provider.refunded
  BY KnownRefundIsGreatest, Numbers DEF Inv, Truthful, Known
<1>5. pack'.cash <= provider.refunded
  BY <1>1, <1>2, <1>4 DEF Inv, PackBacked
<1>6. Truthful'
  <2>1. \A e \in Event : Stored(e)' => Known(e)
    BY DEF Grants, SameRows, Inv, Truthful
  <2> QED
    BY <1>1, <2>1 DEF Inv, Truthful, Known
<1>7. PackBacked'
  BY <1>1, <1>2, <1>3, <1>5 DEF PackBacked, GrantedOnce
<1>8. pack'.cash >= heard
  BY <1>2, Numbers, NumbersAfter DEF Inv, RefundKept, RefundRemembered
<1>9. RefundKept'
  BY <1>1, <1>3, <1>8 DEF RefundKept, RefundRemembered
<1>10. Settles
  <2>1. CASE ~ Granted
    <3>1. pack'.cash \in 0..provider.refunded
      BY <1>5, Numbers, NumbersAfter
    <3>2. pack'.vouched \in {FALSE, TRUE}
      BY NumbersAfter
    <3>3. Settlement!Grant
      BY <1>1, <1>2, <1>3, <2>1, <3>1, <3>2 DEF Settlement!Grant, Granted
    <3> QED
      BY <3>3 DEF Settles, Settlement!Next
  <2>2. CASE Granted /\ pack'.cash = pack.cash
    BY <1>1, <1>2, <1>3, <2>2 DEF Settles, Settlement!vars, Granted
  <2>3. CASE Granted /\ pack'.cash # pack.cash
    <3>1. pack'.cash \in (pack.cash + 1)..provider.refunded
      BY <1>2, <1>5, <2>3, Numbers, NumbersAfter
    <3>2. Settlement!Settle
      BY <1>1, <1>2, <1>3, <2>3, <3>1 DEF Settlement!Settle, Granted
    <3> QED
      BY <3>2 DEF Settles, Settlement!Next
  <2> QED
    BY <2>1, <2>2, <2>3
<1> QED
  BY <1>6, <1>7, <1>9, <1>10 DEF Inv

LEMMA HearsKeeps ==
    ASSUME InboxAssumption, RazorpayAssumption, TypeOK, TypeOK', Inv, NEW e \in Event, Hears(e)
    PROVE  Inv' /\ Settles
<1>1. /\ pack' = pack /\ provider' = provider /\ sent' = sent /\ recon' = recon
      /\ ~ Granted /\ heard' \in {heard, e.level}
  BY DEF Hears
<1>2. Truthful'
  <2>1. \A f \in Event : Stored(f)' => Known(f)
    BY DEF Hears, SameRows, Inv, Truthful
  <2> QED
    BY <1>1, <2>1 DEF Inv, Truthful, Known
<1>3. PackBacked'
  BY <1>1 DEF Inv, PackBacked, GrantedOnce, Granted
<1>4. heard' <= KnownRefund
  BY <1>1, KnownRefundIsGreatest DEF Hears, Inv, RefundKept
<1>5. KnownRefund <= KnownRefund'
  BY KnownRefundRises DEF Hears, SameRows
<1>6. RefundKept'
  BY <1>1, <1>4, <1>5, Numbers, NumbersAfter DEF RefundKept, RefundRemembered, Granted
<1>7. UNCHANGED Settlement!vars
  BY <1>1 DEF Settlement!vars, Granted
<1> QED
  BY <1>2, <1>3, <1>6, <1>7 DEF Inv, Settles

-----------------------------------------------------------------------------
(* Which step is of which kind.                                            *)

LEMMA InitHolds == ASSUME InboxAssumption, RazorpayAssumption PROVE Init => TypeOK /\ Inv /\ Settlement!Init
<1> SUFFICES ASSUME Init
             PROVE  TypeOK /\ Inv /\ Settlement!Init
  OBVIOUS
<1>1. 0 \in Levels /\ 0 \in 0..MaxTime /\ 0 \in 0..MaxTries /\ 0 \in 0..MaxFaults
  BY DEF Levels, RazorpayAssumption, InboxAssumption
<1>2. Absent \in Row /\ Absent.status = "absent"
  BY <1>1 DEF Absent, Row, Status
<1>3. InboxTypeOK
  <2>1. row \in [Event -> Row]
    BY <1>2 DEF Init, InboxInit
  <2>2. exec \in [Executor -> [Event -> Phase]]
    BY DEF Init, InboxInit, Phase
  <2>3. try \in [Event -> 0..MaxTries]
    BY <1>1 DEF Init, InboxInit
  <2> QED
    BY <1>1, <2>1, <2>2, <2>3 DEF Init, InboxInit, InboxTypeOK
<1>4. \A e \in Event : ~ Stored(e)
  BY <1>2 DEF Init, InboxInit, Stored
<1>5. TypeOK
  <2>1. attempt \in Attempt
    BY <1>1 DEF Init, Attempt, AttemptStatus
  <2>2. pack \in Pack
    BY <1>1 DEF Init, Pack
  <2>3. dispute \in Dispute
    BY <1>1 DEF Init, Dispute, DisputeState
  <2>4. provider \in Provider
    BY <1>1 DEF Init, Provider, Dispute, DisputeState
  <2>5. recon \in Recon
    BY <1>1 DEF Init, Recon, Lane
  <2> QED
    BY <1>1, <1>3, <2>1, <2>2, <2>3, <2>4, <2>5, Parts DEF Init
<1>6. ~ Granted /\ pack.cash = 0 /\ provider.refunded = 0 /\ recon.seen = 0 /\ heard = 0
      /\ sent = {} /\ recon.lane = "idle" /\ pack.grants = 0 /\ provider.paid = FALSE
      /\ pack.vouched = FALSE
  BY DEF Init, Granted
<1>7. KnownRefund = 0
  BY <1>4, KnownRefundIsGreatest
<1>8. Inv
  BY <1>4, <1>6, <1>7
  DEF Inv, Truthful, PackBacked, RefundKept, RefundRemembered, GrantedOnce
<1>9. Settlement!Init
  BY <1>6 DEF Settlement!Init
<1> QED
  BY <1>5, <1>8, <1>9

\* The attempt moves, or the inbox, or nothing.
LEMMA QuietTyped ==
    ASSUME TypeOK, InboxTypeOK', attempt' \in Attempt, recon' \in Recon,
           UNCHANGED <<pack, dispute, provider, sent, heard>>
    PROVE  TypeOK'
BY Parts, PartsAfter

LEMMA QuietRows ==
    ASSUME InboxAssumption, RazorpayAssumption, TypeOK, Inv, InboxTypeOK', SameRows, attempt' \in Attempt,
           recon' \in Recon, recon'.seen \in {recon.seen, 0, provider.refunded},
           recon'.lane = "apply" => Granted,
           UNCHANGED <<pack, dispute, provider, sent, heard>>
    PROVE  TypeOK' /\ Kinds
<1>1. TypeOK'
  BY QuietTyped
<1>2. Quiet
  BY DEF Quiet, SameRows
<1> QED
  BY <1>1, <1>2 DEF Kinds

\* The checkout.
LEMMA CheckoutStep ==
    ASSUME InboxAssumption, RazorpayAssumption, TypeOK, Inv,
           CreateCheckout \/ LinkCreated \/ LinkRefused \/ PurgeAttempt
    PROVE  TypeOK' /\ Kinds
<1>1. /\ attempt \in Attempt /\ recon \in Recon /\ InboxTypeOK /\ now \in 0..MaxTime
  BY Parts DEF InboxTypeOK
<1>2. UNCHANGED <<row, exec, try, now, pack, dispute, provider, sent, recon, heard>>
  BY DEF CreateCheckout, LinkCreated, LinkRefused, PurgeAttempt, inbox
<1>3. faults' \in 0..MaxFaults
  BY <1>1, FaultTyped DEF CreateCheckout, LinkCreated, LinkRefused, PurgeAttempt, inbox
<1>4. InboxTypeOK' /\ SameRows
  BY <1>1, <1>2, <1>3 DEF InboxTypeOK, SameRows, Stored
<1>5. attempt' \in Attempt
  <2>1. CASE CreateCheckout
    BY <1>1, <2>1 DEF CreateCheckout, Attempt, AttemptStatus
  <2>2. CASE LinkCreated
    BY <1>1, <2>2 DEF LinkCreated, Attempt, AttemptStatus
  <2>3. CASE LinkRefused
    BY <1>1, <2>3 DEF LinkRefused, Attempt, AttemptStatus
  <2>4. CASE PurgeAttempt
    BY <1>1, <2>4 DEF PurgeAttempt, Attempt, AttemptStatus
  <2> QED
    BY <2>1, <2>2, <2>3, <2>4
<1>6. recon.lane = "apply" => Granted
  BY DEF Inv, PackBacked
<1> QED
  BY <1>1, <1>2, <1>4, <1>5, <1>6, QuietRows

\* Time passes, a worker dies, the sweep runs, an executor goes on.
LEMMA InboxMoves ==
    ASSUME InboxAssumption, RazorpayAssumption, TypeOK, Inv, UNCHANGED money,
           \/ \E x \in Executor, e \in Event : InboxStep(x, e)
           \/ \E e \in Event : Crash(e)
           \/ Sweep \/ Tick
    PROVE  TypeOK' /\ Kinds
<1>1. attempt \in Attempt /\ recon \in Recon /\ InboxTypeOK
  BY Parts
<1>2. InboxTypeOK' /\ SameRows
  BY <1>1, InboxStepTyped, CrashTyped, RequeueTyped, TickTyped DEF Sweep
<1>3. recon.lane = "apply" => Granted
  BY DEF Inv, PackBacked
<1> QED
  BY <1>1, <1>2, <1>3, QuietRows DEF money

\* Razorpay.
LEMMA ProviderStep ==
    ASSUME InboxAssumption, RazorpayAssumption, TypeOK, Inv,
           Pay \/ \E e \in Event : RefundAt(e) \/ Decide(e)
    PROVE  TypeOK' /\ Kinds
<1>1. /\ provider \in Provider /\ sent \subseteq Event /\ InboxTypeOK
      /\ provider.refunded \in Nat /\ now \in 0..MaxTime
  BY Parts, Numbers DEF InboxTypeOK
<1>2. UNCHANGED <<inbox, attempt, pack, dispute, recon, heard>>
  BY DEF Pay, RefundAt, Decide
<1>3. row' = row /\ InboxTypeOK'
  BY <1>1, <1>2 DEF inbox, InboxTypeOK
<1>4. CASE Pay
  <2>1. provider' = [provider EXCEPT !.paid = TRUE, !.at = now]
    BY <1>4 DEF Pay
  <2>2. provider' \in Provider /\ provider'.paid /\ provider'.refunded = provider.refunded
    BY <1>1, <2>1 DEF Provider
  <2>3. sent' \subseteq Event
    BY <1>1, <1>4 DEF Pay
  <2>4. \A e \in sent' : e \in sent \/ e.level <= provider'.refunded
    BY <1>1, <1>4, <2>2 DEF Pay
  <2>5. TypeOK'
    BY <1>2, <1>3, <2>2, <2>3, Parts, PartsAfter
  <2>6. Moves
    BY <1>1, <1>2, <1>3, <2>2, <2>4 DEF Moves
  <2> QED
    BY <2>5, <2>6 DEF Kinds
<1>5. ASSUME NEW e \in Event, RefundAt(e)
      PROVE  TypeOK' /\ Kinds
  <2>1. e.level \in Levels /\ e.level \in Nat
    BY EventShape, LevelsAreNumbers
  <2>2. provider' = [provider EXCEPT !.refunded = e.level]
    BY <1>5 DEF RefundAt
  <2>3. provider' \in Provider /\ provider'.paid = provider.paid /\ provider'.refunded = e.level
    BY <1>1, <2>1, <2>2 DEF Provider
  <2>4. provider.paid /\ provider.refunded < e.level /\ sent' = sent \cup {e}
    BY <1>5 DEF RefundAt
  <2>5. TypeOK'
    BY <1>1, <1>2, <1>3, <2>3, <2>4, Parts, PartsAfter
  <2>6. Moves
    BY <1>1, <1>2, <1>3, <2>1, <2>3, <2>4 DEF Moves
  <2> QED
    BY <2>5, <2>6 DEF Kinds
<1>6. ASSUME NEW e \in Event, Decide(e)
      PROVE  TypeOK' /\ Kinds
  <2>1. [state |-> e.state, at |-> e.at] \in Dispute
    BY EventShape DEF Dispute
  <2>2. provider' = [provider EXCEPT !.dispute = [state |-> e.state, at |-> e.at]]
    BY <1>6 DEF Decide
  <2>3. /\ provider' \in Provider /\ provider'.paid = provider.paid
        /\ provider'.refunded = provider.refunded
    BY <1>1, <2>1, <2>2 DEF Provider
  <2>4. provider.paid /\ e.level = provider.refunded /\ sent' = sent \cup {e}
    BY <1>6 DEF Decide
  <2>5. TypeOK'
    BY <1>1, <1>2, <1>3, <2>3, <2>4, Parts, PartsAfter
  <2>6. Moves
    BY <1>1, <1>2, <1>3, <2>3, <2>4 DEF Moves
  <2> QED
    BY <2>5, <2>6 DEF Kinds
<1> QED
  BY <1>4, <1>5, <1>6

\* A webhook is delivered.
LEMMA DeliverStep ==
    ASSUME InboxAssumption, RazorpayAssumption, TypeOK, Inv, NEW e \in Event, Deliver(e)
    PROVE  TypeOK' /\ Kinds
<1>1. attempt \in Attempt /\ recon \in Recon /\ InboxTypeOK
  BY Parts
<1>2. InboxTypeOK' /\ RowAdded(e)
  BY <1>1, InsertTyped DEF Deliver
<1>3. UNCHANGED <<attempt, pack, dispute, provider, sent, recon, heard>>
  BY DEF Deliver, money
<1>4. Known(e)
  BY DEF Deliver, Inv, Truthful
<1>5. recon.lane = "apply" => Granted
  BY DEF Inv, PackBacked
<1>6. Quiet
  BY <1>2, <1>3, <1>4, <1>5 DEF Quiet, RowAdded
<1> QED
  BY <1>1, <1>2, <1>3, <1>6, QuietTyped DEF Kinds

\* A processed row is purged, unless it is a refund that waits for its pack.
LEMMA PurgeStep ==
    ASSUME InboxAssumption, RazorpayAssumption, TypeOK, Inv, NEW e \in Event, Purge(e)
    PROVE  TypeOK' /\ Kinds
<1>1. attempt \in Attempt /\ recon \in Recon /\ InboxTypeOK
  BY Parts
<1>2. InboxTypeOK' /\ \A f \in Event : Stored(f)' <=> Stored(f) /\ f # e
  BY <1>1, PurgeRowTyped DEF Purge
<1>3. UNCHANGED <<attempt, pack, dispute, provider, sent, recon, heard>>
  BY DEF Purge, money
<1>4. ~ Granted => e.kind # "refund"
  BY DEF Purge, Kept
<1>5. recon.lane = "apply" => Granted
  BY DEF Inv, PackBacked
<1>6. Quiet
  BY <1>2, <1>3, <1>4, <1>5 DEF Quiet
<1> QED
  BY <1>1, <1>2, <1>3, <1>6, QuietTyped DEF Kinds

\* A handler commits with its row.
LEMMA HandlerRows ==
    ASSUME InboxAssumption, RazorpayAssumption, TypeOK, NEW x \in Executor, NEW e \in Event, NEW kind,
           Handling(x, e, kind), Finish(x, e)
    PROVE  InboxTypeOK' /\ SameRows /\ Stored(e)
<1>1. Stored(e) /\ InboxTypeOK
  BY Parts DEF Handling, Stored
<1> QED
  BY <1>1, FinishTyped

\* A completed attempt.
LEMMA CompleteTyped ==
    ASSUME TypeOK
    PROVE  Complete \in Attempt
<1>1. attempt \in Attempt
  BY Parts
<1> QED
  BY <1>1 DEF Complete, Attempt, AttemptStatus

\* A grant, or the same without one.
LEMMA GrantStep ==
    ASSUME InboxAssumption, RazorpayAssumption, TypeOK, Inv, NEW level \in Levels,
           provider.paid, level <= provider.refunded,
           pack' = GrantAndSettle(level), attempt' = Complete,
           InboxTypeOK', SameRows, UNCHANGED <<dispute, provider, sent, recon, heard>>
    PROVE  TypeOK' /\ Kinds
<1>1. pack' \in Pack
  BY GrantRaises DEF Inv, PackBacked
<1>2. TypeOK'
  BY <1>1, CompleteTyped, Parts, PartsAfter
<1>3. Grants(level)
  BY DEF Grants
<1> QED
  BY <1>2, <1>3 DEF Kinds

LEMMA LinkPaidStep ==
    ASSUME InboxAssumption, RazorpayAssumption, TypeOK, Inv, NEW x \in Executor, NEW e \in Event,
           HandleLinkPaid(x, e)
    PROVE  TypeOK' /\ Kinds
<1>1. InboxTypeOK' /\ SameRows /\ Stored(e)
  BY HandlerRows DEF HandleLinkPaid
<1>2. Known(e) /\ e.level \in Levels
  BY <1>1, EventShape DEF Inv, Truthful
<1>3. UNCHANGED <<dispute, provider, sent, recon, heard>>
  BY DEF HandleLinkPaid
<1>4. CASE attempt.status = "purged"
  <2>1. UNCHANGED <<attempt, pack>>
    BY <1>4 DEF HandleLinkPaid
  <2>2. attempt \in Attempt /\ recon \in Recon /\ (recon.lane = "apply" => Granted)
    BY Parts DEF Inv, PackBacked
  <2> QED
    BY <1>1, <1>3, <2>1, <2>2, QuietRows
<1>5. CASE attempt.status # "purged"
  <2>1. attempt' = Complete /\ pack' = GrantAndSettle(e.level)
    BY <1>5 DEF HandleLinkPaid
  <2> QED
    BY <1>1, <1>2, <1>3, <2>1, GrantStep DEF Known
<1> QED
  BY <1>4, <1>5

\* The administrator.
LEMMA AdminStep ==
    ASSUME InboxAssumption, RazorpayAssumption, TypeOK, Inv, AdminCorrection
    PROVE  TypeOK' /\ Kinds
<1>1. /\ UNCHANGED <<inbox, dispute, provider, sent, recon, heard>>
      /\ provider.paid /\ attempt' = Complete
      /\ pack' = IF Granted THEN pack ELSE GrantAndSettle(provider.refunded)
  BY DEF AdminCorrection
<1>2. /\ provider.refunded \in Levels /\ provider.refunded <= provider.refunded
      /\ InboxTypeOK /\ recon \in Recon /\ (recon.lane = "apply" => Granted)
  BY Parts, Numbers DEF Provider, Inv, PackBacked
<1>3. InboxTypeOK' /\ SameRows
  BY <1>1, <1>2 DEF inbox, InboxTypeOK, SameRows, Stored
<1>4. CASE Granted
  BY <1>1, <1>2, <1>3, <1>4, CompleteTyped, QuietRows
<1>5. CASE ~ Granted
  BY <1>1, <1>2, <1>3, <1>5, GrantStep
<1> QED
  BY <1>4, <1>5

\* A step that settles the pack, if there is one.
LEMMA RaiseStep ==
    ASSUME InboxAssumption, RazorpayAssumption, TypeOK, Inv, NEW level \in Levels, NEW d, Granted,
           level <= provider.refunded, pack' = Settle(pack, level, d),
           heard' \in {heard, level}, InboxTypeOK', SameRows, dispute' \in Dispute,
           recon' \in Recon, recon'.seen \in {recon.seen, 0},
           UNCHANGED <<attempt, provider, sent>>
    PROVE  TypeOK' /\ Kinds
<1>1. pack \in Pack /\ attempt \in Attempt /\ provider \in Provider /\ sent \subseteq Event
      /\ heard \in Levels
  BY Parts
<1>2. /\ pack' \in Pack /\ pack'.grants = pack.grants /\ pack'.vouched = pack.vouched
      /\ pack'.cash = IF pack.cash >= level THEN pack.cash ELSE level
  BY <1>1, SettleRaises DEF Pack
<1>3. TypeOK'
  BY <1>1, <1>2, PartsAfter
<1>4. Raises(level)
  BY <1>2 DEF Raises
<1> QED
  BY <1>3, <1>4 DEF Kinds

LEMMA RefundStep ==
    ASSUME InboxAssumption, RazorpayAssumption, TypeOK, Inv, NEW x \in Executor, NEW e \in Event,
           HandleRefund(x, e)
    PROVE  TypeOK' /\ Kinds
<1>1. InboxTypeOK' /\ SameRows /\ Stored(e) /\ e.kind = "refund"
  BY HandlerRows DEF HandleRefund, Handling
<1>2. Known(e) /\ e.level \in Levels /\ e.level \in Nat /\ heard \in Nat
  BY <1>1, EventShape, LevelsAreNumbers, Numbers DEF Inv, Truthful
<1>3. UNCHANGED <<attempt, dispute, provider, sent, recon>>
  BY DEF HandleRefund
<1>4. heard' \in {heard, e.level}
  BY <1>2, MaxOfTwo DEF HandleRefund
<1>5. CASE Granted
  <2>1. pack' = Settle(pack, e.level, dispute)
    BY <1>5 DEF HandleRefund
  <2> QED
    BY <1>1, <1>2, <1>3, <1>4, <1>5, <2>1, RaiseStep, Parts DEF Known
<1>6. CASE ~ Granted
  <2>1. pack' = pack
    BY <1>6 DEF HandleRefund
  <2>2. heard' \in Levels
    BY <1>2, <1>4, Parts
  <2>3. TypeOK'
    BY <1>1, <1>3, <2>1, <2>2, Parts, PartsAfter
  <2>4. Hears(e)
    BY <1>1, <1>3, <1>4, <1>6, <2>1 DEF Hears
  <2> QED
    BY <2>3, <2>4 DEF Kinds
<1> QED
  BY <1>5, <1>6

LEMMA DisputeStep ==
    ASSUME InboxAssumption, RazorpayAssumption, TypeOK, Inv, NEW x \in Executor, NEW e \in Event,
           HandleDispute(x, e)
    PROVE  TypeOK' /\ Kinds
<1>1. InboxTypeOK' /\ SameRows /\ Stored(e)
  BY HandlerRows DEF HandleDispute
<1>2. Known(e) /\ e.level \in Levels
  BY <1>1, EventShape DEF Inv, Truthful
<1>3. UNCHANGED <<attempt, provider, sent, recon, heard>>
  BY DEF HandleDispute
<1>4. /\ attempt \in Attempt /\ recon \in Recon /\ (recon.lane = "apply" => Granted)
      /\ provider \in Provider /\ sent \subseteq Event /\ heard \in Levels /\ pack \in Pack
  BY Parts DEF Inv, PackBacked
<1>5. CASE OutOfDate(e)
  <2>1. UNCHANGED <<dispute, pack>>
    BY <1>5 DEF HandleDispute
  <2> QED
    BY <1>1, <1>3, <1>4, <2>1, QuietRows
<1>6. CASE ~ OutOfDate(e)
  <2> DEFINE state == IF Undecidable(e) THEN provider.dispute.state ELSE e.state
  <2>1. dispute' = [state |-> state, at |-> e.at]
    BY <1>6 DEF HandleDispute
  <2>2. pack' = IF Granted THEN Settle(pack, e.level, dispute') ELSE pack
    BY <1>6 DEF HandleDispute
  <2>3. state \in DisputeState /\ e.at \in Nat
    BY <1>4, EventShape DEF Provider, Dispute
  <2> HIDE DEF state
  <2>4. dispute' \in Dispute
    BY <2>1, <2>3 DEF Dispute
  <2>5. CASE Granted
    BY <1>1, <1>2, <1>3, <1>4, <2>2, <2>4, <2>5, RaiseStep DEF Known
  <2>6. CASE ~ Granted
    <3>1. pack' = pack
      BY <2>2, <2>6
    <3>2. TypeOK'
      BY <1>1, <1>3, <1>4, <2>4, <3>1, PartsAfter
    <3>3. Quiet
      BY <1>1, <1>3, <1>4, <3>1 DEF Quiet, SameRows
    <3> QED
      BY <3>2, <3>3 DEF Kinds
  <2> QED
    BY <2>5, <2>6
<1> QED
  BY <1>5, <1>6

\* A lane that moves on, with nothing new in the inbox.
LEMMA LaneStep ==
    ASSUME InboxAssumption, RazorpayAssumption, TypeOK, Inv,
           \/ Lane1 \/ Lane2Read \/ Lane2Fails \/ RecoverNothing \/ Lane3 \/ ReconcileDies
    PROVE  TypeOK' /\ Kinds
<1>1. /\ attempt \in Attempt /\ recon \in Recon /\ InboxTypeOK /\ provider \in Provider
      /\ exec \in [Executor -> [Event -> Phase]]
  BY Parts DEF InboxTypeOK
<1>2. recon' \in Recon /\ recon'.seen \in {recon.seen, 0, provider.refunded}
      /\ (recon'.lane = "apply" => Granted)
  <2>1. 0 \in Levels /\ provider.refunded \in Levels
    BY <1>1, LevelsAreNumbers DEF Provider
  <2>2. CASE Lane1
    BY <1>1, <2>2 DEF Lane1, Goto, Recon, Lane
  <2>3. CASE Lane2Read
    BY <1>1, <2>1, <2>3 DEF Lane2Read, Recon, Lane
  <2>4. CASE Lane2Fails
    BY <1>1, <2>4 DEF Lane2Fails, Goto, Recon, Lane
  <2>5. CASE RecoverNothing
    BY <1>1, <2>5 DEF RecoverNothing, Goto, Recon, Lane
  <2>6. CASE Lane3
    BY <1>1, <2>6 DEF Lane3, Goto, Recon, Lane
  <2>7. CASE ReconcileDies
    BY <2>1, <2>7 DEF ReconcileDies, Recon, Lane
  <2> QED
    BY <2>2, <2>3, <2>4, <2>5, <2>6, <2>7
<1>3. InboxTypeOK' /\ SameRows
  <2>1. CASE Lane1
    BY <1>1, <2>1, RequeueTyped DEF Lane1
  <2>2. CASE Lane2Read \/ Lane3
    BY <1>1, <2>2 DEF Lane2Read, Lane3, inbox, InboxTypeOK, SameRows, Stored
  <2>3. CASE Lane2Fails \/ RecoverNothing
    <3>1. faults' \in 0..MaxFaults
      BY <1>1, <2>3, FaultTyped DEF Lane2Fails, RecoverNothing
    <3> QED
      BY <1>1, <2>3, <3>1 DEF Lane2Fails, RecoverNothing, InboxTypeOK, SameRows, Stored
  <2>4. CASE ReconcileDies
    <3>1. faults' \in 0..MaxFaults
      BY <1>1, <2>4, FaultTyped DEF ReconcileDies
    <3>2. exec' \in [Executor -> [Event -> Phase]]
      <4> DEFINE none == [e \in Event |-> "none"]
      <4>1. none \in [Event -> Phase]
        BY DEF Phase
      <4>2. exec' = [exec EXCEPT !["cron"] = none]
        BY <2>4 DEF ReconcileDies
      <4> HIDE DEF none
      <4> QED
        BY <1>1, <4>1, <4>2
    <3> QED
      BY <1>1, <2>4, <3>1, <3>2 DEF ReconcileDies, InboxTypeOK, SameRows, Stored
  <2> QED
    BY <2>1, <2>2, <2>3, <2>4
<1>4. attempt' \in Attempt
  <2>1. CASE Lane3
    BY <1>1, <2>1 DEF Lane3, Attempt, AttemptStatus
  <2> QED
    BY <1>1, <2>1 DEF Lane1, Lane2Read, Lane2Fails, RecoverNothing, ReconcileDies
<1>5. UNCHANGED <<pack, dispute, provider, sent, heard>>
  BY DEF Lane1, Lane2Read, Lane2Fails, RecoverNothing, Lane3, ReconcileDies
<1> QED
  BY <1>2, <1>3, <1>4, <1>5, QuietRows

\* Lane 2 applies what it read.
LEMMA Lane2ApplyStep ==
    ASSUME InboxAssumption, RazorpayAssumption, TypeOK, Inv, Lane2Apply
    PROVE  TypeOK' /\ Kinds
<1>1. /\ UNCHANGED <<inbox, attempt, dispute, provider, sent, heard>>
      /\ pack' = Settle(pack, recon.seen, dispute)
      /\ recon' = [lane |-> "recover", seen |-> 0]
  BY DEF Lane2Apply
<1>2. Granted /\ recon.seen <= provider.refunded
  BY DEF Lane2Apply, Inv, PackBacked, Truthful
<1>3. /\ InboxTypeOK /\ recon.seen \in Levels /\ dispute \in Dispute
      /\ recon' \in Recon
  BY <1>1, Parts, LevelsAreNumbers DEF Recon, Lane
<1>4. InboxTypeOK' /\ SameRows
  BY <1>1, <1>3 DEF inbox, InboxTypeOK, SameRows, Stored
<1> QED
  BY <1>1, <1>2, <1>3, <1>4, RaiseStep

\* Lane 2b stores the payment it read.
LEMMA RecoverStep ==
    ASSUME InboxAssumption, RazorpayAssumption, TypeOK, Inv, NEW e \in Event, Recover(e)
    PROVE  TypeOK' /\ Kinds
<1>1. /\ attempt \in Attempt /\ recon \in Recon /\ InboxTypeOK
      /\ row \in [Event -> Row] /\ now \in 0..MaxTime
      /\ exec \in [Executor -> [Event -> Phase]]
  BY Parts DEF InboxTypeOK
<1> DEFINE r == [Absent EXCEPT !.status = "received", !.at = now]
           new == IF row[e].status = "absent" THEN r ELSE row[e]
<1>2. r \in Row /\ r.status = "received"
  BY <1>1, ReceivedShape
<1>3. row' = [row EXCEPT ![e] = new]
  BY <1>1 DEF Recover
<1> HIDE DEF r
<1>4. new \in Row /\ new.status # "absent"
  BY <1>1, <1>2
<1> HIDE DEF new
<1>5. /\ row' \in [Event -> Row] /\ row'[e] = new
      /\ \A f \in Event : f # e => row'[f] = row[f]
  BY <1>1, <1>3, <1>4, RowWritten
<1>6. RowAdded(e)
  BY <1>4, <1>5 DEF RowAdded, Stored
<1>7. exec' \in [Executor -> [Event -> Phase]]
  <2>1. "cron" \in Executor /\ "queued" \in Phase
    BY DEF Executor, Phase
  <2> QED
    BY <1>1, <2>1, ExecWritten DEF Recover
<1>8. InboxTypeOK'
  BY <1>1, <1>5, <1>7 DEF Recover, InboxTypeOK
<1>9. recon' \in Recon /\ recon'.seen = recon.seen /\ recon'.lane = "lane3"
  BY <1>1 DEF Recover, Goto, Recon, Lane
<1>10. Known(e)
  BY Numbers DEF Recover, Recoverable, Known
<1>11. UNCHANGED <<attempt, pack, dispute, provider, sent, heard>>
  BY DEF Recover
<1>12. Quiet
  BY <1>6, <1>9, <1>10, <1>11 DEF Quiet, RowAdded
<1> QED
  BY <1>1, <1>8, <1>9, <1>11, <1>12, QuietTyped DEF Kinds

\* Nothing happens.
LEMMA StutterStep ==
    ASSUME TypeOK, Inv, UNCHANGED vars
    PROVE  TypeOK' /\ Kinds
<1>1. InboxTypeOK' /\ UNCHANGED <<row, attempt, pack, dispute, provider, sent, recon, heard>>
  BY Parts DEF vars, money, inbox, InboxTypeOK
<1>2. TypeOK'
  BY <1>1, Parts, PartsAfter
<1>3. Quiet
  BY <1>1 DEF Quiet, Stored, Inv, PackBacked
<1> QED
  BY <1>2, <1>3 DEF Kinds

-----------------------------------------------------------------------------
(* Every step.                                                             *)

LEMMA StepKinds ==
    ASSUME InboxAssumption, RazorpayAssumption, TypeOK, Inv, [Next]_vars
    PROVE  TypeOK' /\ Kinds
<1>1. CASE CreateCheckout \/ LinkCreated \/ LinkRefused \/ PurgeAttempt
  BY <1>1, CheckoutStep
<1>2. CASE Pay \/ \E e \in Event : RefundAt(e) \/ Decide(e)
  BY <1>2, ProviderStep
<1>3. CASE \E e \in Event : Deliver(e) \/ Purge(e) \/ Recover(e)
  BY <1>3, DeliverStep, PurgeStep, RecoverStep
<1>4. CASE \/ (\E x \in Executor, e \in Event : InboxStep(x, e)) /\ UNCHANGED money
           \/ (\E e \in Event : Crash(e)) /\ UNCHANGED money
           \/ (Sweep \/ Tick) /\ UNCHANGED money
  BY <1>4, InboxMoves
<1>5. CASE \E x \in Executor, e \in Event :
              HandleLinkPaid(x, e) \/ HandleRefund(x, e) \/ HandleDispute(x, e)
  BY <1>5, LinkPaidStep, RefundStep, DisputeStep
<1>6. CASE AdminCorrection
  BY <1>6, AdminStep
<1>7. CASE Lane1 \/ Lane2Read \/ Lane2Fails \/ RecoverNothing \/ Lane3 \/ ReconcileDies
  BY <1>7, LaneStep
<1>8. CASE Lane2Apply
  BY <1>8, Lane2ApplyStep
<1>9. CASE UNCHANGED vars
  BY <1>9, StutterStep
<1> QED
  BY <1>1, <1>2, <1>3, <1>4, <1>5, <1>6, <1>7, <1>8, <1>9
  DEF Next, Processor, Reconcile, SweepRows

\* Every step keeps the types and the invariant, and is a step of the abstract settlement.
LEMMA StepHolds ==
    ASSUME InboxAssumption, RazorpayAssumption, TypeOK, Inv, [Next]_vars
    PROVE  TypeOK' /\ Inv' /\ Settles
<1>1. TypeOK' /\ Kinds
  BY StepKinds
<1> QED
  BY <1>1, QuietKeeps, MovesKeeps, RaisesKeeps, GrantsKeeps, HearsKeeps DEF Kinds

(***************************************************************************)
(* The rows, executions, lanes and amounts of one purchase keep their      *)
(* types: no refund level passes the price, no retry its bound.            *)
(***************************************************************************)
THEOREM RazorpayTypes ==
    ASSUME InboxAssumption, RazorpayAssumption
    PROVE  Spec => []TypeOK
<1>1. Init => TypeOK /\ Inv
  BY InitHolds
<1>2. TypeOK /\ Inv /\ [Next]_vars => (TypeOK /\ Inv)'
  BY StepHolds
<1> QED
  BY <1>1, <1>2, PTL DEF Spec

(***************************************************************************)
(* The webhook's deliveries, the recovered payment, the retries of both    *)
(* and the administrator's correction grant a purchase at most once.       *)
(***************************************************************************)
THEOREM OneGrantPerPayment ==
    ASSUME InboxAssumption, RazorpayAssumption
    PROVE  Spec => []GrantedOnce
<1>1. Init => TypeOK /\ Inv
  BY InitHolds
<1>2. TypeOK /\ Inv /\ [Next]_vars => (TypeOK /\ Inv)'
  BY StepHolds
<1>3. Inv => GrantedOnce
  BY DEF Inv, PackBacked
<1> QED
  BY <1>1, <1>2, <1>3, PTL DEF Spec

(***************************************************************************)
(* A refund that a handler acknowledged is settled on the pack, or waits   *)
(* in a row that outlives the purge until its grant, whatever crashes,     *)
(* retries and reorderings happen in between.                              *)
(***************************************************************************)
THEOREM NoRefundForgotten ==
    ASSUME InboxAssumption, RazorpayAssumption
    PROVE  Spec => []RefundRemembered
<1>1. Init => TypeOK /\ Inv
  BY InitHolds
<1>2. TypeOK /\ Inv /\ [Next]_vars => (TypeOK /\ Inv)'
  BY StepHolds
<1>3. Inv => RefundRemembered
  BY DEF Inv, RefundKept
<1> QED
  BY <1>1, <1>2, <1>3, PTL DEF Spec

(***************************************************************************)
(* Billing through Razorpay implements the abstract settlement of one      *)
(* payment: a pack only for captured money, and its cash only rises, never *)
(* past what Razorpay refunded, also when lane 2 applies an amount it read *)
(* before the lock.                                                        *)
(***************************************************************************)
THEOREM ImplementsSettlement ==
    ASSUME InboxAssumption, RazorpayAssumption
    PROVE  Spec => SettlesPayment
<1>1. Init => TypeOK /\ Inv /\ Settlement!Init
  BY InitHolds
<1>2. TypeOK /\ Inv /\ [Next]_vars => (TypeOK /\ Inv)' /\ [Settlement!Next]_(Settlement!vars)
  BY StepHolds DEF Settles
<1> QED
  BY <1>1, <1>2, PTL DEF Spec, SettlesPayment, Settlement!Spec
=============================================================================
