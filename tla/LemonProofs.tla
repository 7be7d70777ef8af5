---------------------------- MODULE LemonProofs ----------------------------
(***************************************************************************)
(* Proofs about LemonBilling, for any deliveries, refund amounts, tries,   *)
(* faults and ages: its types, that a refund acknowledged in time is taken *)
(* from the pack although no lock joins it with the grant, and that every  *)
(* step is a step of the abstract settlement of one payment, or changes    *)
(* nothing of it.                                                          *)
(***************************************************************************)
EXTENDS LemonBilling, BillingInboxProofs

-----------------------------------------------------------------------------
(* What is known of the order.                                             *)

Pack == [grants : 0..2, vouched : BOOLEAN, at : 0..MaxTime, cash : Levels]

Provider == [paid : BOOLEAN, at : 0..MaxTime, refunded : Levels]

Recon == [lane : {"idle", "lane2", "apply", "lane3"}, seen : Levels]

\* What is stored or announced was true of the order, and still is.
Known(e) == provider.paid /\ (e.kind = "refund" => e.level <= provider.refunded)

Truthful ==
    /\ \A e \in sent : Known(e)
    /\ \A e \in Event : Stored(e) => Known(e)
    /\ recon.seen <= provider.refunded

\* A handler that found no pack still has its row.
RowsHeld == \A x \in Executor, e \in Event : exec[x][e] = "nopack" => Stored(e)

\* A pack stands on a paid order or on somebody's word, and its cash on what was refunded.
PackBacked ==
    /\ GrantedOnce
    /\ Granted => provider.paid \/ pack.vouched
    /\ ~ Granted => pack.cash = 0
    /\ pack.cash <= provider.refunded
    /\ recon.lane = "apply" => Granted

\* What a handler acknowledged in time is on the pack, and nothing before there is one.
Applied == pack.cash >= heard

Inv == Truthful /\ RowsHeld /\ PackBacked /\ Applied

LEMMA LevelsAreNumbers ==
    ASSUME LemonAssumption
    PROVE  Price \in Nat /\ 0 \in Levels /\ \A l \in Levels : l \in Nat /\ l <= Price
BY DEF LemonAssumption, Levels

LEMMA EventShape ==
    ASSUME LemonAssumption, NEW e \in Event
    PROVE  e.level \in Levels /\ e.level \in Nat
BY DEF LemonAssumption, Levels

\* The types, with their names.
LEMMA Parts ==
    TypeOK <=> /\ InboxTypeOK /\ attempt \in AttemptStatus /\ pack \in Pack
               /\ provider \in Provider /\ sent \subseteq Event /\ recon \in Recon
               /\ admin \in {"idle", "checked"} /\ heard \in Levels
BY DEF TypeOK, Pack, Provider, Recon

LEMMA PartsAfter ==
    ASSUME InboxTypeOK', attempt' \in AttemptStatus, pack' \in Pack, provider' \in Provider,
           sent' \subseteq Event, recon' \in Recon, admin' \in {"idle", "checked"},
           heard' \in Levels
    PROVE  TypeOK'
BY DEF TypeOK, Pack, Provider, Recon

LEMMA Numbers ==
    ASSUME LemonAssumption, TypeOK
    PROVE  /\ Price \in Nat
           /\ pack.cash \in Nat /\ pack.cash <= Price /\ pack.grants \in Nat
           /\ provider.refunded \in Nat /\ provider.refunded <= Price
           /\ recon.seen \in Nat /\ provider.paid \in BOOLEAN /\ heard \in Nat
           /\ pack.vouched \in BOOLEAN
<1>1. pack \in Pack /\ provider \in Provider /\ recon \in Recon /\ heard \in Levels
  BY Parts
<1>2. pack.cash \in Levels /\ provider.refunded \in Levels /\ recon.seen \in Levels
      /\ pack.grants \in Nat /\ provider.paid \in BOOLEAN /\ heard \in Levels
      /\ pack.vouched \in BOOLEAN
  BY <1>1 DEF Pack, Provider, Recon
<1> QED
  BY <1>2, LevelsAreNumbers

LEMMA NumbersAfter ==
    ASSUME LemonAssumption, TypeOK'
    PROVE  /\ pack'.cash \in Nat /\ pack'.cash <= Price /\ pack'.grants \in Nat
           /\ provider'.refunded \in Nat /\ provider'.refunded <= Price
           /\ recon'.seen \in Nat /\ provider'.paid \in BOOLEAN /\ heard' \in Nat
           /\ pack'.vouched \in BOOLEAN
<1>1. pack'.cash \in Levels /\ provider'.refunded \in Levels /\ recon'.seen \in Levels
      /\ pack'.grants \in Nat /\ provider'.paid \in BOOLEAN /\ heard' \in Levels
      /\ pack'.vouched \in BOOLEAN
  BY DEF TypeOK
<1> QED
  BY <1>1, LevelsAreNumbers

-----------------------------------------------------------------------------
(* Four kinds of step.                                                     *)

\* Rows appear only for what Lemon Squeezy did; no held row disappears; what is
\* acknowledged in time is applied.
Rows ==
    /\ \A e \in Event : Stored(e)' => Stored(e) \/ Known(e)
    /\ RowsHeld'
    /\ heard' \in Levels
    /\ heard' = heard \/ pack'.cash >= heard'

\* The inbox, the attempt and the lanes move; nothing of the money does.
Quiet ==
    /\ Rows
    /\ UNCHANGED <<pack, provider, sent>>
    /\ recon'.seen \in {recon.seen, 0, provider.refunded}
    /\ recon'.lane = "apply" => Granted

\* The order is paid or refunded, and Lemon Squeezy says so.
Moves ==
    /\ UNCHANGED <<row, exec, attempt, pack, recon, admin, heard>>
    /\ provider'.paid /\ provider'.refunded >= provider.refunded
    /\ ~ provider.paid => provider'.refunded = provider.refunded
    /\ \A e \in sent' : e \in sent \/ (e.kind = "refund" => e.level <= provider'.refunded)

\* The cash of a pack rises to a level that was refunded.
Raises(level) ==
    /\ Rows
    /\ Granted /\ level \in Levels /\ level <= provider.refunded
    /\ pack'.grants = pack.grants /\ pack'.vouched = pack.vouched
    /\ pack'.cash = IF pack.cash >= level THEN pack.cash ELSE level
    /\ UNCHANGED <<provider, sent>>
    /\ recon'.seen \in {recon.seen, 0}

\* The pack is granted, if it was not, for a paid order or on somebody's word.
Grants ==
    /\ Rows
    /\ pack'.grants = 1 /\ pack'.cash = pack.cash
    /\ provider.paid \/ pack'.vouched
    /\ Granted => pack'.vouched = pack.vouched
    /\ UNCHANGED <<provider, sent, recon>>

\* The step of the abstract settlement.
Settles == [Settlement!Next]_(Settlement!vars)

Kinds ==
    \/ Quiet \/ Moves \/ Grants
    \/ \E level \in Levels : Raises(level)

\* What every kind of step keeps of the rows.
LEMMA RowsKeep ==
    ASSUME LemonAssumption, TypeOK, TypeOK', Inv, Rows, provider' = provider, sent' = sent,
           recon'.seen <= provider.refunded, pack'.cash >= pack.cash
    PROVE  Truthful' /\ RowsHeld' /\ Applied'
<1>1. Truthful'
  <2>1. \A e \in Event : Stored(e)' => Known(e)
    BY DEF Rows, Inv, Truthful
  <2>2. \A e \in sent : Known(e)
    BY DEF Inv, Truthful
  <2> QED
    BY <2>1, <2>2 DEF Truthful, Known
<1>2. RowsHeld'
  BY DEF Rows
<1>3. Applied'
  <2>1. CASE heard' = heard
    BY <2>1, Numbers, NumbersAfter DEF Inv, Applied
  <2>2. CASE pack'.cash >= heard'
    BY <2>2 DEF Applied
  <2> QED
    BY <2>1, <2>2 DEF Rows
<1> QED
  BY <1>1, <1>2, <1>3

LEMMA QuietKeeps ==
    ASSUME LemonAssumption, TypeOK, TypeOK', Inv, Quiet
    PROVE  Inv' /\ Settles
<1>1. pack' = pack /\ provider' = provider /\ sent' = sent
  BY DEF Quiet
<1>2. recon'.seen <= provider.refunded /\ pack'.cash >= pack.cash
  BY <1>1, Numbers DEF Quiet, Inv, Truthful
<1>3. Truthful' /\ RowsHeld' /\ Applied'
  BY <1>1, <1>2, RowsKeep DEF Quiet
<1>4. PackBacked'
  BY <1>1 DEF Quiet, Inv, PackBacked, GrantedOnce, Granted
<1>5. UNCHANGED Settlement!vars
  BY <1>1 DEF Settlement!vars, Granted
<1> QED
  BY <1>3, <1>4, <1>5 DEF Inv, Settles

LEMMA MovesKeeps ==
    ASSUME LemonAssumption, TypeOK, TypeOK', Inv, Moves
    PROVE  Inv' /\ Settles
<1>1. pack' = pack /\ recon' = recon /\ row' = row /\ exec' = exec /\ attempt' = attempt
      /\ admin' = admin /\ heard' = heard
  BY DEF Moves
<1>2. /\ provider'.paid /\ provider'.refunded >= provider.refunded
      /\ ~ provider.paid => provider'.refunded = provider.refunded
  BY DEF Moves
<1>3. ASSUME NEW e \in Event, Known(e)
      PROVE  Known(e)'
  BY <1>2, <1>3, EventShape, Numbers, NumbersAfter DEF Known
<1>4. sent' \subseteq Event /\ sent \subseteq Event
  BY DEF TypeOK
<1>5. Truthful'
  <2>1. \A e \in sent' : Known(e)'
    <3>1. \A e \in sent : Known(e)'
      BY <1>3, <1>4 DEF Inv, Truthful
    <3>2. \A e \in sent' : e \notin sent => Known(e)'
      BY <1>2 DEF Moves, Known
    <3> QED
      BY <3>1, <3>2
  <2>2. \A e \in Event : Stored(e)' => Known(e)'
    BY <1>1, <1>3 DEF Inv, Truthful, Stored
  <2>3. recon'.seen <= provider'.refunded
    BY <1>1, <1>2, Numbers, NumbersAfter DEF Inv, Truthful
  <2> QED
    BY <1>2, <2>1, <2>2, <2>3 DEF Truthful
<1>6. PackBacked'
  <2>1. pack'.cash <= provider'.refunded
    BY <1>1, <1>2, Numbers, NumbersAfter DEF Inv, PackBacked
  <2> QED
    BY <1>1, <1>2, <2>1 DEF Inv, PackBacked, GrantedOnce, Granted
<1>7. RowsHeld' /\ Applied'
  BY <1>1 DEF Inv, RowsHeld, Applied, Stored
<1>8. Settles
  <2>1. provider.paid \in BOOLEAN /\ provider'.paid = TRUE
    BY <1>2, Numbers, NumbersAfter
  <2>2. CASE ~ provider.paid
    <3>1. Settlement!Pay
      BY <1>1, <1>2, <2>1, <2>2 DEF Settlement!Pay, Granted
    <3> QED
      BY <3>1 DEF Settles, Settlement!Next
  <2>3. CASE provider.paid /\ provider'.refunded = provider.refunded
    BY <1>1, <2>1, <2>3 DEF Settles, Settlement!vars, Granted
  <2>4. CASE provider.paid /\ provider'.refunded # provider.refunded
    <3>1. provider'.refunded \in (provider.refunded + 1)..Price
      BY <1>2, <2>4, Numbers, NumbersAfter
    <3>2. Settlement!Refund
      BY <1>1, <2>1, <2>4, <3>1 DEF Settlement!Refund, Granted
    <3> QED
      BY <3>2 DEF Settles, Settlement!Next
  <2> QED
    BY <2>2, <2>3, <2>4
<1> QED
  BY <1>5, <1>6, <1>7, <1>8 DEF Inv

LEMMA RaisesKeeps ==
    ASSUME LemonAssumption, TypeOK, TypeOK', Inv, NEW level \in Levels, Raises(level)
    PROVE  Inv' /\ Settles
<1>1. /\ provider' = provider /\ sent' = sent /\ Granted /\ pack'.grants = pack.grants
      /\ level <= provider.refunded /\ level \in Nat /\ pack'.vouched = pack.vouched
      /\ pack'.cash = IF pack.cash >= level THEN pack.cash ELSE level
  BY LevelsAreNumbers DEF Raises
<1>2. Granted'
  BY <1>1 DEF Granted
<1>3. recon'.seen <= provider.refunded /\ pack'.cash >= pack.cash
  BY <1>1, Numbers DEF Raises, Inv, Truthful
<1>4. Truthful' /\ RowsHeld' /\ Applied'
  BY <1>1, <1>3, RowsKeep DEF Raises
<1>5. pack'.cash <= provider'.refunded
  BY <1>1, Numbers DEF Inv, PackBacked
<1>6. PackBacked'
  BY <1>1, <1>2, <1>5 DEF Inv, PackBacked, GrantedOnce
<1>7. Settles
  <2>1. CASE pack.cash >= level
    BY <1>1, <1>2, <2>1 DEF Settles, Settlement!vars
  <2>2. CASE ~(pack.cash >= level)
    <3>1. pack'.cash \in (pack.cash + 1)..provider.refunded
      BY <1>1, <2>2, Numbers
    <3>2. Settlement!Settle
      BY <1>1, <1>2, <3>1 DEF Settlement!Settle
    <3> QED
      BY <3>2 DEF Settles, Settlement!Next
  <2> QED
    BY <2>1, <2>2
<1> QED
  BY <1>4, <1>6, <1>7 DEF Inv

LEMMA GrantsKeeps ==
    ASSUME LemonAssumption, TypeOK, TypeOK', Inv, Grants
    PROVE  Inv' /\ Settles
<1>1. /\ provider' = provider /\ sent' = sent /\ recon' = recon
      /\ pack'.grants = 1 /\ pack'.cash = pack.cash /\ pack'.vouched \in BOOLEAN
      /\ provider.paid \/ pack'.vouched
      /\ Granted => pack'.vouched = pack.vouched
  BY NumbersAfter DEF Grants
<1>2. Granted'
  BY <1>1 DEF Granted
<1>3. Truthful' /\ RowsHeld' /\ Applied'
  <2>1. recon'.seen <= provider.refunded /\ pack'.cash >= pack.cash
    BY <1>1, Numbers DEF Inv, Truthful
  <2> QED
    BY <1>1, <2>1, RowsKeep DEF Grants
<1>4. PackBacked'
  BY <1>1, <1>2 DEF Inv, PackBacked, GrantedOnce
<1>5. Settles
  <2>1. CASE Granted
    BY <1>1, <1>2, <2>1 DEF Settles, Settlement!vars
  <2>2. CASE ~ Granted
    <3>1. pack'.cash \in 0..provider.refunded
      BY <1>1, Numbers DEF Inv, PackBacked
    <3>2. Settlement!Grant
      BY <1>1, <1>2, <2>2, <3>1 DEF Settlement!Grant
    <3> QED
      BY <3>2 DEF Settles, Settlement!Next
  <2> QED
    BY <2>1, <2>2
<1> QED
  BY <1>3, <1>4, <1>5 DEF Inv


-----------------------------------------------------------------------------
(* Which step is of which kind.                                            *)

LEMMA InitHolds ==
    ASSUME InboxAssumption, LemonAssumption
    PROVE  Init => TypeOK /\ Inv /\ Settlement!Init
<1> SUFFICES ASSUME Init
             PROVE  TypeOK /\ Inv /\ Settlement!Init
  OBVIOUS
<1>1. 0 \in Levels /\ 0 \in 0..MaxTime /\ 0 \in 0..MaxTries /\ 0 \in 0..MaxFaults
  BY DEF Levels, LemonAssumption, InboxAssumption
<1>2. Absent \in Row /\ Absent.status = "absent"
  BY <1>1 DEF Absent, Row, Status
<1>3. InboxTypeOK
  <2>1. row \in [Event -> Row]
    BY <1>2 DEF Init, InboxInit
  <2>2. exec \in [Executor -> [Event -> Phase]]
    BY DEF Init, InboxInit, Phase
  <2>3. try \in [Event -> 0..MaxTries]
    BY <1>1 DEF Init, InboxInit
  <2> QED
    BY <1>1, <2>1, <2>2, <2>3 DEF Init, InboxInit, InboxTypeOK
<1>4. \A e \in Event : ~ Stored(e) /\ row[e].status # "processed"
  BY <1>2 DEF Init, InboxInit, Stored
<1>5. TypeOK
  <2>1. pack \in Pack /\ provider \in Provider /\ recon \in Recon
    BY <1>1 DEF Init, Pack, Provider, Recon
  <2> QED
    BY <1>1, <1>3, <2>1, Parts DEF Init, AttemptStatus
<1>6. Truthful
  BY <1>4 DEF Init, Truthful
<1>7. RowsHeld
  BY DEF Init, InboxInit, RowsHeld
<1>8. PackBacked
  BY DEF Init, PackBacked, GrantedOnce, Granted
<1>9. Applied
  BY DEF Init, Applied
<1>10. Settlement!Init
  BY DEF Init, Settlement!Init, Granted
<1> QED
  BY <1>5, <1>6, <1>7, <1>8, <1>9, <1>10 DEF Inv

\* A step that starts no held execution and acknowledges nothing.
LEMMA RowsFollow ==
    ASSUME TypeOK, Inv, SameRows, NoneStarted, UNCHANGED heard
    PROVE  Rows
<1>1. \A e \in Event : Stored(e)' <=> Stored(e)
  BY DEF SameRows
<1>2. RowsHeld'
  BY <1>1 DEF Inv, RowsHeld, NoneStarted
<1>3. heard' \in Levels
  BY Parts
<1> QED
  BY <1>1, <1>2, <1>3 DEF Rows

\* A step that leaves the inbox as it is.
LEMMA InboxStill ==
    ASSUME InboxTypeOK, UNCHANGED <<row, exec, try, now>>, faults' \in 0..MaxFaults
    PROVE  InboxTypeOK' /\ SameRows /\ NoneStarted /\ NoneFinished
BY DEF InboxTypeOK, SameRows, Stored, NoneStarted, NoneFinished

LEMMA QuietStep ==
    ASSUME LemonAssumption, TypeOK, Inv, InboxTypeOK', Rows, attempt' \in AttemptStatus,
           UNCHANGED <<pack, provider, sent>>, recon' \in Recon,
           recon'.seen \in {recon.seen, 0, provider.refunded},
           recon'.lane = "apply" => Granted,
           admin' \in {"idle", "checked"}
    PROVE  TypeOK' /\ Kinds
<1>1. TypeOK'
  BY Parts, PartsAfter DEF Rows
<1>2. Quiet
  BY DEF Quiet
<1> QED
  BY <1>1, <1>2 DEF Kinds

\* Only the inbox moves.
LEMMA InboxOnly ==
    ASSUME LemonAssumption, TypeOK, Inv, InboxTypeOK', Rows, UNCHANGED money
    PROVE  TypeOK' /\ Kinds
<1>1. UNCHANGED <<attempt, pack, provider, sent, recon, admin, heard>>
  BY DEF money
<1>2. /\ attempt \in AttemptStatus /\ recon \in Recon /\ admin \in {"idle", "checked"}
      /\ (recon.lane = "apply" => Granted)
  BY Parts DEF Inv, PackBacked, Truthful
<1> QED
  BY <1>1, <1>2, QuietStep

\* A pack is granted unless there is one.
LEMMA GrantStep ==
    ASSUME LemonAssumption, TypeOK, Inv, InboxTypeOK', Rows, attempt' \in AttemptStatus,
           NEW at \in 0..MaxTime, NEW word \in BOOLEAN, word \/ provider.paid,
           pack' = GrantPack(at, word), UNCHANGED <<provider, sent, recon>>,
           admin' \in {"idle", admin}
    PROVE  TypeOK' /\ Kinds
<1>1. pack \in Pack /\ admin \in {"idle", "checked"}
  BY Parts
<1>2. /\ pack' \in Pack /\ pack'.grants = 1 /\ pack'.cash = pack.cash
      /\ provider.paid \/ pack'.vouched
      /\ Granted => pack'.vouched = pack.vouched
  <2>1. CASE Granted
    <3>1. pack' = pack
      BY <2>1 DEF GrantPack
    <3>2. pack.grants > 0 /\ pack.grants <= 1 /\ pack.grants \in Nat
      BY <2>1, Numbers DEF Granted, Inv, PackBacked, GrantedOnce
    <3>3. provider.paid \/ pack.vouched
      BY <2>1 DEF Inv, PackBacked
    <3> QED
      BY <1>1, <3>1, <3>2, <3>3
  <2>2. CASE ~ Granted
    <3>1. pack' = [pack EXCEPT !.grants = 1, !.vouched = word, !.at = at]
      BY <2>2 DEF GrantPack
    <3>2. 1 \in 0..2
      OBVIOUS
    <3> QED
      BY <1>1, <2>2, <3>1, <3>2 DEF Pack
  <2> QED
    BY <2>1, <2>2
<1>3. TypeOK'
  BY <1>1, <1>2, Parts, PartsAfter DEF Rows
<1>4. Grants
  BY <1>1, <1>2 DEF Grants
<1> QED
  BY <1>3, <1>4 DEF Kinds

\* apply_refund_reversal.
LEMMA ReverseRaises ==
    ASSUME LemonAssumption, TypeOK, NEW level \in Levels, pack' = Reverse(level)
    PROVE  /\ pack' \in Pack /\ pack'.grants = pack.grants /\ pack'.vouched = pack.vouched
           /\ pack'.cash = IF pack.cash >= level THEN pack.cash ELSE level
<1>1. pack \in Pack /\ pack.cash \in Levels /\ pack.cash \in Nat /\ level \in Nat
  BY Parts, Numbers, LevelsAreNumbers DEF Pack
<1>2. Max({pack.cash, level}) = IF pack.cash >= level THEN pack.cash ELSE level
  BY <1>1, MaxOfTwo
<1>3. pack' = [pack EXCEPT !.cash = Max({pack.cash, level})]
  BY <1>1 DEF Reverse, Pack
<1> QED
  BY <1>1, <1>2, <1>3 DEF Pack

LEMMA RaiseStep ==
    ASSUME LemonAssumption, TypeOK, Inv, InboxTypeOK', Rows, NEW level \in Levels, Granted,
           level <= provider.refunded, pack' = Reverse(level),
           UNCHANGED <<attempt, provider, sent, admin>>, recon' \in Recon,
           recon'.seen \in {recon.seen, 0}
    PROVE  TypeOK' /\ Kinds
<1>1. TypeOK'
  BY ReverseRaises, Parts, PartsAfter DEF Rows
<1>2. Raises(level)
  BY ReverseRaises DEF Raises
<1> QED
  BY <1>1, <1>2 DEF Kinds

-----------------------------------------------------------------------------
(* Lemon Squeezy, the inbox and the attempt.                               *)

\* The order is paid or refunded.
LEMMA ProviderStep ==
    ASSUME LemonAssumption, TypeOK, Inv, Pay \/ \E e \in Event : RefundAt(e)
    PROVE  TypeOK' /\ Kinds
<1>1. UNCHANGED <<inbox, attempt, pack, recon, admin, heard>>
  BY DEF Pay, RefundAt
<1>2. provider \in Provider /\ sent \subseteq Event
  BY Parts
<1>3. /\ provider' \in Provider /\ sent' \subseteq Event
      /\ provider'.paid /\ provider'.refunded >= provider.refunded
      /\ ~ provider.paid => provider'.refunded = provider.refunded
      /\ \A e \in sent' : e \in sent \/ (e.kind = "refund" => e.level <= provider'.refunded)
  <2>1. CASE Pay
    <3>1. provider' = [provider EXCEPT !.paid = TRUE, !.at = now]
          /\ sent' = sent \cup {e \in Event : e.kind = "created"}
      BY <2>1 DEF Pay
    <3>2. provider' \in Provider /\ provider'.paid /\ provider'.refunded = provider.refunded
      BY <1>2, <3>1, Parts DEF Provider, InboxTypeOK
    <3>3. \A e \in sent' : e \in sent \/ e.kind = "created"
      BY <3>1
    <3> QED
      BY <1>2, <3>1, <3>2, <3>3, Numbers
  <2>2. CASE \E e \in Event : RefundAt(e)
    <3>1. PICK e \in Event : RefundAt(e)
      BY <2>2
    <3>2. provider' = [provider EXCEPT !.refunded = e.level] /\ sent' = sent \cup {e}
          /\ provider.paid /\ provider.refunded < e.level
      BY <3>1 DEF RefundAt
    <3>3. e.level \in Levels /\ e.level \in Nat
      BY EventShape
    <3>4. provider' \in Provider /\ provider'.paid /\ provider'.refunded = e.level
      BY <1>2, <3>2, <3>3 DEF Provider
    <3>5. provider'.refunded >= provider.refunded /\ e.level <= provider'.refunded
      BY <3>2, <3>3, <3>4, Numbers
    <3> QED
      BY <1>2, <3>2, <3>4, <3>5
  <2> QED
    BY <2>1, <2>2
<1>4. InboxTypeOK' /\ UNCHANGED <<row, exec>>
  BY <1>1, Parts DEF inbox, InboxTypeOK
<1>5. TypeOK'
  BY <1>1, <1>3, <1>4, Parts, PartsAfter
<1>6. Moves
  BY <1>1, <1>3, <1>4 DEF Moves
<1> QED
  BY <1>5, <1>6 DEF Kinds

\* A webhook is delivered.
LEMMA DeliverStep ==
    ASSUME InboxAssumption, LemonAssumption, TypeOK, Inv, NEW e \in Event, Deliver(e)
    PROVE  TypeOK' /\ Kinds
<1>1. Known(e) /\ Insert(e) /\ UNCHANGED money /\ InboxTypeOK
  BY Parts DEF Deliver, Inv, Truthful
<1>2. InboxTypeOK' /\ RowAdded(e) /\ NoneStarted /\ NoneFinished
  BY <1>1, InsertTyped, InsertLeaves
<1>3. Rows
  <2>1. \A f \in Event : Stored(f)' => Stored(f) \/ Known(f)
    BY <1>1, <1>2 DEF RowAdded
  <2>2. RowsHeld'
    BY <1>2 DEF Inv, RowsHeld, NoneStarted, RowAdded
  <2>3. heard' \in Levels /\ heard' = heard
    BY <1>1, Parts DEF money
  <2> QED
    BY <2>1, <2>2, <2>3 DEF Rows
<1> QED
  BY <1>1, <1>2, <1>3, InboxOnly

\* A processed row is purged.
LEMMA PurgeRowStep ==
    ASSUME InboxAssumption, LemonAssumption, TypeOK, Inv, NEW e \in Event, PurgeRow(e),
           UNCHANGED money
    PROVE  TypeOK' /\ Kinds
<1>1. InboxTypeOK
  BY Parts
<1>2. /\ InboxTypeOK' /\ NoneStarted /\ NoneFinished
      /\ \A f \in Event : Stored(f)' <=> Stored(f) /\ f # e
      /\ \A x \in Executor : exec'[x][e] = "none"
  BY <1>1, PurgeRowTyped, PurgeRowLeaves
<1>3. Rows
  <2>1. RowsHeld'
    <3> SUFFICES ASSUME NEW x \in Executor, NEW f \in Event, exec'[x][f] = "nopack"
                 PROVE  Stored(f)'
      BY DEF RowsHeld
    <3>1. f # e
      BY <1>2
    <3>2. Stored(f)
      BY <1>2 DEF NoneStarted, Inv, RowsHeld
    <3> QED
      BY <1>2, <3>1, <3>2
  <2>2. heard' \in Levels /\ heard' = heard
    BY Parts DEF money
  <2> QED
    BY <1>2, <2>1, <2>2 DEF Rows
<1> QED
  BY <1>2, <1>3, InboxOnly

\* The inbox moves on its own.
LEMMA InboxMoves ==
    ASSUME InboxAssumption, LemonAssumption, TypeOK, Inv, UNCHANGED money,
           \/ \E e \in Event : InboxStep("job", e)
           \/ \E e \in Event : Crash(e)
           \/ Sweep \/ Tick
    PROVE  TypeOK' /\ Kinds
<1>1. InboxTypeOK /\ "job" \in Executor
  BY Parts DEF Executor
<1>2. InboxTypeOK' /\ SameRows /\ NoneStarted /\ NoneFinished
  <2>1. CASE \E e \in Event : InboxStep("job", e)
    BY <1>1, <2>1, InboxStepTyped, InboxStepLeaves
  <2>2. CASE \E e \in Event : Crash(e)
    BY <1>1, <2>2, CrashTyped, CrashLeaves
  <2>3. CASE Sweep
    <3>1. Requeue(FALSE)
      BY <2>3 DEF Sweep
    <3> QED
      BY <1>1, <3>1, RequeueTyped, RequeueLeaves
  <2>4. CASE Tick
    <3>1. InboxTypeOK' /\ SameRows
      BY <1>1, <2>4, TickTyped
    <3> QED
      BY <2>4, <3>1 DEF Tick, NoneStarted, NoneFinished
  <2> QED
    BY <2>1, <2>2, <2>3, <2>4
<1>3. Rows
  BY <1>2, RowsFollow DEF money
<1> QED
  BY <1>2, <1>3, InboxOnly

LEMMA StutterStep ==
    ASSUME LemonAssumption, TypeOK, Inv, UNCHANGED vars
    PROVE  TypeOK' /\ Kinds
<1>1. InboxTypeOK /\ faults \in 0..MaxFaults /\ UNCHANGED <<row, exec, try, now, faults>>
  BY Parts DEF vars, inbox, InboxTypeOK
<1>2. UNCHANGED money
  BY DEF vars
<1>3. InboxTypeOK' /\ SameRows /\ NoneStarted /\ NoneFinished
  BY <1>1, InboxStill
<1>4. Rows
  BY <1>2, <1>3, RowsFollow DEF money
<1> QED
  BY <1>2, <1>3, <1>4, InboxOnly

\* An attempt that is over is purged.
LEMMA PurgeAttemptStep ==
    ASSUME LemonAssumption, TypeOK, Inv, PurgeAttempt
    PROVE  TypeOK' /\ Kinds
<1>1. UNCHANGED <<inbox, pack, provider, sent, recon, admin, heard>> /\ attempt' = "purged"
  BY DEF PurgeAttempt
<1>2. InboxTypeOK /\ faults \in 0..MaxFaults /\ UNCHANGED <<row, exec, try, now, faults>>
  BY <1>1, Parts DEF inbox, InboxTypeOK
<1>3. InboxTypeOK' /\ SameRows /\ NoneStarted /\ NoneFinished
  BY <1>2, InboxStill
<1>4. Rows
  BY <1>1, <1>3, RowsFollow
<1>5. /\ recon \in Recon /\ admin \in {"idle", "checked"}
      /\ (recon.lane = "apply" => Granted)
  BY Parts DEF Inv, PackBacked, Truthful
<1>6. attempt' \in AttemptStatus
  BY <1>1 DEF AttemptStatus
<1> QED
  BY <1>1, <1>3, <1>4, <1>5, <1>6, QuietStep

-----------------------------------------------------------------------------
(* The handlers.                                                           *)

\* A handler commits: its row is processed now.
LEMMA FinishTyped ==
    ASSUME InboxAssumption, InboxTypeOK, NEW x \in Executor, NEW e \in Event,
           Stored(e), Finish(x, e)
    PROVE  /\ InboxTypeOK' /\ SameRows /\ NoneStarted
           /\ \A f \in Event : f # e => row'[f] = row[f]
           /\ row'[e].at = row[e].at /\ row'[e].done = now
<1> DEFINE r == Processed(row[e])
<1>1. row[e] \in Row /\ now \in 0..MaxTime /\ "processed" \in Status
  BY DEF InboxTypeOK, Status
<1>2. r \in Row /\ r.status = "processed"
  BY <1>1, RowShapes
<1>3. row' = [row EXCEPT ![e] = r] /\ r.at = row[e].at /\ r.done = now
  BY <1>1 DEF Finish, InboxTypeOK, Processed, Row
<1> HIDE DEF r
<1>4. /\ row' \in [Event -> Row] /\ row'[e] = r
      /\ \A f \in Event : f # e => row'[f] = row[f]
  BY <1>2, <1>3, RowWritten
<1>5. SameRows
  BY <1>2, <1>4 DEF SameRows, Stored
<1>6. exec' \in [Executor -> [Event -> Phase]]
  BY LeaveTyped DEF Finish
<1>7. NoneStarted
  BY PhaseStarted DEF Finish, Leave
<1> QED
  BY <1>3, <1>4, <1>5, <1>6, <1>7 DEF Finish, InboxTypeOK

\* A handler finishes a row, and what it acknowledges is on the pack.
LEMMA RowFinished ==
    ASSUME Inv, SameRows, NoneStarted, heard' \in Levels, heard' = heard \/ pack'.cash >= heard'
    PROVE  Rows
<1>1. \A f \in Event : Stored(f)' <=> Stored(f)
  BY DEF SameRows
<1>2. RowsHeld'
  BY <1>1 DEF Inv, RowsHeld, NoneStarted
<1> QED
  BY <1>1, <1>2 DEF Rows

LEMMA CreatedStep ==
    ASSUME InboxAssumption, LemonAssumption, TypeOK, Inv, NEW e \in Event,
           HandleCreated("job", e)
    PROVE  TypeOK' /\ Kinds
<1>1. /\ "job" \in Executor /\ InboxTypeOK /\ Stored(e) /\ e.kind = "created"
      /\ Finish("job", e) /\ UNCHANGED <<provider, sent, recon, admin, heard>>
      /\ heard \in Levels
  BY Parts DEF HandleCreated, Handling, Executor, Stored
<1>2. /\ InboxTypeOK' /\ SameRows /\ NoneStarted
      /\ \A f \in Event : f # e => row'[f] = row[f]
  BY <1>1, FinishTyped
<1>3. provider.paid
  BY <1>1 DEF Inv, Truthful, Known
<1>4. /\ attempt \in AttemptStatus /\ recon \in Recon /\ admin \in {"idle", "checked"}
      /\ (recon.lane = "apply" => Granted)
  BY Parts DEF Inv, PackBacked
<1>5. CASE attempt \in {"provider_created", "completed"}
  <2>1. attempt' = "completed" /\ pack' = GrantPack(provider.at, FALSE)
    BY <1>5 DEF HandleCreated
  <2>2. Rows
    BY <1>1, <1>2, <1>5, RowFinished
  <2>3. attempt' \in AttemptStatus
    BY <2>1 DEF AttemptStatus
  <2>4. provider.at \in 0..MaxTime
    BY Parts DEF Provider
  <2> QED
    BY <1>1, <1>2, <1>3, <2>1, <2>2, <2>3, <2>4, GrantStep
<1>6. CASE attempt \notin {"provider_created", "completed"}
  <2>1. attempt' = attempt /\ pack' = pack
    BY <1>6 DEF HandleCreated
  <2>2. Rows
    BY <1>1, <1>2, <2>1, RowFinished
  <2> QED
    BY <1>1, <1>2, <1>3, <1>4, <2>1, <2>2, QuietStep
<1> QED
  BY <1>5, <1>6

\* What is acknowledged counts in time only, and with the proof of the attempt.
LEMMA AcknowledgeStep ==
    ASSUME LemonAssumption, TypeOK, NEW e \in Event, Acknowledge(e)
    PROVE  /\ heard' \in {heard, e.level}
           /\ attempt = "purged" \/ ~(now - row[e].at <= GiveUpAge) => heard' = heard
<1>1. e.level \in Nat /\ heard \in Nat
  BY EventShape, Numbers
<1>2. Max({heard, e.level}) \in {heard, e.level}
  BY <1>1, MaxOfTwo
<1> QED
  BY <1>2 DEF Acknowledge

LEMMA RefundStep ==
    ASSUME InboxAssumption, LemonAssumption, TypeOK, Inv, NEW e \in Event,
           HandleRefund("job", e)
    PROVE  TypeOK' /\ Kinds
<1>1. /\ "job" \in Executor /\ InboxTypeOK /\ Stored(e) /\ e.kind = "refund" /\ Granted
      /\ Finish("job", e) /\ pack' = Reverse(e.level) /\ Acknowledge(e)
      /\ UNCHANGED <<attempt, provider, sent, recon, admin>>
  BY Parts DEF HandleRefund, Handling, Executor, Stored
<1>2. /\ InboxTypeOK' /\ SameRows /\ NoneStarted
      /\ \A f \in Event : f # e => row'[f] = row[f]
  BY <1>1, FinishTyped
<1>3. e.level \in Levels /\ e.level \in Nat /\ e.level <= provider.refunded /\ recon \in Recon
  BY <1>1, EventShape, Parts DEF Inv, Truthful, Known
<1>4. heard' \in Levels /\ (heard' = heard \/ pack'.cash >= heard')
  <2>1. heard \in Levels /\ heard \in Nat /\ pack.cash \in Nat /\ pack.cash >= heard
    BY Parts, Numbers DEF Inv, Applied
  <2>2. pack'.cash = IF pack.cash >= e.level THEN pack.cash ELSE e.level
    BY <1>1, <1>3, ReverseRaises
  <2>3. heard' \in {heard, e.level}
    BY <1>1, <1>3, AcknowledgeStep
  <2> QED
    BY <1>3, <2>1, <2>2, <2>3
<1>5. Rows
  BY <1>1, <1>2, <1>4, RowFinished
<1> QED
  BY <1>1, <1>2, <1>3, <1>5, RaiseStep

\* The refund handler finds no pack, and goes on.
LEMMA NoPackStep ==
    ASSUME InboxAssumption, LemonAssumption, TypeOK, Inv, NEW e \in Event,
           RefundFindsNoPack("job", e)
    PROVE  TypeOK' /\ Kinds
<1>1. /\ InboxTypeOK /\ Stored(e) /\ "job" \in Executor /\ "nopack" \in Phase
      /\ exec' = [exec EXCEPT !["job"][e] = "nopack"]
      /\ UNCHANGED <<row, try, now, faults, money>>
  BY Parts DEF RefundFindsNoPack, Handling, Stored, Executor, Phase
<1>2. exec' \in [Executor -> [Event -> Phase]]
  BY <1>1, ExecWritten
<1>3. InboxTypeOK'
  BY <1>1, <1>2 DEF InboxTypeOK
<1>4. RowsHeld'
  <2> SUFFICES ASSUME NEW x \in Executor, NEW f \in Event, exec'[x][f] = "nopack"
               PROVE  Stored(f)
    BY <1>1 DEF RowsHeld, Stored
  <2>1. f = e \/ exec[x][f] = "nopack"
    BY <1>1 DEF InboxTypeOK
  <2> QED
    BY <1>1, <2>1 DEF Inv, RowsHeld
<1>5. heard' = heard /\ heard \in Levels
  BY <1>1, Parts DEF money
<1>6. Rows
  BY <1>1, <1>4, <1>5 DEF Rows, Stored
<1> QED
  BY <1>1, <1>3, <1>6, InboxOnly

LEMMA WithoutPackStep ==
    ASSUME InboxAssumption, LemonAssumption, TypeOK, Inv, NEW e \in Event,
           RefundWithoutPack("job", e)
    PROVE  TypeOK' /\ Kinds
<1>1. /\ InboxTypeOK /\ Stored(e) /\ "job" \in Executor
      /\ UNCHANGED <<try, now, faults, attempt, pack, provider, sent, recon, admin>>
      /\ row[e] \in Row /\ now \in 0..MaxTime /\ MaxTime \in Nat /\ GiveUpAge \in Nat
      /\ row[e].at \in 0..MaxTime
  BY Parts DEF RefundWithoutPack, Inv, RowsHeld, Executor, InboxTypeOK, Row,
     InboxAssumption, LemonAssumption
<1>2. /\ attempt \in AttemptStatus /\ recon \in Recon /\ admin \in {"idle", "checked"}
      /\ (recon.lane = "apply" => Granted)
      /\ heard \in Levels
  BY Parts DEF Inv, PackBacked, Truthful
<1>3. InboxTypeOK' /\ Rows
  <2>1. CASE attempt = "purged" \/ GiveUp(e)
    <3>1. Finish("job", e)
      BY <1>1, <2>1 DEF RefundWithoutPack, Finish
    <3>2. InboxTypeOK' /\ SameRows /\ NoneStarted
      BY <1>1, <3>1, FinishTyped
    <3>3. attempt = "purged" \/ ~(now - row[e].at <= GiveUpAge)
      <4>1. CASE attempt = "purged"
        BY <4>1
      <4>2. CASE GiveUp(e)
        <5>1. now - row[e].at > GiveUpAge
          BY <4>2 DEF GiveUp
        <5> QED
          BY <1>1, <5>1
      <4> QED
        BY <2>1, <4>1, <4>2
    <3>4. Acknowledge(e)
      BY <2>1 DEF RefundWithoutPack
    <3>5. heard' = heard
      BY <3>3, <3>4, AcknowledgeStep
    <3> QED
      BY <1>2, <3>2, <3>5, RowFinished
  <2>2. CASE ~(attempt = "purged" \/ GiveUp(e))
    <3> DEFINE r == [row[e] EXCEPT !.status = "received", !.parked = TRUE]
    <3>1. Park("job", e)
      BY <2>2 DEF RefundWithoutPack
    <3>2. r \in Row /\ r.status = "received"
      BY <1>1 DEF Row, Status
    <3>3. row' = [row EXCEPT ![e] = r]
      BY <1>1, <3>1 DEF Park, InboxTypeOK
    <3> HIDE DEF r
    <3>4. /\ row' \in [Event -> Row] /\ row'[e] = r
          /\ \A f \in Event : f # e => row'[f] = row[f]
      BY <1>1, <3>2, <3>3, RowWritten
    <3>5. exec' \in [Executor -> [Event -> Phase]]
      BY <1>1, <3>1, LeaveTyped DEF Park
    <3>6. SameRows
      BY <1>1, <3>2, <3>4 DEF SameRows, Stored
    <3>7. NoneStarted
      BY <1>1, <3>1, PhaseStarted DEF Park, Leave
    <3>8. heard' = heard
      BY <2>2 DEF RefundWithoutPack
    <3>9. Rows
      BY <1>2, <3>6, <3>7, <3>8, RowFinished
    <3> QED
      BY <1>1, <3>4, <3>5, <3>9 DEF InboxTypeOK
  <2> QED
    BY <2>1, <2>2
<1> QED
  BY <1>1, <1>2, <1>3, QuietStep

-----------------------------------------------------------------------------
(* The administrator and the reconcile lanes.                              *)

LEMMA AdminStep ==
    ASSUME LemonAssumption, TypeOK, Inv, AdminCheck \/ AdminGrant
    PROVE  TypeOK' /\ Kinds
<1>1. UNCHANGED <<inbox, attempt, provider, sent, recon, heard>>
  BY DEF AdminCheck, AdminGrant
<1>2. InboxTypeOK /\ faults \in 0..MaxFaults /\ UNCHANGED <<row, exec, try, now, faults>>
  BY <1>1, Parts DEF inbox, InboxTypeOK
<1>3. InboxTypeOK' /\ SameRows /\ NoneStarted /\ NoneFinished
  BY <1>2, InboxStill
<1>4. Rows
  BY <1>1, <1>3, RowsFollow
<1>5. attempt \in AttemptStatus /\ recon \in Recon /\ (recon.lane = "apply" => Granted)
  BY Parts DEF Inv, PackBacked
<1>6. CASE AdminCheck
  <2>1. admin' = "checked" /\ UNCHANGED pack
    BY <1>6 DEF AdminCheck
  <2> QED
    BY <1>1, <1>3, <1>4, <1>5, <2>1, QuietStep
<1>7. CASE AdminGrant
  <2>1. admin' = "idle" /\ pack' = GrantPack(now, TRUE) /\ now \in 0..MaxTime
    BY <1>2, <1>7 DEF AdminGrant, InboxTypeOK
  <2> QED
    BY <1>1, <1>3, <1>4, <1>5, <2>1, GrantStep
<1> QED
  BY <1>6, <1>7

LEMMA LaneStep ==
    ASSUME InboxAssumption, LemonAssumption, TypeOK, Inv,
           Lane1 \/ Lane2Read \/ Lane2Fails \/ Lane3 \/ ReconcileDies
    PROVE  TypeOK' /\ Kinds
<1>1. /\ attempt \in AttemptStatus /\ recon \in Recon /\ InboxTypeOK /\ provider \in Provider
      /\ admin \in {"idle", "checked"}
      /\ (recon.lane = "apply" => Granted)
  BY Parts DEF Inv, PackBacked, Truthful
<1>2. UNCHANGED <<pack, provider, sent, admin, heard>>
  BY DEF Lane1, Lane2Read, Lane2Fails, Lane3, ReconcileDies
<1>3. recon' \in Recon /\ recon'.seen \in {recon.seen, 0, provider.refunded}
      /\ (recon'.lane = "apply" => Granted)
  <2>1. 0 \in Levels /\ provider.refunded \in Levels
    BY <1>1, LevelsAreNumbers DEF Provider
  <2>2. CASE Lane1
    BY <1>1, <2>2 DEF Lane1, Recon
  <2>3. CASE Lane2Read
    BY <1>1, <2>1, <2>3 DEF Lane2Read, Recon
  <2>4. CASE Lane2Fails
    BY <1>1, <2>4 DEF Lane2Fails, Recon
  <2>5. CASE Lane3
    BY <1>1, <2>5 DEF Lane3, Recon
  <2>6. CASE ReconcileDies
    BY <2>1, <2>6 DEF ReconcileDies, Recon
  <2> QED
    BY <2>2, <2>3, <2>4, <2>5, <2>6
<1>4. InboxTypeOK' /\ SameRows /\ NoneStarted /\ NoneFinished
  <2>1. CASE Lane1
    <3>1. Requeue(TRUE)
      BY <2>1 DEF Lane1
    <3> QED
      BY <1>1, <3>1, RequeueTyped, RequeueLeaves
  <2>2. CASE ~ Lane1
    <3>1. faults' \in 0..MaxFaults
      BY <1>1, <2>2, FaultTyped DEF Lane2Read, Lane2Fails, Lane3, ReconcileDies, inbox
    <3>2. UNCHANGED <<row, exec, try, now>>
      BY <2>2 DEF Lane2Read, Lane2Fails, Lane3, ReconcileDies, inbox
    <3> QED
      BY <1>1, <3>1, <3>2, InboxStill
  <2> QED
    BY <2>1, <2>2
<1>5. attempt' \in AttemptStatus
  <2>1. CASE Lane3
    BY <1>1, <2>1 DEF Lane3, AttemptStatus
  <2>2. CASE ~ Lane3
    BY <1>1, <2>2 DEF Lane1, Lane2Read, Lane2Fails, ReconcileDies
  <2> QED
    BY <2>1, <2>2
<1>6. Rows
  BY <1>2, <1>4, RowsFollow
<1> QED
  BY <1>1, <1>2, <1>3, <1>4, <1>5, <1>6, QuietStep

\* Lane 2 applies what it read.
LEMMA Lane2ApplyStep ==
    ASSUME LemonAssumption, TypeOK, Inv, Lane2Apply
    PROVE  TypeOK' /\ Kinds
<1>1. /\ UNCHANGED <<inbox, attempt, provider, sent, admin, heard>> /\ pack' = Reverse(recon.seen)
      /\ recon' = [lane |-> "lane3", seen |-> 0]
      /\ Granted /\ recon.seen <= provider.refunded
  BY DEF Lane2Apply, Inv, PackBacked, Truthful
<1>2. InboxTypeOK /\ faults \in 0..MaxFaults /\ UNCHANGED <<row, exec, try, now, faults>>
  BY <1>1, Parts DEF inbox, InboxTypeOK
<1>3. InboxTypeOK' /\ SameRows /\ NoneStarted /\ NoneFinished
  BY <1>2, InboxStill
<1>4. Rows
  BY <1>1, <1>3, RowsFollow
<1>5. recon.seen \in Levels /\ recon' \in Recon
  BY <1>1, Parts, LevelsAreNumbers DEF Recon
<1> QED
  BY <1>1, <1>3, <1>4, <1>5, RaiseStep

-----------------------------------------------------------------------------
(* Every step.                                                             *)

LEMMA StepKinds ==
    ASSUME InboxAssumption, LemonAssumption, TypeOK, Inv, [Next]_vars
    PROVE  TypeOK' /\ Kinds
<1>1. CASE Pay \/ \E e \in Event : RefundAt(e)
  BY <1>1, ProviderStep
<1>2. CASE \E e \in Event : Deliver(e)
  BY <1>2, DeliverStep
<1>3. CASE \/ (\E e \in Event : InboxStep("job", e)) /\ UNCHANGED money
           \/ (\E e \in Event : Crash(e)) /\ UNCHANGED money
           \/ (Sweep \/ Tick) /\ UNCHANGED money
  BY <1>3, InboxMoves
<1>4. CASE \E e \in Event : \/ HandleCreated("job", e) \/ HandleRefund("job", e)
                            \/ RefundFindsNoPack("job", e) \/ RefundWithoutPack("job", e)
  BY <1>4, CreatedStep, RefundStep, NoPackStep, WithoutPackStep
<1>5. CASE AdminCheck \/ AdminGrant
  BY <1>5, AdminStep
<1>6. CASE Lane1 \/ Lane2Read \/ Lane2Fails \/ Lane3 \/ ReconcileDies
  BY <1>6, LaneStep
<1>7. CASE Lane2Apply
  BY <1>7, Lane2ApplyStep
<1>8. CASE (\E e \in Event : PurgeRow(e)) /\ UNCHANGED money
  BY <1>8, PurgeRowStep
<1>9. CASE PurgeAttempt
  BY <1>9, PurgeAttemptStep
<1>10. CASE UNCHANGED vars
  BY <1>10, StutterStep
<1> QED
  BY <1>1, <1>2, <1>3, <1>4, <1>5, <1>6, <1>7, <1>8, <1>9, <1>10
  DEF Next, Processor, Reconcile, SweepRows

LEMMA StepHolds ==
    ASSUME InboxAssumption, LemonAssumption, TypeOK, Inv, [Next]_vars
    PROVE  TypeOK' /\ Inv' /\ Settles
<1>1. TypeOK' /\ Kinds
  BY StepKinds
<1> QED
  BY <1>1, QuietKeeps, MovesKeeps, RaisesKeeps, GrantsKeeps DEF Kinds

(***************************************************************************)
(* The rows, executions, lanes and amounts of one Lemon Squeezy order keep *)
(* their types.                                                            *)
(***************************************************************************)
THEOREM LemonTypes ==
    ASSUME InboxAssumption, LemonAssumption
    PROVE  Spec => []TypeOK
<1>1. Init => TypeOK /\ Inv
  BY InitHolds
<1>2. TypeOK /\ Inv /\ [Next]_vars => (TypeOK /\ Inv)'
  BY StepHolds
<1> QED
  BY <1>1, <1>2, PTL DEF Spec

(***************************************************************************)
(* Deliveries with different payloads, their retries and the               *)
(* administrator, who looks for the pack without a lock, grant an order at *)
(* most once.                                                              *)
(***************************************************************************)
THEOREM OneGrantPerOrder ==
    ASSUME InboxAssumption, LemonAssumption
    PROVE  Spec => []GrantedOnce
<1>1. Init => TypeOK /\ Inv
  BY InitHolds
<1>2. TypeOK /\ Inv /\ [Next]_vars => (TypeOK /\ Inv)'
  BY StepHolds
<1>3. Inv => GrantedOnce
  BY DEF Inv, PackBacked
<1> QED
  BY <1>1, <1>2, <1>3, PTL DEF Spec

(***************************************************************************)
(* A refund acknowledged within a day of its arrival, with its attempt     *)
(* still there, has been taken from the pack: a refund that came first is  *)
(* parked and retried, and never acknowledged between the look-up of the   *)
(* pack and the grant.                                                     *)
(***************************************************************************)
THEOREM EarlyRefundTaken ==
    ASSUME InboxAssumption, LemonAssumption
    PROVE  Spec => []RefundRemembered
<1>1. Init => TypeOK /\ Inv
  BY InitHolds
<1>2. TypeOK /\ Inv /\ [Next]_vars => (TypeOK /\ Inv)'
  BY StepHolds
<1>3. Inv => RefundRemembered
  BY DEF Inv, Applied, RefundRemembered
<1> QED
  BY <1>1, <1>2, <1>3, PTL DEF Spec

(***************************************************************************)
(* Billing through Lemon Squeezy implements the same abstract settlement   *)
(* as billing through Razorpay, without a lock that joins refund and       *)
(* grant: a pack only for captured money, or on the administrator's word,  *)
(* which nobody checks against the provider.                               *)
(***************************************************************************)
THEOREM LemonImplementsSettlement ==
    ASSUME InboxAssumption, LemonAssumption
    PROVE  Spec => SettlesPayment
<1>1. Init => TypeOK /\ Inv /\ Settlement!Init
  BY InitHolds
<1>2. TypeOK /\ Inv /\ [Next]_vars => (TypeOK /\ Inv)' /\ [Settlement!Next]_(Settlement!vars)
  BY StepHolds DEF Settles
<1> QED
  BY <1>1, <1>2, PTL DEF Spec, SettlesPayment, Settlement!Spec

=============================================================================
