------------------------- MODULE BillingInboxProofs -------------------------
(***************************************************************************)
(* Lemmas about BillingInbox that the proofs about both payment providers  *)
(* share: what each step of the inbox does to its rows, which of them are  *)
(* stored before and after, and the maxima that settlement takes.          *)
(***************************************************************************)
EXTENDS BillingInbox, FiniteSetsExt, WellFoundedInduction, TLAPS

-----------------------------------------------------------------------------
(* Maxima.                                                                 *)

\* A set of numbers up to a bound, as the refund levels up to the price, has a greatest one.
LEMMA MaxExists ==
    ASSUME NEW N \in Nat, NEW S \in SUBSET (0..N), S # {}
    PROVE  \E m \in S : \A k \in S : m >= k
<1> DEFINE T == {n \in Nat : N - n \in S}
<1>1. S \subseteq 0..N
  OBVIOUS
<1>2. T \subseteq Nat /\ T # {}
  <2>1. PICK k \in S : TRUE
    OBVIOUS
  <2>2. k \in Nat /\ k <= N
    BY <1>1
  <2>3. N - k \in Nat /\ N - (N - k) = k
    BY <2>2
  <2> QED
    BY <2>1, <2>3
<1>3. PICK n \in T : \A y \in T : ~(<<y, n>> \in OpToRel(<, Nat))
  <2>1. IsWellFoundedOn(OpToRel(<, Nat), Nat)
    BY NatLessThanWellFounded
  <2> HIDE DEF T
  <2> QED
    BY <1>2, <2>1, WFMin
<1>4. \A y \in T : ~(y < n)
  BY <1>3 DEF OpToRel
<1>5. N - n \in S /\ n \in Nat
  OBVIOUS
<1>6. ASSUME NEW k \in S
      PROVE  N - n >= k
  <2>1. k \in Nat /\ k <= N
    BY <1>1
  <2>2. N - k \in T
    BY <2>1
  <2> QED
    BY <1>4, <1>5, <2>1, <2>2
<1> QED
  BY <1>5, <1>6

\* Max chooses that level.
LEMMA MaxIsMax ==
    ASSUME NEW N \in Nat, NEW S \in SUBSET (0..N), S # {}
    PROVE  Max(S) \in S /\ \A k \in S : Max(S) >= k
BY MaxExists DEF Max

\* Of two numbers.
LEMMA MaxOfTwo ==
    ASSUME NEW a \in Nat, NEW b \in Nat
    PROVE  Max({a, b}) = IF a >= b THEN a ELSE b
<1> DEFINE m == IF a >= b THEN a ELSE b
<1>1. m \in {a, b} /\ \A y \in {a, b} : m >= y
  OBVIOUS
<1>2. \A x \in {a, b} : (\A y \in {a, b} : x >= y) => x = m
  OBVIOUS
<1> QED
  BY <1>1, <1>2 DEF Max

LEMMA MinOfTwo ==
    ASSUME NEW a \in Nat, NEW b \in Nat
    PROVE  Min({a, b}) = IF a <= b THEN a ELSE b
<1> DEFINE m == IF a <= b THEN a ELSE b
<1>1. m \in {a, b} /\ \A y \in {a, b} : m <= y
  OBVIOUS
<1>2. \A x \in {a, b} : (\A y \in {a, b} : x <= y) => x = m
  OBVIOUS
<1> QED
  BY <1>1, <1>2 DEF Min

-----------------------------------------------------------------------------
(* The inbox.                                                              *)

Stored(e) == row[e].status # "absent"

\* No row is added or purged.
SameRows == \A e \in Event : Stored(e)' <=> Stored(e)

\* The row of e is stored, if it was not.
RowAdded(e) == \A f \in Event : Stored(f)' <=> Stored(f) \/ f = e

\* The statuses a row can be given.
LEMMA RowShapes ==
    ASSUME InboxAssumption, NEW r \in Row, now \in 0..MaxTime, NEW status \in Status
    PROVE  /\ Absent \in Row
           /\ [r EXCEPT !.status = status] \in Row
           /\ [r EXCEPT !.status = status].status = status
           /\ Processed(r) \in Row /\ Processed(r).status = "processed"
           /\ Failed(r) \in Row /\ Failed(r).status = "failed"
<1>1. Absent \in Row
  BY DEF Absent, Row, Status, InboxAssumption
<1>2. Processed(r) \in Row /\ Processed(r).status = "processed"
  BY DEF Processed, Row, Status
<1>3. Failed(r) \in Row /\ Failed(r).status = "failed"
  <2> DEFINE tries == IF r.retries < MaxTries THEN r.retries + 1 ELSE r.retries
  <2>1. tries \in 0..MaxTries
    BY DEF Row, InboxAssumption
  <2>2. Failed(r) = [r EXCEPT !.status = "failed", !.parked = FALSE, !.retries = tries]
    BY DEF Failed
  <2> HIDE DEF tries
  <2> QED
    BY <2>1, <2>2 DEF Row, Status
<1> QED
  BY <1>1, <1>2, <1>3 DEF Row

\* A row received now.
LEMMA ReceivedShape ==
    ASSUME InboxAssumption, now \in 0..MaxTime
    PROVE  LET r == [Absent EXCEPT !.status = "received", !.at = now]
           IN  r \in Row /\ r.status = "received"
<1>1. Absent \in Row
  BY DEF Absent, Row, Status, InboxAssumption
<1> QED
  BY <1>1 DEF Row, Status

\* One row changes its contents.
LEMMA RowWritten ==
    ASSUME InboxTypeOK, NEW e \in Event, NEW r \in Row, row' = [row EXCEPT ![e] = r]
    PROVE  /\ row' \in [Event -> Row]
           /\ row'[e] = r
           /\ \A f \in Event : f # e => row'[f] = row[f]
BY DEF InboxTypeOK

\* One execution changes its phase.
LEMMA ExecWritten ==
    ASSUME InboxTypeOK, NEW x \in Executor, NEW e \in Event, NEW phase \in Phase,
           exec' = [exec EXCEPT ![x][e] = phase]
    PROVE  exec' \in [Executor -> [Event -> Phase]]
BY DEF InboxTypeOK

LEMMA LeaveTyped ==
    ASSUME InboxTypeOK, NEW x \in Executor, NEW e \in Event, Leave(x, e)
    PROVE  exec' \in [Executor -> [Event -> Phase]]
BY ExecWritten DEF Leave, Phase

LEMMA FaultTyped ==
    ASSUME InboxAssumption, InboxTypeOK, Fault \/ UNCHANGED faults
    PROVE  faults' \in 0..MaxFaults
BY DEF InboxTypeOK, Fault, InboxAssumption

\* What is put on the queue.
LEMMA EnqueueTyped ==
    ASSUME InboxAssumption, InboxTypeOK, NEW S,
           \/ Enqueue(S) /\ UNCHANGED faults
           \/ Fault /\ UNCHANGED <<exec, try>>
    PROVE  /\ exec' \in [Executor -> [Event -> Phase]]
           /\ try' \in [Event -> 0..MaxTries]
           /\ faults' \in 0..MaxFaults
<1>1. faults' \in 0..MaxFaults
  BY FaultTyped
<1>2. CASE UNCHANGED <<exec, try>>
  BY <1>1, <1>2 DEF InboxTypeOK
<1>3. CASE Enqueue(S)
  <2> DEFINE queue == [e \in Event |-> IF e \in Fresh(S) THEN "queued" ELSE exec["job"][e]]
  <2>1. exec \in [Executor -> [Event -> Phase]] /\ "job" \in Executor
    BY DEF InboxTypeOK, Executor
  <2>2. queue \in [Event -> Phase]
    BY <2>1 DEF Phase
  <2>3. exec' = [exec EXCEPT !["job"] = queue]
    BY <1>3, <2>1 DEF Enqueue
  <2> HIDE DEF queue
  <2>4. exec' \in [Executor -> [Event -> Phase]]
    BY <2>1, <2>2, <2>3
  <2>5. try' \in [Event -> 0..MaxTries]
    BY <1>3 DEF Enqueue, InboxTypeOK, InboxAssumption
  <2> QED
    BY <1>1, <2>4, <2>5
<1> QED
  BY <1>2, <1>3

\* What becomes of a failed try.
LEMMA RerunTyped ==
    ASSUME InboxAssumption, InboxTypeOK, NEW x \in Executor, NEW e \in Event, Rerun(x, e)
    PROVE  /\ exec' \in [Executor -> [Event -> Phase]]
           /\ try' \in [Event -> 0..MaxTries]
<1>1. CASE x = "job" /\ try[e] < MaxTries
  <2>1. exec' \in [Executor -> [Event -> Phase]]
    BY <1>1, ExecWritten DEF Rerun, Phase
  <2>2. try[e] + 1 \in 0..MaxTries
    BY <1>1 DEF InboxTypeOK, InboxAssumption
  <2>3. try' = [try EXCEPT ![e] = try[e] + 1]
    BY <1>1 DEF Rerun, InboxTypeOK
  <2> QED
    BY <2>1, <2>2, <2>3 DEF InboxTypeOK
<1>2. CASE ~(x = "job" /\ try[e] < MaxTries)
  BY <1>2, LeaveTyped DEF Rerun, InboxTypeOK
<1> QED
  BY <1>1, <1>2

\* A step of an executor, apart from the handlers.
LEMMA InboxStepTyped ==
    ASSUME InboxAssumption, InboxTypeOK, NEW x \in Executor, NEW e \in Event, InboxStep(x, e)
    PROVE  InboxTypeOK' /\ SameRows
<1>1. row[e] \in Row /\ now \in 0..MaxTime
  BY DEF InboxTypeOK
<1>2. CASE Claim(x, e)
  <2>1. CASE row[e].status \in {"absent", "processed"}
    BY <1>2, <2>1, LeaveTyped DEF Claim, InboxTypeOK, SameRows, Stored
  <2>2. CASE row[e].status \notin {"absent", "processed"}
    <3> DEFINE r == [row[e] EXCEPT !.status = "processing"]
    <3>1. "processing" \in Status
      BY DEF Status
    <3>2. r \in Row /\ r.status = "processing"
      BY <1>1, <3>1, RowShapes
    <3>3. row' = [row EXCEPT ![e] = r]
      BY <1>2, <2>2 DEF Claim, InboxTypeOK
    <3> HIDE DEF r
    <3>4. /\ row' \in [Event -> Row] /\ row'[e] = r
          /\ \A f \in Event : f # e => row'[f] = row[f]
      BY <3>2, <3>3, RowWritten
    <3>5. SameRows
      BY <2>2, <3>2, <3>4 DEF SameRows, Stored
    <3>6. exec' \in [Executor -> [Event -> Phase]]
      BY <1>2, <2>2, ExecWritten DEF Claim, Phase
    <3> QED
      BY <1>2, <3>4, <3>5, <3>6 DEF Claim, InboxTypeOK
  <2> QED
    BY <2>1, <2>2
<1>3. CASE AlreadyDone(x, e)
  BY <1>3, LeaveTyped DEF AlreadyDone, InboxTypeOK, SameRows, Stored
<1>4. CASE Raise(x, e)
  <2>1. exec' \in [Executor -> [Event -> Phase]]
    BY <1>4, ExecWritten DEF Raise, Phase
  <2>2. faults' \in 0..MaxFaults
    BY <1>4, FaultTyped DEF Raise
  <2> QED
    BY <1>4, <2>1, <2>2 DEF Raise, InboxTypeOK, SameRows, Stored
<1>5. CASE PersistFailed(x, e)
  <2> DEFINE r == IF row[e].status = "absent" THEN row[e] ELSE Failed(row[e])
  <2>1. "failed" \in Status
    BY DEF Status
  <2>2. Failed(row[e]) \in Row /\ Failed(row[e]).status = "failed"
    BY <1>1, <2>1, RowShapes
  <2>3. r \in Row /\ (r.status = "absent" <=> row[e].status = "absent")
    BY <1>1, <2>2
  <2>4. row' = [row EXCEPT ![e] = r]
    BY <1>5 DEF PersistFailed, InboxTypeOK
  <2> HIDE DEF r
  <2>5. /\ row' \in [Event -> Row] /\ row'[e] = r
        /\ \A f \in Event : f # e => row'[f] = row[f]
    BY <2>3, <2>4, RowWritten
  <2>6. SameRows
    BY <2>3, <2>5 DEF SameRows, Stored
  <2> QED
    BY <1>5, <2>5, <2>6, RerunTyped DEF PersistFailed, InboxTypeOK
<1> QED
  BY <1>2, <1>3, <1>4, <1>5 DEF InboxStep

\* The sweep and lane 1 of a reconcile run.
LEMMA RequeueTyped ==
    ASSUME InboxAssumption, InboxTypeOK, NEW withParked, Requeue(withParked)
    PROVE  InboxTypeOK' /\ SameRows
<1>1. ASSUME NEW e \in Event
      PROVE  Reclaimed[e] \in Row /\ (Reclaimed[e].status = "absent" <=> row[e].status = "absent")
  <2>1. row[e] \in Row /\ now \in 0..MaxTime /\ "failed" \in Status
    BY DEF InboxTypeOK, Status
  <2>2. Failed(row[e]) \in Row /\ Failed(row[e]).status = "failed"
    BY <2>1, RowShapes
  <2>3. e \in Stale => row[e].status = "processing"
    BY DEF Stale
  <2> QED
    BY <2>1, <2>2, <2>3 DEF Reclaimed
<1>2. row' = Reclaimed /\ Reclaimed = [e \in Event |-> Reclaimed[e]]
  BY DEF Requeue, Reclaimed
<1>3. row' \in [Event -> Row]
  BY <1>1, <1>2
<1>4. SameRows
  BY <1>1, <1>2 DEF SameRows, Stored
<1>5. /\ exec' \in [Executor -> [Event -> Phase]]
      /\ try' \in [Event -> 0..MaxTries]
      /\ faults' \in 0..MaxFaults
  BY EnqueueTyped DEF Requeue
<1> QED
  BY <1>3, <1>4, <1>5 DEF Requeue, InboxTypeOK

\* A worker dies, time passes.
LEMMA CrashTyped ==
    ASSUME InboxAssumption, InboxTypeOK, NEW e \in Event, Crash(e)
    PROVE  InboxTypeOK' /\ SameRows
<1>1. "job" \in Executor
  BY DEF Executor
<1>2. /\ exec' \in [Executor -> [Event -> Phase]]
      /\ try' \in [Event -> 0..MaxTries]
  BY <1>1, RerunTyped DEF Crash
<1>3. faults' \in 0..MaxFaults
  BY FaultTyped DEF Crash
<1> QED
  BY <1>2, <1>3 DEF Crash, InboxTypeOK, SameRows, Stored

LEMMA TickTyped ==
    ASSUME InboxAssumption, InboxTypeOK, Tick
    PROVE  InboxTypeOK' /\ SameRows
BY DEF Tick, InboxTypeOK, SameRows, Stored, InboxAssumption

\* A webhook is stored.
LEMMA InsertTyped ==
    ASSUME InboxAssumption, InboxTypeOK, NEW e \in Event, Insert(e)
    PROVE  InboxTypeOK' /\ RowAdded(e)
<1> DEFINE r == [Absent EXCEPT !.status = "received", !.at = now]
<1>1. r \in Row /\ r.status = "received"
  BY ReceivedShape DEF InboxTypeOK
<1>2. row' = [row EXCEPT ![e] = r]
  BY DEF Insert
<1> HIDE DEF r
<1>3. /\ row' \in [Event -> Row] /\ row'[e] = r
      /\ \A f \in Event : f # e => row'[f] = row[f]
  BY <1>1, <1>2, RowWritten
<1>4. RowAdded(e)
  BY <1>1, <1>3 DEF RowAdded, Stored
<1>5. /\ exec' \in [Executor -> [Event -> Phase]]
      /\ try' \in [Event -> 0..MaxTries]
      /\ faults' \in 0..MaxFaults
  BY EnqueueTyped DEF Insert
<1> QED
  BY <1>3, <1>4, <1>5 DEF Insert, InboxTypeOK

\* A processed row is purged.
LEMMA PurgeRowTyped ==
    ASSUME InboxAssumption, InboxTypeOK, NEW e \in Event, PurgeRow(e)
    PROVE  /\ InboxTypeOK'
           /\ \A f \in Event : Stored(f)' <=> Stored(f) /\ f # e
<1>1. Absent \in Row /\ Absent.status = "absent"
  BY DEF Absent, Row, Status, InboxAssumption
<1>2. /\ row' \in [Event -> Row] /\ row'[e] = Absent
      /\ \A f \in Event : f # e => row'[f] = row[f]
  BY <1>1, RowWritten DEF PurgeRow
<1>3. exec' \in [Executor -> [Event -> Phase]]
  BY DEF PurgeRow, InboxTypeOK, Phase
<1> QED
  BY <1>1, <1>2, <1>3 DEF PurgeRow, InboxTypeOK, Stored

-----------------------------------------------------------------------------
(* What the inbox by itself leaves undone.                                 *)

\* No refund handler starts to hold the lock of its row.
NoneStarted ==
    \A x \in Executor, e \in Event : exec'[x][e] = "nopack" => exec[x][e] = "nopack"

\* No row is processed.
NoneFinished == \A e \in Event : row'[e].status = "processed" => row'[e] = row[e]

\* The same of one execution.
LEMMA PhaseStarted ==
    ASSUME InboxTypeOK, NEW x \in Executor, NEW e \in Event, NEW phase, phase # "nopack",
           exec' = [exec EXCEPT ![x][e] = phase]
    PROVE  NoneStarted
BY DEF InboxTypeOK, NoneStarted

LEMMA EnqueueStarts ==
    ASSUME InboxTypeOK, NEW S,
           Enqueue(S) \/ UNCHANGED <<exec, try>>
    PROVE  NoneStarted
<1>1. CASE UNCHANGED <<exec, try>>
  BY <1>1 DEF NoneStarted
<1>2. CASE Enqueue(S)
  <2> DEFINE queue == [e \in Event |-> IF e \in Fresh(S) THEN "queued" ELSE exec["job"][e]]
  <2>1. exec \in [Executor -> [Event -> Phase]] /\ "job" \in Executor
    BY DEF InboxTypeOK, Executor
  <2>2. exec' = [exec EXCEPT !["job"] = queue]
    BY <1>2, <2>1 DEF Enqueue
  <2>3. \A e \in Event : queue[e] = "nopack" => exec["job"][e] = "nopack"
    OBVIOUS
  <2> HIDE DEF queue
  <2> QED
    BY <2>1, <2>2, <2>3 DEF NoneStarted
<1> QED
  BY <1>1, <1>2

LEMMA RerunStarts ==
    ASSUME InboxTypeOK, NEW x \in Executor, NEW e \in Event, Rerun(x, e)
    PROVE  NoneStarted
<1>1. CASE x = "job" /\ try[e] < MaxTries
  BY <1>1, PhaseStarted DEF Rerun
<1>2. CASE ~(x = "job" /\ try[e] < MaxTries)
  BY <1>2, PhaseStarted DEF Rerun, Leave
<1> QED
  BY <1>1, <1>2

LEMMA InboxStepLeaves ==
    ASSUME InboxAssumption, InboxTypeOK, NEW x \in Executor, NEW e \in Event, InboxStep(x, e)
    PROVE  NoneStarted /\ NoneFinished
<1>1. row \in [Event -> Row] /\ row[e] \in Row /\ now \in 0..MaxTime
  BY DEF InboxTypeOK
<1>2. CASE Claim(x, e)
  <2>1. NoneStarted
    BY <1>2, PhaseStarted DEF Claim, Leave
  <2>2. NoneFinished
    BY <1>1, <1>2 DEF Claim, NoneFinished, Row
  <2> QED
    BY <2>1, <2>2
<1>3. CASE AlreadyDone(x, e) \/ Raise(x, e)
  BY <1>3, PhaseStarted DEF AlreadyDone, Raise, Leave, NoneFinished
<1>4. CASE PersistFailed(x, e)
  <2>1. NoneStarted
    BY <1>4, RerunStarts DEF PersistFailed
  <2> DEFINE r == IF row[e].status = "absent" THEN row[e] ELSE Failed(row[e])
  <2>2. row' = [row EXCEPT ![e] = r]
    BY <1>1, <1>4 DEF PersistFailed
  <2>3. Failed(row[e]).status = "failed"
    BY <1>1, RowShapes DEF Status
  <2>4. r.status # "processed"
    BY <2>3
  <2> HIDE DEF r
  <2>5. NoneFinished
    BY <1>1, <2>2, <2>4 DEF NoneFinished
  <2> QED
    BY <2>1, <2>5
<1> QED
  BY <1>2, <1>3, <1>4 DEF InboxStep

LEMMA RequeueLeaves ==
    ASSUME InboxAssumption, InboxTypeOK, NEW withParked, Requeue(withParked)
    PROVE  NoneStarted /\ NoneFinished
<1>1. NoneStarted
  BY EnqueueStarts DEF Requeue
<1>2. ASSUME NEW e \in Event, row'[e].status = "processed"
      PROVE  row'[e] = row[e]
  <2>1. row'[e] = IF e \in Stale THEN Failed(row[e]) ELSE row[e]
    BY DEF Requeue, Reclaimed
  <2>2. row[e] \in Row /\ now \in 0..MaxTime /\ "failed" \in Status
    BY DEF InboxTypeOK, Status
  <2>3. Failed(row[e]).status = "failed"
    BY <2>2, RowShapes
  <2> QED
    BY <1>2, <2>1, <2>3
<1> QED
  BY <1>1, <1>2 DEF NoneFinished

LEMMA CrashLeaves ==
    ASSUME InboxTypeOK, NEW e \in Event, Crash(e)
    PROVE  NoneStarted /\ NoneFinished
<1>1. "job" \in Executor
  BY DEF Executor
<1> QED
  BY <1>1, RerunStarts DEF Crash, NoneFinished

LEMMA InsertLeaves ==
    ASSUME InboxAssumption, InboxTypeOK, NEW e \in Event, Insert(e)
    PROVE  NoneStarted /\ NoneFinished
<1> DEFINE r == [Absent EXCEPT !.status = "received", !.at = now]
<1>1. NoneStarted
  BY EnqueueStarts DEF Insert
<1>2. r \in Row /\ r.status = "received"
  BY ReceivedShape DEF InboxTypeOK
<1>3. row' = [row EXCEPT ![e] = r]
  BY DEF Insert
<1> HIDE DEF r
<1>4. /\ row'[e] = r
      /\ \A f \in Event : f # e => row'[f] = row[f]
  BY <1>2, <1>3, RowWritten
<1> QED
  BY <1>1, <1>2, <1>4 DEF NoneFinished

LEMMA PurgeRowLeaves ==
    ASSUME InboxAssumption, InboxTypeOK, NEW e \in Event, PurgeRow(e)
    PROVE  NoneFinished /\ NoneStarted /\ \A x \in Executor : exec'[x][e] = "none"
<1>1. Absent.status = "absent"
  BY DEF Absent
<1>2. row \in [Event -> Row] /\ exec \in [Executor -> [Event -> Phase]]
  BY DEF InboxTypeOK
<1>3. NoneFinished
  BY <1>1, <1>2 DEF PurgeRow, NoneFinished
<1>4. \A x \in Executor : exec'[x][e] = "none"
  BY <1>2 DEF PurgeRow
<1>5. NoneStarted
  BY <1>2 DEF PurgeRow, NoneStarted
<1> QED
  BY <1>3, <1>4, <1>5

=============================================================================
