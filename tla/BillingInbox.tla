---------------------------- MODULE BillingInbox ----------------------------
(***************************************************************************)
(* The durable webhook inbox (services/billing_worker.py): one row of      *)
(* billing_webhook_events per event identity, the arq job that processes   *)
(* it, the reconcile cron that may process it too, and the sweep that      *)
(* brings lost rows back.  The provider modules extend this one with the   *)
(* money handlers, which run while an executor is in phase "claimed".      *)
(*                                                                         *)
(* A row is identified by (provider, event name, object, payload hash), so *)
(* a repeated delivery finds its row and changes nothing.  Time is counted *)
(* in ticks; the ages are the code's minutes, hours and days, in order.    *)
(***************************************************************************)
EXTENDS Naturals, FiniteSets

CONSTANTS
    Event,          \* event identities
    MaxTries,       \* JOB_MAX_TRIES, bounds both job tries and row retries
    StaleAge,       \* _STALE_PROCESSING_MINUTES
    RetentionAge,   \* _RETENTION_DAYS
    MaxTime,        \* bound on the clock
    MaxFaults       \* bound on crashes, failed calls and a lost queue

InboxAssumption ==
    MaxTries \in Nat \ {0} /\ MaxTime \in Nat /\ MaxFaults \in Nat

VARIABLES
    row,            \* the inbox table
    exec,           \* what each executor is doing with a row
    try,            \* ctx["job_try"] of the row's job
    now,            \* the clock
    faults          \* faults so far

inbox == <<row, exec, try, now, faults>>

Executor == {"job", "cron"}

\* "queued" waits to run billing_process_webhook, "claimed" has committed the
\* claim, "failing" is between the handler's rollback and _persist_failed.
\* "nopack" is the Lemon refund handler after it found no pack.
Phase == {"none", "queued", "claimed", "nopack", "failing"}

Status == {"absent", "received", "processing", "failed", "processed"}

Absent == [status |-> "absent", retries |-> 0, parked |-> FALSE,
           at |-> 0, done |-> 0]

\* Retries are counted up to a bound no guard can tell from a higher count.
Row == [status : Status, retries : 0..MaxTries, parked : BOOLEAN,
        at : 0..MaxTime, done : 0..MaxTime]

InboxTypeOK ==
    /\ row \in [Event -> Row]
    /\ exec \in [Executor -> [Event -> Phase]]
    /\ try \in [Event -> 0..MaxTries]
    /\ now \in 0..MaxTime
    /\ faults \in 0..MaxFaults

InboxInit ==
    /\ row = [e \in Event |-> Absent]
    /\ exec = [x \in Executor |-> [e \in Event |-> "none"]]
    /\ try = [e \in Event |-> 0]
    /\ now = 0
    /\ faults = 0

Fault == faults < MaxFaults /\ faults' = faults + 1

Tick ==
    /\ now < MaxTime
    /\ now' = now + 1
    /\ UNCHANGED <<row, exec, try, faults>>

Processed(r) == [r EXCEPT !.status = "processed", !.done = now]

Failed(r) == [r EXCEPT !.status = "failed", !.parked = FALSE,
                       !.retries = IF @ < MaxTries THEN @ + 1 ELSE @]

(***************************************************************************)
(* Putting a row's job on the queue.  The job id is billing_wh:{id}, so a  *)
(* row with a queued or running job keeps that one.                        *)
(***************************************************************************)
Fresh(S) == {e \in S : exec["job"][e] = "none"}

Enqueue(S) ==
    /\ exec' = [exec EXCEPT !["job"] =
                   [e \in Event |-> IF e \in Fresh(S) THEN "queued" ELSE @[e]]]
    /\ try' = [e \in Event |-> IF e \in Fresh(S) THEN 1 ELSE try[e]]

\* The webhook endpoint commits the row, then tries to enqueue it; a queue
\* that does not answer leaves the row to the sweep.
Insert(e) ==
    /\ row[e].status = "absent"
    /\ row' = [row EXCEPT ![e] = [Absent EXCEPT !.status = "received", !.at = now]]
    /\ \/ Enqueue({e}) /\ UNCHANGED faults
       \/ Fault /\ UNCHANGED <<exec, try>>
    /\ UNCHANGED now

(***************************************************************************)
(* billing_process_webhook.                                                *)
(***************************************************************************)
Leave(x, e) == exec' = [exec EXCEPT ![x][e] = "none"]

\* The claim: lock the row, stop when it is gone or done, otherwise commit
\* "processing".  A row already "processing" is claimed again.
Claim(x, e) ==
    /\ exec[x][e] = "queued"
    /\ IF row[e].status \in {"absent", "processed"}
         THEN Leave(x, e) /\ UNCHANGED row
         ELSE /\ row' = [row EXCEPT ![e].status = "processing"]
              /\ exec' = [exec EXCEPT ![x][e] = "claimed"]
    /\ UNCHANGED <<try, now, faults>>

\* _dispatch_claimed or the handler finds the row done in the meantime.
AlreadyDone(x, e) ==
    /\ exec[x][e] = "claimed"
    /\ row[e].status \in {"absent", "processed"}
    /\ Leave(x, e)
    /\ UNCHANGED <<row, try, now, faults>>

\* The handler raises: its transaction rolls back, the failure is not yet
\* written.
Raise(x, e) ==
    /\ exec[x][e] \in {"claimed", "nopack"}
    /\ Fault
    /\ exec' = [exec EXCEPT ![x][e] = "failing"]
    /\ UNCHANGED <<row, try, now>>

\* What becomes of an executor after a failed try: the wrapper retries the
\* job or dead-letters it, the cron goes on without the row.
Rerun(x, e) ==
    IF x = "job" /\ try[e] < MaxTries
      THEN /\ exec' = [exec EXCEPT ![x][e] = "queued"]
           /\ try' = [try EXCEPT ![e] = @ + 1]
      ELSE /\ Leave(x, e)
           /\ UNCHANGED try

\* _persist_failed in its own transaction, whatever the row's status is by
\* now; then the wrapper.
PersistFailed(x, e) ==
    /\ exec[x][e] = "failing"
    /\ row' = [row EXCEPT ![e] = IF @.status = "absent" THEN @ ELSE Failed(@)]
    /\ Rerun(x, e)
    /\ UNCHANGED <<now, faults>>

\* The worker dies with the row claimed: the row stays "processing", the
\* queue delivers the job again.  The cron dies with its whole run.
Crash(e) ==
    /\ exec["job"][e] \in {"claimed", "nopack", "failing"}
    /\ Fault
    /\ Rerun("job", e)
    /\ UNCHANGED <<row, now>>

(***************************************************************************)
(* _claim_pending_ids and _enqueue_ids, run by the 60 s sweep (which       *)
(* leaves parked rows alone) and by reconcile lane 1 (which takes them).   *)
(***************************************************************************)
\* A Lemon refund handler that found no pack still holds the row's lock.
Stale == {e \in Event : /\ row[e].status = "processing"
                        /\ now - row[e].at > StaleAge
                        /\ \A x \in Executor : exec[x][e] # "nopack"}

Reclaimed == [e \in Event |-> IF e \in Stale THEN Failed(row[e]) ELSE row[e]]

M_Pending(r, withParked) ==
    {e \in Event : r[e].status = "failed" /\ r[e].retries < MaxTries}

Pending(r, withParked) ==
    {e \in Event : \/ r[e].status = "received" /\ (withParked \/ ~ r[e].parked)
                   \/ r[e].status = "failed" /\ r[e].retries < MaxTries}

Requeue(withParked) ==
    /\ row' = Reclaimed
    /\ \/ Enqueue(Pending(Reclaimed, withParked)) /\ UNCHANGED faults
       \/ Fault /\ UNCHANGED <<exec, try>>
    /\ UNCHANGED now

\* The sweep has something to do.
Sweep ==
    /\ Stale # {} \/ Fresh(Pending(row, FALSE)) # {}
    /\ Requeue(FALSE)

\* purge_billing_events deletes old processed rows.  An execution that still
\* holds the row finds it missing and returns.
PurgeRow(e) ==
    /\ row[e].status = "processed"
    /\ now - row[e].done > RetentionAge
    /\ row' = [row EXCEPT ![e] = Absent]
    /\ exec' = [x \in Executor |-> [exec[x] EXCEPT ![e] = "none"]]
    /\ UNCHANGED <<try, now, faults>>

InboxStep(x, e) ==
    Claim(x, e) \/ AlreadyDone(x, e) \/ Raise(x, e) \/ PersistFailed(x, e)

=============================================================================
