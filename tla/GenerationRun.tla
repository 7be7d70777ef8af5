---------------------------- MODULE GenerationRun ----------------------------
(***************************************************************************)
(* One stage and the generation runs started on it: the API request that   *)
(* charges and enqueues (stage_manager.generate), the arq worker that      *)
(* drafts, validates and saves (execute_queued_generation and the pipeline *)
(* body), its database heartbeat, the cancel endpoint and the recovery     *)
(* sweep.                                                                  *)
(*                                                                         *)
(* A transaction that waits for a second row lock while it holds a first   *)
(* one is two steps; every other transaction is one.  The run row is held  *)
(* by whoever is in a *Locked or raised step, or by recovery; the stage    *)
(* row is held across steps by a heartbeat only.                           *)
(***************************************************************************)
EXTENDS Integers, FiniteSets

CONSTANTS
    Run,        \* the generation runs that may ever be created
    NoRun,
    Part,       \* chunk_plan: the sections of the artifact
    CacheHits,  \* may the generation cache answer (never with research enabled)?
    Heartbeats, \* does a heartbeat interval end while a run is at work?
    MaxStops,   \* bound: runs cancelled and deadlines passed
    MaxFaults,  \* bound: processes killed and job slices used up
    MaxEdits    \* bound: edits of the stage and of its inputs

ASSUME GenerationAssumption ==
    /\ NoRun \notin Run
    /\ IsFiniteSet(Run)
    /\ IsFiniteSet(Part)
    /\ Part # {}
    /\ CacheHits \in BOOLEAN
    /\ Heartbeats \in BOOLEAN
    /\ MaxStops \in Nat
    /\ MaxFaults \in Nat
    /\ MaxEdits \in Nat

VARIABLES
    run,      \* stage_generation_runs
    chunks,   \* stage_generation_chunks: the banked sections of each run
    stage,    \* the stage row: status, current_version and resume offer
    inputs,   \* identity of the workspace inputs the stage is generated from
    edits,    \* edits so far
    faults,   \* processes killed and job slices used up so far
    expired,  \* the runs whose deadline_at has passed
    ctl,      \* where the request or worker that owns a run is, and its memory
    beat,     \* the runs whose heartbeat transaction holds the stage row
    rec       \* the run whose row the recovery sweep holds

vars == <<run, chunks, stage, inputs, edits, faults, expired, ctl, beat, rec>>

Terminal == {"succeeded", "cancelled", "timed_out", "failed", "blocked"}

NewRun == [status |-> "none", charged |-> FALSE, refunded |-> FALSE, source |-> NoRun,
           payer |-> NoRun, seed |-> {}, inputs |-> 0, prompt |-> FALSE, prev |-> "draft",
           cancel |-> FALSE, parts |-> 0, delivered |-> FALSE, saved |-> {}, version |-> 0]

Fresh == [at |-> "none", by |-> "api", body |-> FALSE, to |-> "failed", discard |-> FALSE,
          partial |-> FALSE, have |-> {}]

Init ==
    /\ run = [r \in Run |-> NewRun]
    /\ chunks = [r \in Run |-> {}]
    /\ stage = [status |-> "draft", version |-> 0, gateVersion |-> 0, resume |-> NoRun]
    /\ inputs = 0
    /\ edits = 0
    /\ faults = 0
    /\ expired = {}
    /\ ctl = [r \in Run |-> Fresh]
    /\ beat = {}
    /\ rec = NoRun

Running(r) == run[r].status = "running"

-----------------------------------------------------------------------------
(* Row locks.                                                              *)

\* The owner's sessions hold the run row: "raised" is the pipeline session, left
\* open by lock_running_run raising inside it.
HoldsRun == {"saveLocked", "settleLocked", "cleanupLocked", "raised"}

RunFree(r) == ctl[r].at \notin HoldsRun /\ rec # r

StageFree == beat = {}

At(r, where) == ctl[r].at = where

Go(r, where) == ctl' = [ctl EXCEPT ![r].at = where]

\* The request or the job ends, and its memory with it.
End(r, how) ==
    ctl' = [ctl EXCEPT ![r] = [Fresh EXCEPT !.at = how, !.body = ctl[r].body]]

\* terminalize_interrupted_run is about to be called, with this status.
GoSettle(r, where, status, discard, partial) ==
    ctl' = [ctl EXCEPT ![r].at = where, ![r].to = status, ![r].discard = discard,
                       ![r].partial = partial, ![r].have = {}]

\* Mutant: the cancel request is not read from the locked row.
M_LockIgnoresCancel(r) == Running(r) /\ r \notin expired

\* lock_running_run accepts the freshly locked row.
LockOK(r) == Running(r) /\ ~run[r].cancel /\ r \notin expired

LockError(r) == IF ~Running(r) \/ run[r].cancel THEN "cancelled" ELSE "timed_out"

\* What GenerationControl may have observed: a cancel request, a run somebody else
\* settled, or its deadline.  It polls, so it may also not have noticed yet.
Observed(r) ==
    {s \in {"cancelled", "timed_out"} :
        IF s = "cancelled" THEN run[r].cancel \/ ~Running(r) ELSE r \in expired}

\* The status of an unexpected exception.
Failure(r) == IF r \in expired THEN "timed_out" ELSE "failed"

-----------------------------------------------------------------------------
(* generate(): charge, create the run, flip the stage, hand over.          *)

\* Mutant: a run is created although the stage is generating.
M_Created(r, fields) ==
    /\ run[r].status = "none"
    /\ StageFree
    /\ run' = [run EXCEPT ![r] = [fields EXCEPT !.status = "running", !.inputs = inputs]]
    /\ stage' = [stage EXCEPT !.status = "in_progress"]
    /\ UNCHANGED <<chunks, inputs, edits, faults, expired, beat, rec>>

Created(r, fields) ==
    /\ run[r].status = "none"
    /\ StageFree
    /\ stage.status \in {"draft", "stale"}
    /\ run' = [run EXCEPT ![r] = [fields EXCEPT !.status = "running", !.inputs = inputs,
                                                !.prev = stage.status]]
    /\ stage' = [stage EXCEPT !.status = "in_progress"]
    /\ UNCHANGED <<chunks, inputs, edits, faults, expired, beat, rec>>

Generate(r) ==
    /\ Created(r, [NewRun EXCEPT !.charged = TRUE, !.payer = r])
    /\ Go(r, "handoff")

\* load_resume_seed.
ResumeOffered(s) ==
    /\ stage.resume = s
    /\ stage.gateVersion = stage.version
    /\ chunks[s] # {}

Resume(r) ==
    \E s \in Run :
        /\ ResumeOffered(s)
        /\ run[s].inputs = inputs
        /\ Created(r, [NewRun EXCEPT !.source = s, !.payer = run[s].payer,
                                     !.seed = chunks[s], !.prompt = run[s].prompt])
        /\ Go(r, "handoff")

\* A cached artifact is replayed inside the request, without a charge.
GenerateCached(r) ==
    /\ CacheHits
    /\ Created(r, NewRun)
    /\ Go(r, "cached")

Enqueue(r) ==
    /\ At(r, "handoff")
    /\ ctl' = [ctl EXCEPT ![r].at = "queued", ![r].by = "worker"]
    /\ UNCHANGED <<run, chunks, stage, inputs, edits, faults, expired, beat, rec>>

QueueUnavailable(r) ==
    /\ At(r, "handoff")
    /\ GoSettle(r, "cleanup", "failed", FALSE, FALSE)
    /\ UNCHANGED <<run, chunks, stage, inputs, edits, faults, expired, beat, rec>>

\* The cached text is accepted, rejected, or the control stopped the request; a
\* client that disconnects leaves a background task to settle the run.
ReplayCached(r) ==
    /\ At(r, "cached")
    /\ \/ GoSettle(r, "saving", "succeeded", FALSE, FALSE)
       \/ GoSettle(r, "cleanup", "failed", TRUE, FALSE)
       \/ \E s \in Observed(r) \cup {"cancelled"} : GoSettle(r, "cleanup", s, FALSE, FALSE)
    /\ UNCHANGED <<run, chunks, stage, inputs, edits, faults, expired, beat, rec>>

-----------------------------------------------------------------------------
(* The worker: execute_queued_generation.                                  *)

\* A delivery reads the run without a lock; a settled run makes the job inert.
Deliver(r) ==
    /\ At(r, "queued")
    /\ IF ~Running(r)
       THEN End(r, "done")
       ELSE ctl' = [ctl EXCEPT ![r] =
                [Fresh EXCEPT !.by = "worker", !.have = chunks[r],
                              !.to = "timed_out",
                              !.at = IF r \in expired THEN "cleanup" ELSE "preflight"]]
    /\ UNCHANGED <<run, chunks, stage, inputs, edits, faults, expired, beat, rec>>

\* The prompt is built and stored on the run, or was stored by an earlier delivery.
Prepare(r) ==
    /\ At(r, "preflight")
    /\ run[r].prompt \/ (RunFree(r) /\ LockOK(r))
    /\ run' = [run EXCEPT ![r].prompt = TRUE]
    /\ ctl' = [ctl EXCEPT ![r].at = "drafting", ![r].body = TRUE]
    /\ UNCHANGED <<chunks, stage, inputs, edits, faults, expired, beat, rec>>

PrepareStops(r) ==
    /\ At(r, "preflight")
    /\ \/ \E s \in Observed(r) \cup {"failed"} : GoSettle(r, "settle", s, FALSE, FALSE)
       \/ /\ ~run[r].prompt
          /\ RunFree(r)
          /\ ~LockOK(r)
          /\ GoSettle(r, "settle", LockError(r), FALSE, FALSE)
    /\ UNCHANGED <<run, chunks, stage, inputs, edits, faults, expired, beat, rec>>

Unbanked(r) == run[r].seed \ ctl[r].have

\* Mutant: the count is not refreshed.
M_Counted(r, banked) == run[r].parts

\* completed_parts after a checkpoint: refreshed only while the run is running.
Counted(r, banked) == IF Running(r) THEN Cardinality(banked) ELSE run[r].parts

\* checkpoint_chunk: the seeds of a resume are banked before any new section.  The
\* control compares its deadline with the clock at every checkpoint.
Checkpoint(r, c) ==
    /\ At(r, "drafting")
    /\ RunFree(r)
    /\ r \notin expired
    /\ c \notin ctl[r].have
    /\ Unbanked(r) # {} => c \in Unbanked(r)
    /\ chunks' = [chunks EXCEPT ![r] = @ \cup {c}]
    /\ ctl' = [ctl EXCEPT ![r].have = @ \cup {c}]
    /\ run' = [run EXCEPT ![r].parts = Counted(r, chunks[r] \cup {c})]
    /\ UNCHANGED <<stage, inputs, edits, faults, expired, beat, rec>>

\* The control stopped the draft, the provider failed or fell short, or a statement
\* failed: settled by the pipeline's own session, the text in hand kept as a partial
\* section.  While seeds are banked again, that text is the next seed of a stop.
DraftStops(r) ==
    /\ At(r, "drafting")
    /\ \/ \E s \in Observed(r), partial \in BOOLEAN :
             GoSettle(r, "settle", s, FALSE, partial)
       \/ GoSettle(r, "settle", Failure(r), FALSE, FALSE)
       \/ /\ Unbanked(r) = {}
          /\ \E s \in {Failure(r), "blocked"} : GoSettle(r, "settle", s, FALSE, TRUE)
    /\ UNCHANGED <<run, chunks, stage, inputs, edits, faults, expired, beat, rec>>

Drafted(r) ==
    /\ At(r, "drafting")
    /\ ctl[r].have = Part
    /\ ctl' = [ctl EXCEPT ![r].at = "validating", ![r].have = {}]
    /\ UNCHANGED <<run, chunks, stage, inputs, edits, faults, expired, beat, rec>>

\* The gates: unsafe text is discarded, a missing section blocks the draft, and an
\* exception (a stop among them) leaves the body and ends the heartbeat first.
Validate(r) ==
    /\ At(r, "validating")
    /\ \/ /\ GoSettle(r, "settle", "failed", TRUE, FALSE)
          /\ UNCHANGED beat
       \/ /\ r \notin expired
          /\ \E s \in {"succeeded", "blocked"} : GoSettle(r, "saving", s, FALSE, FALSE)
          /\ UNCHANGED beat
       \/ /\ \E s \in Observed(r) \cup {Failure(r)} :
                GoSettle(r, "cleanup", s, FALSE, FALSE)
          /\ beat' = beat \ {r}
    /\ UNCHANGED <<run, chunks, stage, inputs, edits, faults, expired, rec>>

\* The draft is saved under the run lock, then the stage lock.
SaveLock(r) ==
    /\ At(r, "saving")
    /\ RunFree(r)
    /\ LockOK(r)
    /\ Go(r, "saveLocked")
    /\ UNCHANGED <<run, chunks, stage, inputs, edits, faults, expired, beat, rec>>

\* lock_running_run raises.  A request settles the run in the same session.  The
\* pipeline leaves its session open, holding the run row, and waits for that row in
\* the fresh session of _terminalize_generation_run.
SaveRefused(r) ==
    /\ At(r, "saving")
    /\ RunFree(r)
    /\ ~LockOK(r)
    /\ IF ctl[r].by = "api" /\ ~Running(r)
       THEN End(r, "done")
       ELSE GoSettle(r, IF ctl[r].by = "worker" THEN "raised" ELSE "cleanupLocked",
                     LockError(r), FALSE, FALSE)
    /\ beat' = beat \ {r}
    /\ UNCHANGED <<run, chunks, stage, inputs, edits, faults, expired, rec>>

\* statement_timeout ends the wait; the error is logged and the job ends for good.
StatementTimeout(r) ==
    /\ At(r, "raised")
    /\ End(r, "dead")
    /\ UNCHANGED <<run, chunks, stage, inputs, edits, faults, expired, beat, rec>>

\* The final transaction of the pipeline body, of _persist_quality_gate_blocked and
\* of a cached replay.
SaveCommit(r) ==
    /\ At(r, "saveLocked")
    /\ StageFree
    /\ run' = [run EXCEPT ![r].status = ctl[r].to, ![r].delivered = TRUE,
                          ![r].saved = Part, ![r].version = stage.version + 1,
                          ![r].parts = IF ctl[r].by = "api" THEN Cardinality(Part) ELSE @]
    /\ stage' = [stage EXCEPT !.status = "draft", !.version = @ + 1,
                              !.gateVersion = stage.version + 1, !.resume = NoRun]
    /\ End(r, "done")
    /\ UNCHANGED <<chunks, inputs, edits, faults, expired, beat, rec>>

\* The commit of the final transaction is given the time that is left until the
\* deadline; a commit that did reach the database is SaveCommit.
SaveTimesOut(r) ==
    /\ At(r, "saveLocked")
    /\ ctl[r].by = "worker"
    /\ ctl[r].to = "succeeded"
    /\ r \in expired
    /\ StageFree
    /\ GoSettle(r, "cleanup", "timed_out", FALSE, FALSE)
    /\ UNCHANGED <<run, chunks, stage, inputs, edits, faults, expired, beat, rec>>

-----------------------------------------------------------------------------
(* terminalize_interrupted_run.                                            *)

Resumable(r, surviving) == surviving # {} /\ surviving # Part /\ run[r].prompt

\* Mutant: a resumable run is refunded too.
M_Refunded(r, surviving) == run[r].charged

\* Mutant: the charge is kept for sections that the validation has thrown away.
M_RefundedEarly(r, surviving) == run[r].charged /\ chunks[r] = {}

Refunded(r, surviving) == run[r].charged /\ ~Resumable(r, surviving)

\* The transaction, once it holds the run row and the stage row.  unsafe: the text
\* to be saved fails the final security validation, or is too long.
Terminalize(r, status, discard, partial, unsafe) ==
    LET thrown == discard \/ (unsafe /\ (chunks[r] # {} \/ partial))
        surviving == IF thrown THEN {} ELSE chunks[r]
        combined == ~thrown /\ (chunks[r] # {} \/ partial)
    IN  /\ chunks' = [chunks EXCEPT ![r] = surviving]
        /\ run' = [run EXCEPT ![r].status = status,
                              ![r].refunded = Refunded(r, surviving),
                              ![r].saved = surviving,
                              ![r].version = IF combined THEN stage.version + 1 ELSE 0]
        /\ stage' = IF combined
                    THEN [status |-> "draft", version |-> stage.version + 1,
                          gateVersion |-> stage.version + 1,
                          resume |-> IF Resumable(r, surviving) THEN r ELSE NoRun]
                    ELSE [stage EXCEPT !.status = run[r].prev]

\* Mutant: a run settled by somebody else is settled again.
M_SettleLock(r) ==
    /\ ctl[r].at \in {"settle", "cleanup"}
    /\ RunFree(r)
    /\ Go(r, IF At(r, "settle") THEN "settleLocked" ELSE "cleanupLocked")
    /\ UNCHANGED <<run, chunks, stage, inputs, edits, faults, expired, beat, rec>>

SettleLock(r) ==
    /\ ctl[r].at \in {"settle", "cleanup"}
    /\ RunFree(r)
    /\ IF Running(r)
       THEN /\ Go(r, IF At(r, "settle") THEN "settleLocked" ELSE "cleanupLocked")
            /\ UNCHANGED beat
       ELSE /\ End(r, "done")
            /\ beat' = beat \ {r}
    /\ UNCHANGED <<run, chunks, stage, inputs, edits, faults, expired, rec>>

SettleCommit(r) ==
    /\ ctl[r].at \in {"settleLocked", "cleanupLocked"}
    /\ StageFree
    /\ \E unsafe \in BOOLEAN :
          Terminalize(r, ctl[r].to, ctl[r].discard, ctl[r].partial, unsafe)
    /\ End(r, "done")
    /\ UNCHANGED <<inputs, edits, faults, expired, beat, rec>>

-----------------------------------------------------------------------------
(* _stage_db_heartbeat: the stage row first, then the run row.             *)

Beating == {"preflight", "drafting", "validating", "saving", "saveLocked", "settle",
            "settleLocked"}

BeatStage(r) ==
    /\ Heartbeats
    /\ ctl[r].by = "worker"
    /\ ctl[r].at \in Beating
    /\ StageFree
    /\ stage.status = "in_progress"
    /\ beat' = {r}
    /\ UNCHANGED <<run, chunks, stage, inputs, edits, faults, expired, ctl, rec>>

\* The UPDATE of the run row waits for its lock, unless the run is settled.
BeatRun(r) ==
    /\ r \in beat
    /\ Running(r) => RunFree(r)
    /\ beat' = {}
    /\ UNCHANGED <<run, chunks, stage, inputs, edits, faults, expired, ctl, rec>>

\* The heartbeat of r holds the stage row and waits for the run row, whose holder
\* waits for the stage row.
LockCycle(r) ==
    /\ r \in beat
    /\ Running(r)
    /\ ctl[r].at \in {"saveLocked", "settleLocked"} \/ rec = r

\* The deadlock detector aborts one of them.  The heartbeat logs and goes on.
BeatAborted(r) ==
    /\ LockCycle(r)
    /\ beat' = {}
    /\ UNCHANGED <<run, chunks, stage, inputs, edits, faults, expired, ctl, rec>>

\* The pipeline fails, and its body settles the run in a fresh session; there is no
\* such second attempt in the preflight.
PipelineAborted(r) ==
    /\ LockCycle(r)
    /\ rec # r
    /\ beat' = {}
    /\ IF ctl[r].body THEN GoSettle(r, "cleanup", Failure(r), FALSE, FALSE)
                      ELSE End(r, "dead")
    /\ UNCHANGED <<run, chunks, stage, inputs, edits, faults, expired, rec>>

\* The sweep fails, and is repeated by the next cycle.
RecoveryAborted(r) ==
    /\ LockCycle(r)
    /\ rec = r
    /\ rec' = NoRun
    /\ UNCHANGED <<run, chunks, stage, inputs, edits, faults, expired, ctl, beat>>

-----------------------------------------------------------------------------
(* Failures of processes, the user and the sweep.                          *)

\* A worker is killed, or its job slice ends: its sessions close and arq delivers
\* the job again.  A request that dies leaves its run to the recovery sweep.
Interrupt(r) ==
    /\ faults < MaxFaults
    /\ faults' = faults + 1
    /\ ctl[r].at \notin {"none", "queued", "done", "dead", "lost"}
    /\ IF ctl[r].by = "worker"
       THEN ctl' = [ctl EXCEPT ![r] = [Fresh EXCEPT !.at = "queued", !.by = "worker"]]
       ELSE End(r, "lost")
    /\ beat' = beat \ {r}
    /\ UNCHANGED <<run, chunks, stage, inputs, edits, expired, rec>>

MayStop == Cardinality(expired) + Cardinality({r \in Run : run[r].cancel}) < MaxStops

Cancel(r) ==
    /\ MayStop
    /\ Running(r)
    /\ RunFree(r)
    /\ ~run[r].cancel
    /\ run' = [run EXCEPT ![r].cancel = TRUE]
    /\ UNCHANGED <<chunks, stage, inputs, edits, faults, expired, ctl, beat, rec>>

DeadlinePasses(r) ==
    /\ MayStop
    /\ Running(r)
    /\ r \notin expired
    /\ expired' = expired \cup {r}
    /\ UNCHANGED <<run, chunks, stage, inputs, edits, faults, ctl, beat, rec>>

\* recover_stuck_stages: heartbeats are never older than the deadline, so only the
\* deadline selects a run.
RecoverLock(r) ==
    /\ rec = NoRun
    /\ Running(r)
    /\ r \in expired
    /\ RunFree(r)
    /\ rec' = r
    /\ UNCHANGED <<run, chunks, stage, inputs, edits, faults, expired, ctl, beat>>

RecoverCommit(r) ==
    /\ rec = r
    /\ StageFree
    /\ \E unsafe \in BOOLEAN : Terminalize(r, "timed_out", FALSE, FALSE, unsafe)
    /\ rec' = NoRun
    /\ UNCHANGED <<inputs, edits, faults, expired, ctl, beat>>

\* The owner's requests on a stage that is not generating.
Owner ==
    /\ edits < MaxEdits
    /\ StageFree
    /\ stage.status # "in_progress"
    /\ edits' = edits + 1
    /\ UNCHANGED <<run, chunks, inputs, faults, expired, ctl, beat, rec>>

\* handle_content_edit of this stage.
EditStage ==
    /\ Owner
    /\ stage' = [status |-> IF stage.status = "finalised" THEN "stale" ELSE "draft",
                 version |-> stage.version + 1, gateVersion |-> stage.version + 1,
                 resume |-> NoRun]

\* rollback: an older version returns as a new one.  For the current one the content
\* stays and the gate is cleared, its offer with it (an advisory gate, which carries
\* no offer, is kept: nothing here reads it).
Rollback ==
    /\ Owner
    /\ \E target \in 1..stage.version :
          stage' = [status |-> "draft", resume |-> NoRun,
                    version |-> IF target = stage.version THEN target ELSE stage.version + 1,
                    gateVersion |-> IF target = stage.version THEN 0 ELSE stage.version + 1]

\* finalise and acknowledge_stale, which leave the payload of the gate alone; the
\* first finds a draft of other inputs stale.  What the gate asks first: StageGate.
Finalise ==
    /\ Owner
    /\ stage.version > 0
    /\ stage.status # "finalised"
    /\ \/ stage' = [stage EXCEPT !.status = "finalised"]
       \/ stage.status = "draft" /\ stage' = [stage EXCEPT !.status = "stale"]

\* An edit of the inputs, serialised with generate() by the workspace row: an edited
\* problem statement leaves a draft alone; for an edited upstream stage
\* _mark_downstream_stale skips a generating stage and one without content.
EditInputs ==
    /\ edits < MaxEdits
    /\ edits' = edits + 1
    /\ inputs' = inputs + 1
    /\ \/ UNCHANGED stage
       \/ /\ stage.status \in {"draft", "finalised"}
          /\ stage.version > 0
          /\ stage' = [stage EXCEPT !.status = "stale"]
    /\ UNCHANGED <<run, chunks, faults, expired, ctl, beat, rec>>

-----------------------------------------------------------------------------

Request(r) == Generate(r) \/ Resume(r) \/ GenerateCached(r) \/ Enqueue(r)
              \/ QueueUnavailable(r) \/ ReplayCached(r) \/ Cancel(r)

Work(r) ==
    \/ Deliver(r) \/ Prepare(r) \/ PrepareStops(r)
    \/ \E c \in Part : Checkpoint(r, c)
    \/ DraftStops(r) \/ Drafted(r) \/ Validate(r) \/ SaveLock(r) \/ SaveRefused(r)

\* The steps of a session that holds the run row or waits for it.
Hold(r) == SaveCommit(r) \/ SaveTimesOut(r) \/ SettleLock(r) \/ SettleCommit(r)

Beat(r) == BeatRun(r) \/ BeatAborted(r) \/ PipelineAborted(r) \/ RecoveryAborted(r)

Next ==
    \/ \E r \in Run :
        \/ Request(r) \/ Work(r) \/ Hold(r) \/ StatementTimeout(r)
        \/ BeatStage(r) \/ Beat(r) \/ Interrupt(r) \/ DeadlinePasses(r)
        \/ RecoverLock(r) \/ RecoverCommit(r)
    \/ EditStage \/ Rollback \/ Finalise
    \/ EditInputs

Spec == Init /\ [][Next]_vars

\* Time passes; PostgreSQL hands a free row to whoever waits for it (first come,
\* first served), resolves deadlocks and times out statements; and the recovery loop
\* polls more often than heartbeats come, so some sweep meets no heartbeat in its way.
\* Nothing is assumed of requests, workers or the queue.
Fairness ==
    \A r \in Run :
        /\ WF_vars(DeadlinePasses(r))
        /\ WF_vars(StatementTimeout(r))
        /\ WF_vars(Beat(r))
        /\ SF_vars(BeatRun(r))
        /\ SF_vars(Hold(r))
        /\ SF_vars(StageFree /\ RecoverLock(r))
        /\ SF_vars(RecoverCommit(r))

FairSpec == Spec /\ Fairness

-----------------------------------------------------------------------------
(* Properties.                                                             *)

Place == {"none", "handoff", "cached", "queued", "preflight", "drafting", "validating",
          "saving", "saveLocked", "raised", "settle", "settleLocked", "cleanup",
          "cleanupLocked", "done", "dead", "lost"}

RunRow == [status : {"none", "running"} \cup Terminal, charged : BOOLEAN,
           refunded : BOOLEAN, source : Run \cup {NoRun}, payer : Run \cup {NoRun},
           seed : SUBSET Part, inputs : Nat, prompt : BOOLEAN, prev : {"draft", "stale"},
           cancel : BOOLEAN, parts : Nat, delivered : BOOLEAN, saved : SUBSET Part,
           version : Nat]

Control == [at : Place, by : {"api", "worker"}, body : BOOLEAN, to : Terminal,
            discard : BOOLEAN, partial : BOOLEAN, have : SUBSET Part]

\* The rows and the control state have the shapes the CHECK constraints of
\* stage_generation_runs and the code give them.
TypeOK ==
    /\ run \in [Run -> RunRow]
    /\ chunks \in [Run -> SUBSET Part]
    /\ stage \in [status : {"draft", "stale", "in_progress", "finalised"}, version : Nat,
                  gateVersion : Nat, resume : Run \cup {NoRun}]
    /\ inputs \in Nat
    /\ edits \in Nat
    /\ faults \in Nat
    /\ expired \in SUBSET Run
    /\ ctl \in [Run -> Control]
    /\ beat \in SUBSET Run
    /\ rec \in Run \cup {NoRun}

\* A stage is in_progress exactly while one run is running: nobody can start a second
\* paid run (uq_stage_generation_runs_active_stage never fires), no settled run leaves
\* the stage generating, and the legacy lane of recover_stuck_stages finds nothing.
InProgressHasRun ==
    /\ \A r, s \in Run : Running(r) /\ Running(s) => r = s
    /\ stage.status = "in_progress" <=> \E r \in Run : Running(r)

\* A committed cancel request is never overtaken by a save, however far the worker
\* has come: the run lock re-reads it.
CancelWins == \A r \in Run : run[r].cancel => ~run[r].delivered

\* The save transaction never meets "generation_checkpoint_count_mismatch", whatever
\* was interrupted, redelivered and banked again before.
CountsMatch ==
    \A r \in Run : At(r, "saveLocked") /\ ctl[r].by = "worker" =>
        run[r].parts = Cardinality(Part)

\* What one charge has paid out: saved artifacts, and its refund.
Delivered(p) == {r \in Run : run[r].payer = p /\ run[r].delivered}

\* One charge buys one artifact or is given back, never both and never twice: along
\* every chain of free resumes at most one run delivers, and then none is refunded.
ChargeBuysOnce ==
    \A p \in Run : run[p].charged =>
        Cardinality(Delivered(p)) + (IF run[p].refunded THEN 1 ELSE 0) <= 1

\* A resume that has banked all its seeds again, or that saved nothing.
Rebanked(r) == run[r].seed \subseteq chunks[r] \/ run[r].version = 0

\* An offer that generate(action="resume") takes up: what load_resume_seed asks, the
\* source's input identity and a stage that may generate.
Offered(p) ==
    \E s \in Run : /\ run[s].payer = p
                   /\ ResumeOffered(s)
                   /\ run[s].inputs = inputs
                   /\ run[s].prompt
                   /\ stage.status # "finalised"

\* What the owner did withdraws the offer that a charge left: a newer version, an
\* unlock in place, the finalised stage, or inputs that are not those of the run.
Withdrawn(p) ==
    \/ \A r \in Run : run[r].payer = p => run[r].version < stage.version
    \/ stage.gateVersion # stage.version
    \/ stage.status = "finalised"
    \/ inputs # run[p].inputs

\* A charge that was neither refunded nor is at work has left the user something: all
\* sections, or an offer to complete the rest for free that a resume takes up, until
\* the owner withdraws it (or a resume died while it banked its seeds again, see
\* ResumeKeepsBanked).
KeptChargeRedeemable ==
    \A p \in Run :
        LET paid == {r \in Run : run[r].payer = p}
        IN  /\ run[p].charged
            /\ ~run[p].refunded
            /\ \A r \in paid : ~Running(r) /\ Rebanked(r)
            => \/ \E r \in paid : run[r].saved = Part
               \/ Offered(p)
               \/ Withdrawn(p)

\* A settled run is final: a late worker, a redelivered job and the sweep never settle
\* it again, refund it again or save it again.
SettledOnce ==
    [][\A r \in Run : run[r].status \in Terminal =>
          /\ run'[r].status = run[r].status
          /\ run'[r].refunded = run[r].refunded
          /\ run'[r].version = run[r].version]_vars

\* While a stage is generating its version is moved by the running run only, in the
\* step that settles it: no late worker writes into the run that followed its own.
OnlyOwnerWrites ==
    [][stage.status = "in_progress" /\ stage'.version # stage.version =>
          \E r \in Run : Running(r) /\ run'[r].status \in Terminal
                         /\ run'[r].version = stage'.version]_vars

\* Every run is settled: no crash, lost job, blocked session or deadlock leaves a paid
\* run running for ever.
RunsSettle == \A r \in Run : Running(r) ~> ~Running(r)

\* lock_stage_for_run: "Lock the run's stage after the run lock, preserving lock order
\* globally", so no two transactions wait for each other's row.
NoLockCycle == \A r \in Run : ~LockCycle(r)

\* _run_generation_pipeline_body: "any exception enters the finally cleanup path and
\* refunds credits + resets the stage to draft", so a job that ends in an exception
\* leaves no running run behind.
CleanupSettles == \A r \in Run : At(r, "dead") /\ ctl[r].body => ~Running(r)

\* _generate_durable_artifact: "a resume that itself dies partway leaves one complete
\* checkpoint set behind and the next resume sees every chunk banked so far".
ResumeKeepsBanked == \A r \in Run : run[r].status \in Terminal => Rebanked(r)
=============================================================================
