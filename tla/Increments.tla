----------------------------- MODULE Increments -----------------------------
(***************************************************************************)
(* Increments: a request pays, asks the model for new tasks against the    *)
(* TASKS.md it read, and appends them as a new version; a worker job then  *)
(* opens issues for the tasks that have none.  The request keeps the stage *)
(* object it read (expire_on_commit is off) while the stage moves on, and  *)
(* the recovery sweep returns what a lost request has paid.                *)
(***************************************************************************)
EXTENDS Naturals, Sequences, FiniteSets

CONSTANTS Inc,          \* requests, each the increment it creates
          IdeaOf,       \* the idea a request promotes, or "none"
          TaskOf,       \* the tasks the model answers with, also ones it was shown
          Baseline,     \* the tasks of the first version
          Edited,       \* the tasks of a version the user writes or generates
          MaxVersion,   \* bound: versions of TASKS.md
          MaxFaults     \* bound: lost or stalled requests, crashed jobs

VARIABLES versions,     \* stage_versions of the tasks stage; the last is current
          final,        \* the stage is finalised
          inc,          \* the increment rows
          req,          \* their requests
          idea,         \* the increment an idea is planned in, or "open"
          job,          \* increment_push
          rows,         \* integration_push_tasks: the increment that opened the issue
          issues,       \* the issues opened for a task
          lock,         \* the write lock of the repository
          sweeping,     \* the stuck rows a sweep has read and not yet written
          outcome,      \* what became of its tasks: none, appended, overwritten
          faults, orphans

vars == <<versions, final, inc, req, idea, job, rows, issues, lock, sweeping, outcome,
          faults, orphans>>
sweepVars == <<sweeping, outcome>>
pushVars == <<job, rows, issues, lock, orphans>>

Task == Baseline \cup Edited \cup UNION {TaskOf[i] : i \in Inc}
Current == Len(versions)
Ideas == {IdeaOf[i] : i \in Inc} \ {"none"}
NoJob == [pc |-> "none", version |-> 0]

IncrementsAssumption ==
    /\ IsFiniteSet(Inc) /\ Inc \cap {"none", "free", "open"} = {}
    /\ Task \cap {"none", "queued", "wait", "sync", "finish"} = {}

Init ==
    /\ versions = <<Baseline>> /\ final = TRUE
    /\ inc = [i \in Inc |-> [status |-> "none", paid |-> FALSE, seq |-> 0]]
    /\ req = [i \in Inc |-> [pc |-> "new", version |-> 0, seq |-> 0]]
    /\ idea = [d \in Ideas |-> "open"]
    /\ job = [i \in Inc |-> NoJob]
    /\ rows = [t \in Task |-> IF t \in Baseline THEN "baseline" ELSE "none"]
    /\ issues = [t \in Task |-> IF t \in Baseline THEN 1 ELSE 0]
    /\ sweeping = {} /\ outcome = [i \in Inc |-> "none"]
    /\ lock = "free" /\ faults = 0 /\ orphans = 0

Faulty == faults < MaxFaults /\ faults' = faults + 1

-----------------------------------------------------------------------------
(* generate_increment.                                                     *)

Taken == {inc[i].seq : i \in Inc}
NextSequence == 1 + CHOOSE n \in Taken : \A m \in Taken : m <= n

\* The idea is open and every stage finalised; baseline and next sequence are read.
ReadBaseline(i) ==
    /\ req[i].pc = "new" /\ final
    /\ IdeaOf[i] # "none" => idea[IdeaOf[i]] = "open"
    /\ req' = [req EXCEPT ![i] = [pc |-> "reserve", version |-> Current, seq |-> NextSequence]]
    /\ UNCHANGED <<sweepVars, versions, final, inc, idea, pushVars, faults>>

\* Tx1: the row and its debit.
Reserve(i) ==
    /\ req[i].pc = "reserve"
    /\ req[i].seq \notin Taken
    /\ inc' = [inc EXCEPT ![i] = [status |-> "generating", paid |-> TRUE, seq |-> req[i].seq]]
    /\ req' = [req EXCEPT ![i].pc = "call"]
    /\ UNCHANGED <<sweepVars, versions, final, idea, pushVars, faults>>

\* No credits, or the sequence was taken since: nothing is written.
ReserveRefused(i) ==
    /\ req[i].pc = "reserve"
    /\ req' = [req EXCEPT ![i].pc = "over"]
    /\ UNCHANGED <<sweepVars, versions, final, inc, idea, pushVars, faults>>

\* Tasks the baseline already has are dropped.
Delta(i) == TaskOf[i] \ versions[req[i].version]

Answer(i) ==
    /\ req[i].pc = "call" /\ Delta(i) # {}
    /\ req' = [req EXCEPT ![i].pc = "finalise"]
    /\ UNCHANGED <<sweepVars, versions, final, inc, idea, pushVars, faults>>

Drafted(row) == [row EXCEPT !.status = "draft", !.paid = FALSE]

\* Nothing new, truncated, unsafe, unbalanced, a provider error, a timeout, a
\* cancelled request: _refund_and_mark_draft.
AnswerFails(i) ==
    /\ req[i].pc = "call"
    /\ inc' = [inc EXCEPT ![i] = Drafted(@)]
    /\ req' = [req EXCEPT ![i].pc = "over"]
    /\ UNCHANGED <<sweepVars, versions, final, idea, pushVars, faults>>

StillMine(i) == inc[i].status = "generating"

\* Mutant: the number of the new version is read when it is written.
M_Numbered(i) == TRUE

\* The number was computed from the version that was read: unique (stage_id, version).
Numbered(i) == req[i].version + 1 \notin DOMAIN versions

\* Tx2.  Its status column is not written: a stage that was unlocked stays so.
FinaliseIncrement(i) ==
    /\ req[i].pc = "finalise"
    /\ StillMine(i) /\ Numbered(i) /\ Current < MaxVersion
    /\ versions' = Append(versions, versions[req[i].version] \cup Delta(i))
    /\ inc' = [inc EXCEPT ![i].status = "ready"]
    /\ outcome' = [outcome EXCEPT ![i] = "appended"]
    /\ req' = [req EXCEPT ![i].pc = "promote"]
    /\ UNCHANGED <<sweeping, final, idea, pushVars, faults>>

\* The row was reset meanwhile; or the version exists: IntegrityError, and the
\* row is left to the sweep.
FinaliseFails(i) ==
    /\ req[i].pc = "finalise"
    /\ ~StillMine(i) \/ ~Numbered(i)
    /\ req' = [req EXCEPT ![i].pc = "over"]
    /\ UNCHANGED <<sweepVars, versions, final, inc, idea, pushVars, faults>>

\* create_increment links the idea once its increment is ready.
Promote(i) ==
    /\ req[i].pc = "promote"
    /\ req' = [req EXCEPT ![i].pc = "over"]
    /\ idea' = IF IdeaOf[i] # "none" /\ idea[IdeaOf[i]] = "open"
               THEN [idea EXCEPT ![IdeaOf[i]] = i] ELSE idea
    /\ UNCHANGED <<sweepVars, versions, final, inc, pushVars, faults>>

\* The process ends, or the refund of a failed answer does.
Die(i) ==
    /\ req[i].pc \in {"reserve", "call", "finalise", "promote"} /\ Faulty
    /\ req' = [req EXCEPT ![i].pc = "over"]
    /\ UNCHANGED <<sweepVars, versions, final, inc, idea, pushVars>>

\* recover_stuck_increments selects the rows 15 minutes old, without a lock.  A
\* request that is alive has been stalled for longer than its call may take.
RecoverRead ==
    /\ sweeping = {}
    /\ sweeping' \in SUBSET {i \in Inc : inc[i].status = "generating"} /\ sweeping' # {}
    /\ IF \A i \in sweeping' : req[i].pc = "over" THEN UNCHANGED faults ELSE Faulty
    /\ UNCHANGED <<outcome, versions, final, inc, req, idea, pushVars>>

\* The refunds are awaited, then all rows are written and committed, whatever
\* they have become: also one that was made ready meanwhile.
RecoverWrite ==
    /\ sweeping # {} /\ sweeping' = {}
    /\ inc' = [i \in Inc |-> IF i \in sweeping THEN Drafted(inc[i]) ELSE inc[i]]
    /\ outcome' = [i \in Inc |-> IF i \in sweeping /\ outcome[i] = "appended"
                                 THEN "overwritten" ELSE outcome[i]]
    /\ UNCHANGED <<versions, final, req, idea, pushVars, faults>>

\* The cycle fails before its commit.
RecoverFails ==
    /\ sweeping # {} /\ sweeping' = {}
    /\ UNCHANGED <<outcome, versions, final, inc, req, idea, pushVars, faults>>

-----------------------------------------------------------------------------
(* The stage, meanwhile.                                                   *)

EditTasks ==
    /\ Current < MaxVersion
    /\ versions' = Append(versions, Edited)
    /\ final' = FALSE
    /\ UNCHANGED <<sweepVars, inc, req, idea, pushVars, faults>>

Unlock == final /\ final' = FALSE
          /\ UNCHANGED <<sweepVars, versions, inc, req, idea, pushVars, faults>>
Finalise == ~final /\ final' = TRUE
            /\ UNCHANGED <<sweepVars, versions, inc, req, idea, pushVars, faults>>

-----------------------------------------------------------------------------
(* increment_push.                                                         *)

\* The endpoint and the job ask for ready or pushed; job_id is the increment.
PushIncrement(i) ==
    /\ inc[i].status \in {"ready", "pushed"} /\ job[i].pc = "none"
    /\ job' = [job EXCEPT ![i].pc = "queued"]
    /\ UNCHANGED <<sweepVars, versions, final, inc, req, idea, rows, issues, lock, faults, orphans>>

\* TASKS.md is read before the wait for the repository; an unfinalised stage raises.
StartPush(i) ==
    /\ job[i].pc = "queued"
    /\ job' = [job EXCEPT ![i] = IF final THEN [pc |-> "wait", version |-> Current] ELSE NoJob]
    /\ UNCHANGED <<sweepVars, versions, final, inc, req, idea, rows, issues, lock, faults, orphans>>

LockRepo(i) ==
    /\ job[i].pc = "wait" /\ lock = "free"
    /\ lock' = i
    /\ job' = [job EXCEPT ![i].pc = "sync"]
    /\ UNCHANGED <<sweepVars, versions, final, inc, req, idea, rows, issues, faults, orphans>>

\* Tasks without a row; the others are updated in place.
Missing(i) == {t \in versions[job[i].version] : rows[t] = "none"}

OpenIssue(i, t) ==
    /\ job[i].pc = "sync" /\ t \in Missing(i)
    /\ issues' = [issues EXCEPT ![t] = @ + 1]
    /\ job' = [job EXCEPT ![i].pc = t]
    /\ UNCHANGED <<sweepVars, versions, final, inc, req, idea, rows, lock, faults, orphans>>

RecordIssue(i) ==
    /\ job[i].pc \in Task
    /\ rows' = [rows EXCEPT ![job[i].pc] = i]
    /\ job' = [job EXCEPT ![i].pc = "sync"]
    /\ UNCHANGED <<sweepVars, versions, final, inc, req, idea, issues, lock, faults, orphans>>

\* retire_obsolete_task_issues, then the pull request of the increment's own tasks.
Retire(i) ==
    /\ job[i].pc = "sync" /\ Missing(i) = {}
    /\ LET gone == {t \in Task \ versions[job[i].version] : rows[t] # "none"} IN
         /\ issues' = [t \in Task |-> IF t \in gone THEN issues[t] - 1 ELSE issues[t]]
         /\ rows' = [t \in Task |-> IF t \in gone THEN "none" ELSE rows[t]]
    /\ lock' = "free"
    /\ job' = [job EXCEPT ![i].pc = "finish"]
    /\ UNCHANGED <<sweepVars, versions, final, inc, req, idea, faults, orphans>>

FinishPush(i) ==
    /\ job[i].pc = "finish"
    /\ inc' = [inc EXCEPT ![i].status = "pushed"]
    /\ job' = [job EXCEPT ![i] = NoJob]
    /\ UNCHANGED <<sweepVars, versions, final, req, idea, rows, issues, lock, faults, orphans>>

\* An error or a crash: the increment stays ready and arq tries again.
PushBreaks(i) ==
    /\ job[i].pc \in {"wait", "sync", "finish"} \cup Task /\ Faulty
    /\ orphans' = IF job[i].pc \in Task THEN orphans + 1 ELSE orphans
    /\ lock' = IF lock = i THEN "free" ELSE lock
    /\ job' = [job EXCEPT ![i] = [pc |-> "queued", version |-> 0]]
    /\ UNCHANGED <<sweepVars, versions, final, inc, req, idea, rows, issues>>

-----------------------------------------------------------------------------
Request(i) ==
    \/ ReadBaseline(i) \/ Reserve(i) \/ ReserveRefused(i) \/ Answer(i) \/ AnswerFails(i)
    \/ FinaliseIncrement(i) \/ FinaliseFails(i) \/ Promote(i) \/ Die(i)

Push(i) ==
    \/ PushIncrement(i) \/ StartPush(i) \/ LockRepo(i) \/ RecordIssue(i) \/ Retire(i)
    \/ FinishPush(i) \/ PushBreaks(i) \/ \E t \in Task : OpenIssue(i, t)

Next ==
    \/ \E i \in Inc : Request(i) \/ Push(i)
    \/ RecoverRead \/ RecoverWrite \/ RecoverFails
    \/ EditTasks \/ Unlock \/ Finalise

Spec == Init /\ [][Next]_vars

-----------------------------------------------------------------------------
\* A row is paid while it is being made and once its tasks were appended, a
\* reset one is refunded and has appended nothing, and an idea is planned only in
\* an increment that serves; but for the rows a sweep has read while they were
\* being made and overwritten when they were ready.
ChargedIffServed ==
    /\ \A i \in Inc : outcome[i] # "overwritten" =>
          /\ inc[i].status \in {"generating", "ready", "pushed"} => inc[i].paid
          /\ inc[i].status = "draft" => ~inc[i].paid
          /\ inc[i].status \in {"ready", "pushed"} <=> outcome[i] = "appended"
    /\ \A d \in Ideas : idea[d] # "open" /\ outcome[idea[d]] # "overwritten" =>
          inc[idea[d]].status \in {"ready", "pushed"}

\* Appending never loses a task: only an edit removes one.
TasksKept == \A n \in 2..Current :
    versions[n] = Edited \/ versions[n - 1] \subseteq versions[n]

\* The open issues of a task: its row, the one being recorded, the ones a stop left.
IssuesRecorded ==
    \A t \in Task : issues[t] <= orphans + (IF rows[t] = "none" THEN 0 ELSE 1)
                               + Cardinality({i \in Inc : job[i].pc = t})
=============================================================================
