------------------------------ MODULE IssueSync ------------------------------
(***************************************************************************)
(* The way back from GitHub: issues closed and reopened there, pull        *)
(* requests merged there, the webhook deliveries about them, the inbox and *)
(* its replays, and the periodic backfill from the issues list, which all  *)
(* write the same integration_push_tasks rows.                             *)
(*                                                                         *)
(* A worker reads rows, then commits.  The ORM writes the attributes that  *)
(* differ from what it read, so each job keeps a copy of what it saw.      *)
(***************************************************************************)
EXTENDS Naturals, Sequences, SequencesExt, FiniteSets

CONSTANTS Issue,         \* issue numbers with a task row
          Pull,          \* a pull request whose body closes every issue of Closes
          Closes,
          Cap,           \* ISSUES_FETCH_CAP
          MaxReplays,    \* _MAX_REPLAY_ATTEMPTS
          MaxUpdates,    \* bound: changes at GitHub
          MaxFaults,     \* bound: jobs, commits and fetches that fail, moves of the push
          Writers        \* bound: jobs that are between their read and their commit

VARIABLES clock,         \* seconds, of GitHub and of the worker
          gh,            \* GitHub: each issue and the pull request, open and updated_at
          task,          \* integration_push_tasks
          ideas,         \* increment_ideas captured from a reopened issue
          sent,          \* the deliveries GitHub made, by their number
          inbox,         \* github_webhook_events by delivery number
          job,           \* reconcile_event: the running job of each delivery
          fill,          \* backfill_repo
          mark,          \* last_full_backfill_at, 0 is NULL
          live,          \* the push is not failed and its installation matches
          count          \* changes and faults so far

vars == <<clock, gh, task, ideas, sent, inbox, job, fill, mark, live, count>>

Item == Issue \cup {Pull}
NewRow == [state |-> "open", via |-> "none", synced |-> 0]
Start == Cardinality(Item)
IdleJob == [pc |-> "idle", seen |-> [i \in Issue |-> NewRow], idea |-> FALSE]
IdleFill == [pc |-> "idle", started |-> 0, seen |-> [i \in Issue |-> NewRow], list |-> <<>>]

Init ==
    /\ clock = Start
    /\ LET order == SetToSeq(Item) IN
         gh = [i \in Item |-> [open |-> TRUE, at |-> CHOOSE n \in 1..Start : order[n] = i]]
    /\ task = [i \in Issue |-> NewRow]
    /\ ideas = [i \in Issue |-> 0]
    /\ sent = <<>>
    /\ inbox = <<>>
    /\ job = <<>>
    /\ fill = IdleFill
    /\ mark = 0
    /\ live = TRUE
    /\ count = [updates |-> 0, faults |-> 0]

-----------------------------------------------------------------------------
(* GitHub.  One update a second.                                           *)

Emit(events) ==
    /\ sent' = sent \o events
    /\ inbox' = inbox \o [n \in DOMAIN events |-> [row |-> "none", replays |-> 0, queued |-> FALSE]]
    /\ job' = job \o [n \in DOMAIN events |-> IdleJob]

Event(i, kind, at) == [item |-> i, kind |-> kind, at |-> at]

\* A user closes or reopens an issue.
Toggle(i) ==
    /\ count.updates < MaxUpdates
    /\ gh' = [gh EXCEPT ![i] = [open |-> ~@.open, at |-> clock + 1]]
    /\ clock' = clock + 1
    /\ count' = [count EXCEPT !.updates = @ + 1]
    /\ Emit(<<Event(i, IF gh[i].open THEN "closed" ELSE "reopened", clock + 1)>>)
    /\ UNCHANGED <<task, ideas, fill, mark, live>>

\* The pull request is merged and GitHub closes the open issues it names a second later.
Merge ==
    LET closed == {i \in Closes : gh[i].open} IN
    /\ count.updates < MaxUpdates /\ gh[Pull].open
    /\ gh' = [i \in Item |-> CASE i = Pull -> [open |-> FALSE, at |-> clock + 1]
                               [] i \in closed -> [open |-> FALSE, at |-> clock + 2]
                               [] OTHER -> gh[i]]
    /\ clock' = clock + 2
    /\ count' = [count EXCEPT !.updates = @ + 1]
    /\ Emit(<<Event(Pull, "merged", clock + 1)>>
            \o [n \in 1..Cardinality(closed) |-> Event(SetToSeq(closed)[n], "closed", clock + 2)])
    /\ UNCHANGED <<task, ideas, fill, mark, live>>

-----------------------------------------------------------------------------
(* The ingress: enqueue, then commit the row.  Nothing makes a delivery    *)
(* arrive: a lost one is one that is never received.                       *)

Faulty == count.faults < MaxFaults
Fault == count' = [count EXCEPT !.faults = @ + 1]

Receive(e) ==
    /\ inbox[e].row = "none"
    /\ inbox' = [inbox EXCEPT ![e] = [@ EXCEPT !.row = "received", !.queued = TRUE]]
    /\ UNCHANGED <<clock, gh, task, ideas, sent, job, fill, mark, live, count>>

\* The commit fails after the enqueue: the job runs and GitHub's retry is new.
ReceiveUncommitted(e) ==
    /\ inbox[e].row = "none" /\ Faulty
    /\ inbox' = [inbox EXCEPT ![e].queued = TRUE]
    /\ Fault
    /\ UNCHANGED <<clock, gh, task, ideas, sent, job, fill, mark, live>>

\* The job expires or runs out of tries.
LoseJob(e) ==
    /\ inbox[e].queued /\ Faulty
    /\ inbox' = [inbox EXCEPT ![e].queued = FALSE]
    /\ Fault
    /\ UNCHANGED <<clock, gh, task, ideas, sent, job, fill, mark, live>>

\* _replay_unprocessed_deliveries, of a row an hour old.
Replay(e) ==
    /\ inbox[e].row = "received" /\ ~inbox[e].queued /\ inbox[e].replays < MaxReplays
    /\ inbox' = [inbox EXCEPT ![e] = [@ EXCEPT !.queued = TRUE, !.replays = @ + 1]]
    /\ UNCHANGED <<clock, gh, task, ideas, sent, job, fill, mark, live, count>>

-----------------------------------------------------------------------------
(* The transitions of a task row.                                          *)

Stale(row, at) == at < row.synced

Upgraded(row, via) ==
    IF via = "pr_merge" /\ row.state = "done" THEN [row EXCEPT !.via = "pr_merge"] ELSE row

ApplyDone(row, via, at) ==
    LET up == Upgraded(row, via) IN
    IF Stale(row, at) THEN up
    ELSE IF up.state = "done" THEN [up EXCEPT !.synced = at]
    ELSE [state |-> "done", via |-> via, synced |-> at]

ApplyReopen(row, at) ==
    IF Stale(row, at) THEN row
    ELSE IF row.state = "done" THEN [state |-> "open", via |-> "none", synced |-> at]
    ELSE [row EXCEPT !.synced = at]

\* The UPDATE of an ORM row: attributes that differ from the ones read.
Written(row, seen, new) ==
    [f \in DOMAIN row |-> IF new[f] # seen[f] THEN new[f] ELSE row[f]]

\* The rows an event may change, and what it makes of one.
Touched(e) == CASE sent[e].kind = "merged" -> Closes
                [] OTHER -> {sent[e].item}
Applied(e, row) ==
    CASE sent[e].kind = "closed" -> ApplyDone(row, "manual", sent[e].at)
      [] sent[e].kind = "merged" -> ApplyDone(row, "pr_merge", sent[e].at)
      [] sent[e].kind = "reopened" -> ApplyReopen(row, sent[e].at)

-----------------------------------------------------------------------------
(* reconcile_event.                                                        *)

Writing == Cardinality({e \in DOMAIN job : job[e].pc # "idle"}) + (IF fill.pc = "idle" THEN 0 ELSE 1)

\* A push that is failed or of another installation matches no task.
StartJob(e) ==
    /\ inbox[e].queued /\ job[e].pc = "idle" /\ Writing < Writers
    /\ inbox' = [inbox EXCEPT ![e].queued = FALSE]
    /\ job' = [job EXCEPT ![e] = [pc |-> IF live THEN "matched" ELSE "ignored", seen |-> task,
                   idea |-> live /\ sent[e].kind = "reopened" /\ ideas[sent[e].item] = 0]]
    /\ UNCHANGED <<clock, gh, task, ideas, sent, fill, mark, live, count>>

CommitJob(e) ==
    /\ job[e].pc # "idle"
    /\ task' = IF job[e].pc = "ignored" THEN task
               ELSE [i \in Issue |-> IF i \in Touched(e)
                       THEN Written(task[i], job[e].seen[i], Applied(e, job[e].seen[i]))
                       ELSE task[i]]
    /\ ideas' = IF job[e].idea THEN [ideas EXCEPT ![sent[e].item] = @ + 1] ELSE ideas
    /\ inbox' = IF inbox[e].row = "none" THEN inbox ELSE [inbox EXCEPT ![e].row = "processed"]
    /\ job' = [job EXCEPT ![e] = IdleJob]
    /\ UNCHANGED <<clock, gh, sent, fill, mark, live, count>>

-----------------------------------------------------------------------------
(* backfill_repo.                                                          *)

\* reconcile_drift or a resync of the user: read the rows and the clock.
StartFill ==
    /\ live /\ fill.pc = "idle" /\ Writing < Writers
    /\ clock' \in {clock, clock + 1} /\ clock' <= Start + MaxUpdates
    /\ fill' = [pc |-> "fetch", started |-> clock', seen |-> task, list |-> <<>>]
    /\ UNCHANGED <<gh, task, ideas, sent, inbox, job, mark, live, count>>

\* list_issues, pull requests included: least recently updated first, silently cut at Cap.
Listed(since) ==
    LET rows == SetToSortSeq({i \in Item : gh[i].at >= since},
                             LAMBDA i, j : gh[i].at < gh[j].at)
    IN SubSeq(rows, 1, IF Len(rows) < Cap THEN Len(rows) ELSE Cap)

Fetch ==
    /\ fill.pc = "fetch"
    /\ fill' = [fill EXCEPT !.pc = "commit",
                  !.list = [n \in DOMAIN Listed(mark) |->
                              [item |-> Listed(mark)[n]] @@ gh[Listed(mark)[n]]]]
    /\ UNCHANGED <<clock, gh, task, ideas, sent, inbox, job, mark, live, count>>

\* The call fails, or GitHub no longer knows the installation.
FetchFails ==
    /\ fill.pc = "fetch" /\ Faulty
    /\ fill' = IdleFill
    /\ Fault
    /\ UNCHANGED <<clock, gh, task, ideas, sent, inbox, job, mark, live>>

M_ResolvedMark == fill.started

\* A truncated sweep resumes at the newest row it saw; a stalled one skips ahead.
ResolvedMark ==
    LET newest == Max({fill.list[n].at : n \in DOMAIN fill.list}) IN
    IF Len(fill.list) < Cap THEN fill.started
    ELSE IF newest > mark THEN newest
    ELSE fill.started

FilledRow(i) ==
    LET hits == SelectSeq(fill.list, LAMBDA r : r.item = i) IN
    IF hits = <<>> THEN fill.seen[i]
    ELSE IF hits[1].open THEN ApplyReopen(fill.seen[i], hits[1].at)
    ELSE ApplyDone(fill.seen[i], "manual", hits[1].at)

CommitFill ==
    /\ fill.pc = "commit"
    /\ task' = [i \in Issue |-> Written(task[i], fill.seen[i], FilledRow(i))]
    /\ mark' = ResolvedMark
    /\ fill' = IdleFill
    /\ UNCHANGED <<clock, gh, ideas, sent, inbox, job, live, count>>

\* The push fails, or is completed again by an export: events in between are ignored.
PushMoves ==
    /\ Faulty
    /\ live' = ~live
    /\ Fault
    /\ UNCHANGED <<clock, gh, task, ideas, sent, inbox, job, fill, mark>>

-----------------------------------------------------------------------------
Next ==
    \/ Merge \/ StartFill \/ Fetch \/ FetchFails \/ CommitFill \/ PushMoves
    \/ \E i \in Issue : Toggle(i)
    \/ \E e \in DOMAIN sent :
         \/ Receive(e) \/ ReceiveUncommitted(e) \/ LoseJob(e) \/ Replay(e)
         \/ StartJob(e) \/ CommitJob(e)

-----------------------------------------------------------------------------
Settled == fill.pc = "idle" /\ \A e \in DOMAIN job : job[e].pc = "idle"

\* A sweep repairs whatever was lost: behind its mark every task agrees with its issue.
InSync ==
    Settled =>
        \A i \in Issue : gh[i].at < mark => (task[i].state = "open" <=> gh[i].open)
=============================================================================
