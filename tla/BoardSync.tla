------------------------------ MODULE BoardSync ------------------------------
(***************************************************************************)
(* The project board and the milestones of an exported workspace           *)
(* (github_projects): a projects_sync job reads the task rows, waits for   *)
(* the repository's lock, and writes what it has read.  An export starts   *)
(* one under a job id that it shares with the one before; GitHub's own     *)
(* deliveries about changed cards start others that may overlap it.        *)
(***************************************************************************)
EXTENDS Naturals, FiniteSets

CONSTANTS
    Task, Phased,       \* the tasks, and those under a phase heading (one phase)
    Slot,               \* jobs with an id of their own; "sync" is the shared id
    MaxTries,           \* JOB_MAX_TRIES
    MaxChanges,         \* exports, and issues closed or reopened
    MaxFaults           \* calls that fail or are throttled, triggers that are lost

VARIABLES
    row,                \* integration_push_tasks: "none", "open", "done"
    live,               \* the push is not failed and has a repository
    allowed,            \* the App may write Projects
    boards,             \* GitHub: the boards with our title
    card, filed,        \* GitHub: the column of each issue, and those under the milestone
    echo,               \* a projects_v2_item delivery waits
    held,               \* the holder of the repository's write lock
    work,               \* the jobs
    unseen,             \* history: the rows changed since a job last read them
    gaveUp,             \* history: a trigger was dropped, or a job dead-lettered
    moves               \* history: [changes, faults]

vars == <<row, live, allowed, boards, card, filed, echo, held, work, unseen, gaveUp, moves>>
remoteVars == <<boards, card, filed>>

Ids == Slot \cup {"sync"}
Absent == [pc |-> "absent", try |-> 0, rows |-> [t \in Task |-> "none"], todo |-> {}, found |-> FALSE]
Queued(n) == [Absent EXCEPT !.pc = "queued", !.try = n]

Init ==
    /\ row = [t \in Task |-> "none"]
    /\ live = TRUE /\ allowed \in BOOLEAN
    /\ boards = 0
    /\ card = [t \in Task |-> "none"] /\ filed = {}
    /\ echo = FALSE /\ held = "none"
    /\ work = [j \in Ids |-> Absent]
    /\ unseen = FALSE /\ gaveUp = FALSE
    /\ moves = [changes |-> 0, faults |-> 0]

Change == moves.changes < MaxChanges /\ moves' = [moves EXCEPT !.changes = @ + 1]
Fault == moves.faults < MaxFaults /\ moves' = [moves EXCEPT !.faults = @ + 1]
At(j, pc) == work[j].pc = pc
Goto(j, pc) == work' = [work EXCEPT ![j].pc = pc]
Unlocked(j) == IF held = j THEN "none" ELSE held

-----------------------------------------------------------------------------
\* An export or an increment has committed its rows; its trigger is dropped
\* while a job of the shared id exists, and when Redis fails.
TriggerBoardSync(t) ==
    /\ live /\ row[t] = "none" /\ Change
    /\ row' = [row EXCEPT ![t] = "open"] /\ unseen' = TRUE
    /\ \/ /\ At("sync", "absent")
          /\ work' = [work EXCEPT !["sync"] = Queued(1)] /\ UNCHANGED gaveUp
       \/ gaveUp' = TRUE /\ UNCHANGED work
    /\ UNCHANGED <<live, allowed, remoteVars, echo, held>>

\* An inbound close or reopen: the board is not triggered.
IssueChanges(t) ==
    /\ row[t] # "none" /\ Change
    /\ row' = [row EXCEPT ![t] = IF @ = "open" THEN "done" ELSE "open"]
    /\ unseen' = TRUE
    /\ UNCHANGED <<live, allowed, remoteVars, echo, held, work, gaveUp>>

PushFails ==
    /\ live /\ live' = FALSE /\ Change
    /\ UNCHANGED <<row, allowed, remoteVars, echo, held, work, unseen, gaveUp>>

\* _route_projects_sync: a job for a push that is still live.
RouteProjectsSync(j) ==
    /\ echo /\ echo' = FALSE
    /\ At(j, "absent")
    /\ work' = IF live THEN [work EXCEPT ![j] = Queued(1)] ELSE work
    /\ UNCHANGED <<row, live, allowed, remoteVars, held, unseen, gaveUp, moves>>

-----------------------------------------------------------------------------
\* _sync_board reads the push and the rows before it waits for the lock.
Read(j) ==
    /\ At(j, "queued")
    /\ work' = [work EXCEPT ![j] = IF live THEN [@ EXCEPT !.pc = "lock", !.rows = row] ELSE Absent]
    /\ unseen' = (unseen /\ ~live)
    /\ UNCHANGED <<row, live, allowed, remoteVars, echo, held, gaveUp, moves>>

Lock(j) ==
    /\ At(j, "lock") /\ held = "none"
    /\ held' = j
    /\ Goto(j, "milestones")
    /\ UNCHANGED <<row, live, allowed, remoteVars, echo, unseen, gaveUp, moves>>

Rows(j) == {t \in Task : work[j].rows[t] # "none"}

\* The rows whose task is under a phase heading; a task before the first
\* heading has no milestone.
UnderPhase(j) == Rows(j) \cap Phased

\* ensure_milestone and set_issue_milestone for every row under the phase.
SyncMilestones(j) ==
    /\ At(j, "milestones")
    /\ filed' = filed \cup UnderPhase(j)
    /\ Goto(j, "find")
    /\ UNCHANGED <<row, live, allowed, boards, card, echo, held, unseen, gaveUp, moves>>

\* ensure_project_v2 looks for our board, then makes one; without the
\* permission the job ends well, with the milestones only.
FindBoard(j) ==
    /\ At(j, "find")
    /\ IF allowed
       THEN /\ work' = [work EXCEPT ![j] =
                  [@ EXCEPT !.pc = IF boards = 0 THEN "create" ELSE "cards", !.todo = Rows(j)]]
            /\ UNCHANGED held
       ELSE work' = [work EXCEPT ![j] = Absent] /\ held' = Unlocked(j)
    /\ UNCHANGED <<row, live, allowed, remoteVars, echo, unseen, gaveUp, moves>>

CreateBoard(j) ==
    /\ At(j, "create")
    /\ boards' = boards + 1
    /\ Goto(j, "cards")
    /\ UNCHANGED <<row, live, allowed, card, filed, echo, held, unseen, gaveUp, moves>>

\* add_project_v2_item and set_project_v2_item_status: only a change is echoed.
SetCard(j, t) ==
    /\ At(j, "cards") /\ t \in work[j].todo
    /\ card' = [card EXCEPT ![t] = work[j].rows[t]]
    /\ echo' = (echo \/ card' # card)
    /\ work' = [work EXCEPT ![j].todo = @ \ {t}]
    /\ UNCHANGED <<row, live, allowed, boards, filed, held, unseen, gaveUp, moves>>

\* An issue or a card that GitHub does not resolve is passed over.
SkipCard(j, t) ==
    /\ At(j, "cards") /\ t \in work[j].todo /\ Fault
    /\ work' = [work EXCEPT ![j].todo = @ \ {t}]
    /\ gaveUp' = TRUE
    /\ UNCHANGED <<row, live, allowed, remoteVars, echo, held, unseen>>

Finish(j) ==
    /\ At(j, "cards") /\ work[j].todo = {}
    /\ work' = [work EXCEPT ![j] = Absent] /\ held' = Unlocked(j)
    /\ UNCHANGED <<row, live, allowed, remoteVars, echo, unseen, gaveUp, moves>>

Underway == {"lock", "milestones", "find", "create", "cards"}

\* A call fails: the job is tried again from its start, or given up.  The
\* push keeps its status.
Fail(j) ==
    /\ work[j].pc \in Underway /\ Fault
    /\ held' = Unlocked(j)
    /\ IF work[j].try < MaxTries
       THEN work' = [work EXCEPT ![j] = Queued(@.try + 1)] /\ UNCHANGED gaveUp
       ELSE work' = [work EXCEPT ![j] = Absent] /\ gaveUp' = TRUE
    /\ UNCHANGED <<row, live, allowed, remoteVars, echo, unseen>>

\* A rate limit: the job is queued again under an id of its own.
Throttle(j) ==
    /\ work[j].pc \in Underway \ {"lock"} /\ Fault
    /\ held' = Unlocked(j)
    /\ \E f \in Slot : (At(f, "absent") \/ f = j)
         /\ work' = [i \in Ids |-> CASE i = f -> Queued(1) [] i = j /\ i # f -> Absent [] OTHER -> work[i]]
    /\ UNCHANGED <<row, live, allowed, remoteVars, echo, unseen, gaveUp>>

Next ==
    \/ \E t \in Task : TriggerBoardSync(t) \/ IssueChanges(t)
    \/ PushFails
    \/ \E j \in Slot : RouteProjectsSync(j)
    \/ \E j \in Ids : \/ Read(j) \/ Lock(j) \/ SyncMilestones(j) \/ FindBoard(j) \/ CreateBoard(j)
                      \/ Finish(j) \/ Fail(j) \/ Throttle(j)
                      \/ \E t \in Task : SetCard(j, t) \/ SkipCard(j, t)

-----------------------------------------------------------------------------
\* One repository has one board, however many syncs look for it at once
\* (ensure_project_v2 under the write lock).
OneBoard == boards <= 1

\* When all is quiet the board shows the rows that were last read, although a
\* sync writes what it read before it waited: writing something older is
\* itself a change, whose delivery starts the sync that repairs it.
BoardFollows ==
    (live /\ ~unseen /\ ~gaveUp /\ ~echo /\ \A j \in Ids : At(j, "absent")) =>
       \A t \in Task : row[t] # "none" =>
          /\ allowed => card[t] = row[t]
          /\ t \in Phased => t \in filed
=============================================================================
