----------------------------- MODULE Workspaces -----------------------------
(***************************************************************************)
(* The workspaces of one user: created under a quota, moved to the trash,  *)
(* restored from it, and deleted by the retention job once their clock has *)
(* run out.  The job works in batches: it selects ids, writes an audit     *)
(* line for each, and deletes them by id in a second statement.            *)
(***************************************************************************)
EXTENDS Naturals, FiniteSets

CONSTANTS Space,        \* workspaces
          Quota,        \* max_active_workspaces_per_user
          TrashDays,    \* retention_trash_days
          LegacyDays,   \* retention_legacy_archived_days
          BatchSize, Cap,
          MaxClock,     \* bound: days
          MaxRestores   \* bound: restores

WorkspacesAssumption ==
    /\ IsFiniteSet(Space) /\ "free" \notin Space
    /\ Quota \in Nat /\ MaxRestores \in Nat

VARIABLES space,    \* the rows: state, archived_at, retention_ack_version
          create,   \* WorkspaceService.create of a workspace
          user,     \* the lock of the user row
          job,      \* purge_trashed_workspaces
          clock, restores,
          lost      \* workspaces deleted although they were not in the trash

vars == <<space, create, user, job, clock, restores, lost>>

Idle == [pc |-> "idle", now |-> 0, left |-> 0, ids |-> {}]
Active == {w \in Space : space[w].state = "active"}
NewRow(state) == [state |-> state, at |-> 0, acked |-> FALSE]

Init ==
    /\ space = [w \in Space |-> NewRow("none")]
    /\ create = [w \in Space |-> "new"]
    /\ user = "free"
    /\ job = Idle /\ clock = 0 /\ restores = 0 /\ lost = {}

-----------------------------------------------------------------------------
(* WorkspaceService.                                                       *)

\* Mutant: the count is taken without the lock of the user row.
M_LockUser(w) == UNCHANGED user
LockUser(w) == user = "free" /\ user' = w

\* The statement is valid and a route exists; then lock and count.
CountActive(w) ==
    /\ create[w] = "new"
    /\ LockUser(w)
    /\ create' = [create EXCEPT ![w] = IF Cardinality(Active) < Quota THEN "insert" ELSE "refused"]
    /\ UNCHANGED <<space, job, clock, restores, lost>>

\* The workspace and its four stages; the spec is a draft, the others are locked.
Insert(w) ==
    /\ create[w] = "insert"
    /\ space' = [space EXCEPT ![w] = NewRow("active")]
    /\ create' = [create EXCEPT ![w] = "done"]
    /\ user' = "free"
    /\ UNCHANGED <<job, clock, restores, lost>>

\* workspace_quota_exceeded, or the insert fails: the session is closed.
CreateFails(w) ==
    /\ create[w] \in {"insert", "refused"}
    /\ create' = [create EXCEPT ![w] = "new"]
    /\ user' = "free"
    /\ UNCHANGED <<space, job, clock, restores, lost>>

\* A dialog that shows the policy sends its version; an old client does not.
Archive(w, acked) ==
    /\ space[w].state \in {"active", "archived"}
    /\ space' = [space EXCEPT ![w] = [state |-> "archived", at |-> clock, acked |-> acked]]
    /\ UNCHANGED <<create, user, job, clock, restores, lost>>

\* The quota is not asked: the user's own data returns.
Restore(w) ==
    /\ space[w].state = "archived" /\ restores < MaxRestores
    /\ space' = [space EXCEPT ![w] = NewRow("active")]
    /\ restores' = restores + 1
    /\ UNCHANGED <<create, user, job, clock, lost>>

-----------------------------------------------------------------------------
(* The purge.                                                              *)

\* _trashed_workspace_predicate.
Expired(w, now) ==
    /\ space[w].state = "archived"
    /\ space[w].at + (IF space[w].acked THEN TrashDays ELSE LegacyDays) < now

StartPurge ==
    /\ job.pc = "idle"
    /\ job' = [Idle EXCEPT !.pc = "select", !.now = clock, !.left = Cap]
    /\ UNCHANGED <<space, create, user, clock, restores, lost>>

Least(m, n) == IF m < n THEN m ELSE n

\* SELECT ... LIMIT, and the audit lines.
SelectBatch ==
    /\ job.pc = "select"
    /\ LET all == {w \in Space : Expired(w, job.now)}
           limit == Least(BatchSize, job.left)
       IN IF all = {} \/ limit = 0 THEN job' = Idle
          ELSE \E ids \in SUBSET all :
                 /\ Cardinality(ids) = Least(limit, Cardinality(all))
                 /\ job' = [job EXCEPT !.pc = "delete", !.ids = ids]
    /\ UNCHANGED <<space, create, user, clock, restores, lost>>

\* DELETE ... WHERE id IN (batch), with everything below the workspaces.
DeleteBatch ==
    /\ job.pc = "delete"
    /\ space' = [w \in Space |-> IF w \in job.ids THEN NewRow("purged") ELSE space[w]]
    /\ lost' = lost \cup {w \in job.ids : space[w].state # "archived"}
    /\ job' = IF Cardinality(job.ids) < Least(BatchSize, job.left) THEN Idle
              ELSE [job EXCEPT !.pc = "select", !.left = @ - Cardinality(job.ids), !.ids = {}]
    /\ UNCHANGED <<create, user, clock, restores>>

\* The worker stops; the cron starts over.
PurgeDies ==
    /\ job.pc # "idle"
    /\ job' = Idle
    /\ UNCHANGED <<space, create, user, clock, restores, lost>>

Day ==
    /\ clock < MaxClock /\ clock' = clock + 1
    /\ UNCHANGED <<space, create, user, job, restores, lost>>

-----------------------------------------------------------------------------
Next ==
    \/ \E w \in Space : \/ CountActive(w) \/ Insert(w) \/ CreateFails(w) \/ Restore(w)
                        \/ \E acked \in BOOLEAN : Archive(w, acked)
    \/ StartPurge \/ SelectBatch \/ DeleteBatch \/ PurgeDies \/ Day

Spec == Init /\ [][Next]_vars

-----------------------------------------------------------------------------
\* Only restores lead over the quota.
WithinQuota == Cardinality(Active) <= Quota + restores

\* What is deleted was in the trash when it was deleted.
OnlyTrashPurged == lost = {}
=============================================================================
