# Verification of Thought2Build

TLA+ models of the parts of Thought2Build that hold money, long-running work and state shared
with other systems, the TLC configurations that check them on small instances, and TLAPS proofs
of what matters most. `PROJECT.json` lists components, runs, mutants, the map from definitions
to source lines, findings, hazards and theorems.

    tlc -config CreditLedger_lending.cfg MCCreditLedger     # a run
    tlapm CreditLedgerProofs.tla                            # the proofs: also of
    # GenerationRunProofs, RefinementProofs, StageGateProofs, BillingInboxProofs,
    # RazorpayProofs, LemonProofs and ServicesProofs

## 1. The system

Thought2Build turns a problem statement into a chain of documents (spec, plan, harness,
tasks), one *stage* of a *workspace* each, generated by LLM calls that cost credits, and exports
them to a GitHub repository that it then follows. The backend is a FastAPI service with
PostgreSQL (the truth), Redis (caches, leases, sessions, the arq queue) and arq worker processes.

| Component | State | Operations | Interacts with |
|---|---|---|---|
| Credit ledger (`credit_service.py`) | balance, ledger entries, packs, debts, allocation rows | get_balance, credit, grant with debt recovery, deduct, refund, reversal, release | everything that charges; billing handlers |
| Settlement (`razorpay_settlement.py`) | cash refunded and disputes lost, per payment | settle_pack, recover_attempts | ledger, billing inbox |
| Billing inbox (`billing_worker.py`, `routers/billing.py`) | webhook rows, checkout attempts, reconcile state | receive, claim, dispatch, retry, sweep, reconcile, purge, correct | providers, ledger |
| Generation runs (`generation_runs.py`) | run rows, banked sections, cancel request, deadline | create, checkpoint, lock, settle, offer and load a resume | stage manager, sweep, ledger |
| Stage pipeline (`stage_manager.py`, `worker.py`) | stage row (status, version, quality gate), versions | generate, resume, replay, execute, heartbeat, save, refine, patch, edit, finalise, rollback, override | queue, ledger, runs |
| Model routing (`services/llm`) | circuits of the providers, per process | resolve a route, fall back, record outcomes | pipeline, storyboards, evaluations |
| Artifact checks (`artifact_validator.py`, linters, `online_eval.py`) | the construction verdict of a workspace | validate, rewrite, merge, lint, verify | pipeline, exports |
| Recovery sweep (`recovery_service.py`) | a Redis leader lock | settle expired runs, close hung checks, refund stuck decks and increments | runs, stages, storyboards, increments |
| Admission (`pipeline/admission.py`) | process counter, Redis leases | admit, hand over, resume, release | generate, worker |
| Job queue (`queue.py`, `worker.py`) | arq keys, dead letters, heartbeat | enqueue, run, retry, requeue, dead-letter | every background job |
| Storyboards, increments | own rows in `generating` | charge, generate, recover, share | ledger, sweep |
| Workspaces, retention | workspaces, trash clocks | create, trash, restore, purge | everything below a workspace |
| GitHub (`services/integrations`, `github_export_service.py`) | installations, push rows, issue rows, board, inbox, tokens, budgets, locks | connect, export, resync, reconcile, back-fill, check pull requests, revoke | GitHub, tasks stage |
| Evaluations (`services/evals`) | evaluation rows, batches | score, submit, collect, revalidate | versions, providers |
| Sessions, edge (`auth_service.py`, `middleware`) | refresh tokens, session index, windows, nonces | sign in, rotate, revoke, limit, check a nonce | every request |
| Page (`src/frontend`) | stream, store, editor buffer | stream, poll, reconnect, retry, save | stage API |

What makes each part correct, and what is hard to test about it:

- **Ledger.** A chain of refunds, disputes, grants and refunds of deductions must never lose,
  invent or double-claim a credit, never hit one of its own `ValueError`s or CHECK constraints
  (the webhook would fail for ever), and never give lapsed value back.
- **Billing.** Each payment is granted once and reversed to the latest known state, with
  webhooks lost, repeated and out of order, and rows reclaimed under a live worker.
- **Runs and pipeline.** One charge buys one artifact or is returned; a cancel wins over a save;
  a stage is `in_progress` exactly while a run is running. The hard states are interleavings of
  request, worker, heartbeat, cancel, sweep, redelivered jobs and crashes around two row locks.
- **Stages.** No blocked, unchecked or drifted version is finalised; late background findings
  never land on another version; a paid change is applied to the text it was made from.
- **Chunks and routing.** What a parallel draft finished is banked; a failing provider is left
  for one that can serve what was paid for.
- **Artifact checks.** The rewrites and the paid merge lose nothing, what passes is covered, and
  a package carries the verdict of its own versions.
- **Admission, queue.** Slots are neither leaked nor handed out twice; accepted work ends.
- **Storyboards, increments, workspaces.** Charged exactly when served; no version overwritten;
  the quota holds; only expired trash is deleted.
- **GitHub.** One issue per task, one board, rows that follow GitHub whatever is lost; a rate
  limit is only a delay; an installation is its confirmed user's; a check fails open.
- **Sessions, edge.** A sign-out reaches every session and has a cause; a window is never passed
  twice nor skipped.

## 2. Modules

| Module | Models |
|---|---|
| `CreditLedger`, `CreditLedgerProofs` | one user's credit accounts, and their theorems |
| `PaymentSettlement` | what billing promises about one purchase (the abstract specification) |
| `Purchase` | the pack of one purchase and what both providers promise about it |
| `BillingInbox` | the webhook inbox: rows, claims, retries, sweep, purge |
| `RazorpayBilling`, `LemonBilling` | one purchase at each provider, over `BillingInbox`, with its lanes and corrections |
| `BillingInboxProofs`, `RazorpayProofs`, `LemonProofs` | their theorems, the refinement of `PaymentSettlement` among them |
| `GenerationRun`, `GenerationRunProofs` | one stage and its generation runs, and their theorems |
| `StageRows` | the stage rows and their versions, and what holds of them whoever moves them |
| `StageGate` | the stages after generation: finalise, edit, unlock, rollback, override, background checks, sweep |
| `StageGateProofs` | theorems about `StageGate` |
| `Refinement`, `RefinementProofs` | refine with accept-diff, and the harness patch: charge, call, compensate, apply; and its theorems |
| `ChunkGeneration` | the waves of parallel chunks of one draft: attempts, bulkhead, banking, slices |
| `ModelRouting` | catalog, tier policies, complexity floor, router, circuits and runtime fallback |
| `HarnessChecks`, `TaskChecks` | what the validators and linters compute, as operators over parsed documents |
| `ArtifactGate`, `ArtifactInputs` | rewrites, gate, patches and reviews of a harness and its tasks; the documents they are checked with |
| `PackageVerdict` | the construction verdict, computed in the background and by exports |
| `ClientStream` | the page: stream, polling, reconnection, retry, delayed saves |
| `Admission` | process, user and provider slots, and their hand-over to the worker |
| `JobQueue` | arq's two lanes, the job wrapper, dead letters, the worker's heartbeat |
| `Storyboards`, `Increments`, `Workspaces` | the documents beside the stages, and the workspace itself |
| `GitHubExport`, `IssueSync`, `BoardSync` | pushing a workspace, following its issues, drawing its board |
| `GitHubClient`, `Installation` | one job's calls with tokens, budgets, breaker and lock; connecting and losing the App |
| `PullReview` | the acceptance check on pull requests |
| `Evaluations` | scoring of a version, inline and by batch |
| `Sessions`, `RateLimit` | sign-in and refresh rotation; nonces and windows of a request |
| `Services`, `ServicesProofs` | `Workspaces`, `Storyboards`, `Increments`, `Admission`, `JobQueue` and `Evaluations` side by side, what they promise, and its theorems |
| `MCCreditLedger`, `MCGenerationRun`, `MCBilling`, `MCStages`, `MCServices` | the instances for TLC |

Operators named `M_...` are plausible bugs ("mutants") of the definition they precede. They
are used by no specification: each is there to show that a property notices the bug.

`RazorpayBilling` and `LemonBilling` extend `BillingInbox`; `TaskChecks` extends `HarnessChecks`,
and `ArtifactGate` both. The components behind `MCStages` and `MCServices` meet through rows that
each models as its own (the tasks version that an export, an increment or a board reads), so no
property of one depends on the state of another, and one behaviour moves one of them: the
*scenario* picked in `Init`. That keeps the interleavings inside a component complete and those
between unrelated components out.

### CreditLedger

Every operation on a user's credits first takes the user row `FOR UPDATE`
(`_expire_user_packs`), so the operations of a user are serial and one open transaction (`tx`)
is enough. What is *not* atomic are the flushes inside a transaction (CHECK constraints are
evaluated at each) and the clock, which the code reads more than once. So a transaction is
split into the iterations of its loops: `Begin` runs in `GetBalance`, `Grant`, `Deduct`,
`Refund`, `Reverse` and `Settle`; `Expire` is one pack of the lazy sweep; `RecoverDebt` one
debt paid from a grant; `DrainPack` one pack of a deduction; `ReverseSource`, `ReverseDonor`
and `ReverseDone` the three sources of a reversal; `SettleLess` and `ReleaseDirect` the
release of a won dispute. The mutual recursion of `_restore_pack_value` and
`_return_reversal_recovery` is the explicit stack `todo`, whose frames are the calls.

`pack`, `debt`, `entry` are rows; `recov[p][q]` and `used[e][p]` are the unreturned parts of
the two kinds of `credit_pack_allocations`. Cents, credits and the proportional floor
divisions are kept. Ids, ledger reasons, metrics and the Redis balance cache are left out.
The packs of one user are granted once each; Razorpay packs are settled by `settle_pack`, the
others by `apply_refund_reversal` alone (Lemon Squeezy, whose order total may include tax).

### GenerationRun

One stage; `Run` are the runs that may be created on it. A transaction that waits for a second
row lock while it holds a first one is two steps (`SaveLock`/`SaveCommit`,
`SettleLock`/`SettleCommit`, `RecoverLock`/`RecoverCommit`, `BeatStage`/`BeatRun`); every other
transaction is one step. Who holds the run row follows from `ctl` (where the owner of the run
is) and `rec`; a heartbeat (`beat`) is the only one to hold the stage row across steps.

| Code | Actions |
|---|---|
| `generate` | `Generate`, `Resume`, `GenerateCached`, `Enqueue`, `QueueUnavailable`, `ReplayCached` |
| `execute_queued_generation` | `Deliver`, `Prepare`, `PrepareStops` |
| pipeline body | `Checkpoint`, `DraftStops`, `Drafted`, `Validate`, `SaveLock`, `SaveRefused`, `SaveCommit`, `SaveTimesOut` |
| `terminalize_interrupted_run` | `SettleLock`, `SettleCommit`, `Terminalize` |
| `_stage_db_heartbeat` | `BeatStage`, `BeatRun`; a deadlock victim is `BeatAborted`, `PipelineAborted` or `RecoveryAborted` |
| cancel endpoint, sweep | `Cancel`; `RecoverLock`, `RecoverCommit` |
| edits, rollback and unlock, finalise | `EditStage`, `Rollback`, `Finalise`, `EditInputs` |
| environment | `Interrupt` (process killed, job slice used up), `DeadlinePasses`, `StatementTimeout` |

- A section is a member of `Part`; a document is the set of its sections. What the validators
  say, and whether the provider delivers, is a nondeterministic choice here; `ChunkGeneration`,
  `ModelRouting` and `ArtifactGate` look inside.
- `GenerationControl` polls Redis and the database, so its owner *may* have noticed a stop
  (`Observed`), and has certainly noticed the deadline at a checkpoint, which compares clocks.
- The sweep's heartbeat criterion never selects a run before its deadline does (the grace is
  at least the deadline), so only the deadline is modelled. Its lane for stages without a
  running run finds nothing: `InProgressHasRun`.
- generate, edits and problem-statement updates lock the workspace row, so they are atomic
  with respect to each other; the `IntegrityError` branches of `generate` are unreachable.
- A draft whose sections are all banked but that fails later is saved as a complete but
  unchecked text and its charge is refunded; `delivered` therefore counts saves only.

### Billing

One purchase. A row of the inbox is received, claimed (`status` and age), handled in the
transaction of its handler, and marked; a crash, a failing call or a commit that is lost sits
between any two. Handlers of Razorpay take the payment's lock and see all of it; Lemon Squeezy
has no such lock, so `Lane2Read` and `Lane2Apply`, and the lookup and the parking of a refund,
are separate steps. The reconcile run's lanes read the provider and apply what they read later.
`PaymentSettlement` is the abstract specification: a pack appears only for captured money, or is
marked for good as granted on somebody's word (`vouched`), and the cash on it only rises, to at most
what was refunded. `admin_correction` asks Razorpay for the payment, so a Razorpay pack is never
vouched for; of a Lemon Squeezy order nobody asks the provider (routers/billing.py:526-563), and the
audit row of the correction is the mark.

### Stages and artifacts

`StageGate` keeps for each stage its row, its version history with the identity of the inputs it
was made from, the gate, and the jobs of the background checks, which read a version, answer
later, and write under the row lock. What a linter says of a text is one of four qualities.
`Refinement` is a charge, a provider call without a lock, and either an application that compares
versions or up to three compensating refunds. `ChunkGeneration` has one state per chunk task
(waiting, calling, backing off, done), the set of banked parts, and the deadline, the job slice
and cancellation that stop the wave. In `HarnessChecks` a document is a sequence of headings with
parsed bodies; an identifier, path or test is a model value, and what two regular expressions
of different strictness see of it is part of the value. A block may be cut short and a section may leave
a fence open; the three ways in which the code follows fences are kept apart (a scan of file blocks
starts anew at each File heading, `headings` skips to the closing fence, the deduplication toggles). A
task's dependencies are spelt with the colon that the validator reads, with the label that the prompt
asks for and the linter reads, or out of reach of both.

### Services

Each step between two awaits that touch shared state is an action, a Redis command or a
transaction is atomic, and a job or request is a record with a program counter. Redis and GitHub
may fail where the code handles it (a billing webhook and an evaluation batch are answered though
Redis refused the job, and wait as a stored row for their cron), jobs are killed and delivered again, deliveries are lost,
repeated and reordered. Windows of time are small integers of a clock that advances on its own.
`ModelRouting` carries the catalog's recommendations and the policy tables as data, so that its
properties are about the tables as much as about the router.

## 3. Runs

Bounds are the constants of the `.cfg` files and of the `INSTANCE`s in `MCBilling`, `MCStages`
and `MCServices`. These three extend `Purchase`, `Refinement` and `Services`, so that what is
proved there is what they check.

| Run | Instance | Shows |
|---|---|---|
| `ledger_lending` | 3 Razorpay packs (2, 1, 1 credits), 2 deductions | `NeverRaises`, `SourcePaysFirst`, `Provenance`, `BalanceBacked`, `EntitlementSettled` |
| `ledger_clock` | a Razorpay and a taxed Lemon pack, two expiries, the clock moves inside transactions | `ExpiredNeverReclaimed`, `FullReversalKeepsNothing`, `LapsedNeverUsable` |
| `run_charges` | 3 runs, 2 sections, 1 stop, 1 edit | `ChargeBuysOnce`, `KeptChargeRedeemable` |
| `run_races` | 2 runs, cache, heartbeats, 2 stops, 1 crash, 1 edit | `InProgressHasRun`, `CancelWins`, `CountsMatch`, `SettledOnce` |
| `billing_settlement` | five scenarios: a full refund with purge, two refund levels, a dispute with four decisions, doubled Lemon orders with the administrator, refunds before the order | `GrantedOnce`, `RefundRemembered`, `LastDecisionWins`, and the refinement `SettlesPayment` |
| `billing_settles` | every webhook lost; a parked refund; under fairness | `PaidIsGranted`, `RefundReachesPack`, `RowsFinish` |
| `stages` | eight scenarios, below | `FinalisedMatchesUpstream`, `GateHonoured`, `FinalisedIsReady`, `NoLostEdit`, `PaidIffServed`, `PartsBanked`, `PageSound`, `CoverageKept`, `TasksChecked`, `ReportMatches` |
| `services` | twenty scenarios, below | `SlotsReturned`, `IssuesRecorded`, `InSync`, `ChargedIffServed`, `TasksKept`, `WithinQuota`, `WorkKept`, `RoutedAsPaid`, `EdgeHolds` |

Scenarios of `stages`: *drift* (two stages, edits, generations, rollbacks), *gate* (texts that only
the external lookup blocks, with technology check and critic), *sweep* (every kind of bad text,
hung checks), *edits* (two refinements and a patch of one stage), *chunks* (two chunks beside each
other and one after them, over two providers), *client* (a page with two stages), *artifacts*
(harnesses of up to two files, doubled or split, task lists of up to three tasks), *package* (two
verifiers and two exports). Of `services`: *admission*, *export* (the repository may go away) and *retries* (two faults), *sync*, *columns* (the board),
*boards* (decks), *increments*, *spaces*, *jobs*, *evals*, *tabs*, *signups*, *edge*, *clients*,
*calls*, *breaker*, *review*, *reviews*, *connect*, *routes*. A property that speaks of several
scenarios is the conjunction of the properties of their modules, where each is stated and commented.

Why the bounds are enough to meet the interesting cases. Three packs are the least with which a
pack that lent to a reversal is itself reversed and borrows from a third; two credits in one pack
give a partial refund that is neither nothing nor all; a tax-inclusive total of 3 on a price of 2
makes the floor division round. Two sections give empty, partial and complete banks; three runs give
a resume of a resume, or a fresh run between an offer and its use; two stops let a cancel meet a
deadline on the same run. One purchase is enough because handlers of different payments share only
the ledger, which is a model of its own. Two stages give an upstream and a downstream, three versions
a text that is left and returned to. Two requests, jobs, tabs, exports or clicks race for every
lock and key; one or two faults hit each place of a single operation, and the repair of the first.
Three providers give a first, one without a strong model and one to fall back to.
`MaxOwed`, `MaxTime`, `MaxCredited`, `MaxStops`, `MaxFaults`, `MaxEdits`, `MaxVersion`, `MaxTries`
and the other `Max` constants bound counters in the guards. `CHECK_DEADLOCK FALSE` where nothing is
left to do once the bounded requests are used up.

The symmetry sets permute interchangeable values only and are not used with liveness.

**Fairness.** `billing_settles` assumes nothing of webhooks, checkouts, users or the queue: only weak
fairness of the crons (`SweepRows`, `Reconcile`) and of a process that has a row or job in hand
(`Processor`); faults are fewer than the tries, as the retries of the code presuppose.
`GenerationRun` also states `RunsSettle` and its fairness (time, PostgreSQL's lock queue and the
recovery loop), and `CreditLedger` `TransactionsEnd`; no configuration kept here checks them.

### Disagreements between code and its documentation

Four runs are expected to be violated; each quotes a sentence of the repository
(`PROJECT.json`, "findings").

- `run_lock_order`: the heartbeat takes stage and run row in the opposite order of everything that
  settles a run. PostgreSQL aborts one of them, and a save can become a failure.
- `stage_unlock`: rolling back to the current version clears a gate that blocked it.
- `deck_resurrected`: a deck that is slower than the sweep is refunded and then still shown.
- `purge_restored`: a workspace restored between the purge's select and its delete is deleted.

Met while modelling, and named as exceptions in the properties concerned:

- *Refinement, runs.* A resume stopped while it banks its inherited sections again replaces the
  version it resumed by one with fewer sections. A cancel found by the locked read of the final save
  leaves the run to the sweep, because the cleanup waits for a row its own idle session holds.
  `terminalize_interrupted_run` keeps the charge without comparing the inputs, and `generate` refuses
  to resume from other ones: inputs edited while a run generates leave its owner charged for sections
  that no resume takes up, although the gate says the rest costs no credit. An unlock clears the
  offer too. Both are exceptions (`Withdrawn`) of `KeptChargeRedeemable`.
- *Admission.* A request cancelled while it waits for Redis keeps its process slot until a restart.
- *Export and issues.* A throttled push is requeued under a fresh id which the drift sweep does not
  look for. Two overlapping writers of one task row can lose an update; a resync can be dropped as a
  duplicate of the running one, which is why `InSync` speaks of one writer.
- *Board.* The drift cron is said to start board syncs and does not; a closed issue moves its card
  only by GitHub's echo. A trigger is dropped while a sync of the same id has already read the rows.
- *Decks, increments.* A deck becomes ready though its sources were refinalised meanwhile. The
  increment sweep selects without a lock, awaits the refund and writes `draft` unconditionally, so an
  increment that finishes in between is refunded and reset although its tasks were appended and its
  idea planned (`outcome = "overwritten"`, the exception of `ChargedIffServed`); the sweep's docstring
  says that this can never happen, by the distance of its threshold from the call's timeout. Two
  requests that promote one idea are both charged; a push that read TASKS.md before it waited for the
  lock can retire issues of a later increment; a version collision is refunded only by the sweep.
- *Chunks, page.* The completion loop leaves chunk tasks running after a failed checkpoint or an
  ended slice. The page's exceptions are named `quick`, `mixed`, `others` and `overdue`.
- *Queue.* arq's own timeout, or a kill in the last try, ends a job without a dead letter; a dead
  letter that Redis refuses is lost, and only the sweeps recover its work, as they do for a stored row
  whose job was never queued.
- *Evaluations.* A crash between submitting a batch and committing its id pays twice; a late batch
  result overwrites the findings of a newer revalidation; two rows can exist when the structural
  findings could not be stored.
- *Artifacts.* First-wins deduplication can keep a stub and drop a body; an empty patch block is
  charged and can make a ready harness unready; the effort check and its reconciliation accept
  different spellings. After a block that is cut short repeated sections are kept, and a repeated section that
  leaves a fence open takes the Files section after it along, although `_DEDUPE_SKIP_HEADINGS` is there to
  keep files from being deleted: an exception of `CoverageKept`. `_task_issues` looks for dependencies
  at `**Dependencies:**` only, which its own required fields and the prompt do not use: of a well-formed
  task list the validator reports no cycle, and only the linter, which reads the other spelling, does. A cycle
  through both spellings, or with the value a blank line below the label, passes both.
- *Verdict.* An older verifier may store over a newer verdict; a failed refresh ships the old report.
- *Sessions.* A second tab that refreshes between the deletion of the session and the record that it
  was consumed, or after the grace period, is treated as theft and signs the user out everywhere.
- *Edge.* Redis and in-process windows count separately; evicting a key resets its window; a request
  that is rate-limited has used its nonce. The clock is the caller's: a script that runs after one with a
  later clock passes beyond the limit, because the entries it should count are trimmed (`late`).
- *GitHub client.* The breaker's window is fixed, not sliding; without a governor, a rate-limited
  workflow upsert is reported as a missing permission.
- *Pull requests.* A debounced run posts nothing, where the module says it posts the prior verdict; two
  overlapping jobs and a throttle can leave a check pending.
- *Installation.* A one-time state is read and then deleted, so a callback that is sent twice can go
  through twice, for the same user. A row rebound by another confirmed user keeps the first one's pushes (`rebound`); a
  confirmation that overtakes a suspension leaves a live row (`astray`).
- *Routing.* The complexity floor never changes an artifact's tier, since every artifact starts on the
  strong one; the reason given for keeping small edits off the artifact policy does not hold, because
  its second tier serves them; a failing harness patch is recorded twice towards the circuit.


## 4. Proofs

Eight modules hold theorems. Each states its results at the end of a hierarchical proof: an
inductive invariant, one lemma per action (or per kind of step) that it is kept, and the temporal
step by `PTL`. What an assumption says of the constants is evaluated by TLC on the instances
of section 3 (`LedgerAssumption`, `GenerationAssumption`, and the `ASSUME`s of `MCStages`,
`MCBilling` and `MCServices`).

### The ledger

`CreditLedgerProofs`, for any finite sets of packs and deductions, any prices, amounts and expiries:

| Theorem | States |
|---|---|
| `LedgerTypes` | `Spec => []TypeOK` |
| `ChecksAlwaysHold` | `Spec => []ChecksHold` |
| `LapsedValueUnclaimed` | `Spec => []ExpiredNeverReclaimed` |
| `ReversalStartsAtSource` | `Spec => []SourcePaysFirst` |
| `ProvenanceHolds` | `Spec => []Provenance` |
| `CountersMatchRows` | `Spec => []CountersBacked` |
| `RecursionNeverRaises` | `Spec => []NeverRaises` |
| `DeductionsAllocated` | `Spec => []DeductionAllocated` |
| `FullReversalHolds` | `Spec => []FullReversalKeepsNothing` |
| `LapsedStaysUnusable` | `Spec => LapsedNeverUsable` |
| `BalanceIsBacked` | if the clock stands still in a transaction, `Spec => []BalanceBacked` |
| `EntitlementIsSettled` | under the same condition, `Spec => []EntitlementSettled` |

`LedgerAssumption`: packs and deductions are finite, the constants have their types, amounts and
prices are positive, and a Razorpay order total equals its price.

The condition of the last two is needed. The code reads the clock when it sweeps and again when
it restores or settles a pack. If the pack's expiry falls between the two, the returned value lapses
(if any) and the pack is marked expired, although the credits it still holds were never swept out of
it or off the balance. TLC finds both properties violated on the instance of `ledger_clock`, and
both hold there once `ClockMovesInTxn` is `FALSE`. The other theorems let the clock move anywhere.

**One row.** None of the first four is inductive. `ChecksHold` alone does not survive a release (the
amount to return directly must fit the gap of its pack, `ReleaseOK`) nor a reversal that is half
collected: its total is not yet in `credits_revoked`, so the bound on lapsed value has to count
it (`Collecting`). The invariant `Books` therefore consists of `TypeOK`; `RowOK` of
each pack row, with what is being collected for it; `DebtOK` of each debt row; and `TxOK`, what
the open transaction relies on between two of its steps. `SourcePaysFirst` is part of it
because it is what makes an expiring remainder independent of a reversal: without it the sweep
could move value into `credits_expired` that a reversal has already claimed.

The proof goes row by row. Lemmas say what each kind of update does to one row (`MoveValue`,
`ExpireRow`, `RestoreRow`), `Proportion` bounds the floor divisions, `Levels` and
`SettleLevels` relate the cents of a reversal to its credits; one lemma per action then shows
that the action preserves `Books`, and `BooksInductive` combines them.

**Sums.** The other properties add up rows, and hold only between transactions; the invariants
have to hold inside them too, also between two calls of a recursion. `SumFunction` is a fold
whose value rests on a choice; the first lemmas prove from its definition what it does over a finite
set: it is well defined, it changes by *d* when one term does, a term is at most the sum, two sums
add up (`SumFunctionOnSet` and its recursion equation, by a smallest counterexample among the
subsets). Four invariants on top of `Books` use them:

- `Accounts`. Each call of `_restore_pack_value` and `_return_reversal_recovery` that waits on the
  stack `todo` has taken an amount off a row and not yet put it on a pack, or the reverse. With
  these amounts added (`InFlight`, and the frames of `AccountOf`) every counter equals the sum of
  its rows (`CountersExact`) and what a reversal collected elsewhere equals debt and recovery rows
  (`ProvenanceExact`) in every state. `NeverRaises` follows from the two equations, *provided* no
  pack is entered twice: two calls for one pack would each count on the same rows.
  `LendingAcyclic` excludes that: there is a rank that falls from each pack to the packs that lend
  to its reversal, and from each call on the stack to the calls it makes. A new loan fits some
  rank because a pack lends only while it has unspent credits, or was granted just now, and then
  nothing of its own reversal was collected elsewhere (`SourcePaysFirst` again).
- `EntriesExact`: the rows of each deduction, while it is drained, charged, refunded and restored.
- `FullExact`: a pack refunded or disputed up to its price is revoked up to all that did not lapse,
  and the reversal level in the open transaction leads exactly there.
- `BalanceExact`: balance and holdings differ by what is in `Transit` between them, and with a clock
  that stands still the sweep at the start of a transaction saw the time at which the rest
  runs (`Timely`). `EntitlementSettled` combines all of them by exchanging the order of the
  double sums over deductions and packs.

`LapsedNeverUsable` needs only `Books`: every step that gives a pack value back checks its expiry or
books the value as lapsed (`Unrevived`).

### Generation runs

`GenerationRunProofs`, for any number of runs and sections, with or without the cache and
heartbeats, and for any number of stops, crashes and edits:

| Theorem | States |
|---|---|
| `TypesHold` | `Spec => []TypeOK` |
| `OneRunPerStage` | `Spec => []InProgressHasRun` |
| `NoSaveAfterCancel` | `Spec => []CancelWins` |
| `SettledRunsFinal` | `Spec => SettledOnce` |
| `OwnerAloneWrites` | `Spec => OnlyOwnerWrites` |
| `AlwaysCharged` | `Spec => []ChargeInv` |
| `CountsNeverMismatch` | `Spec => []CountsMatch` |
| `OneArtifactPerCharge` | `Spec => []ChargeBuysOnce` |
| `KeptChargeLeavesOffer` | `Spec => []KeptChargeRedeemable` |

`GenerationAssumption`: finite sets, `NoRun` not a run, natural bounds.

The invariant `Guarded` adds to the first properties what the row locks guarantee at each place
of the code: an owner about to settle holds the row of a *running* run and the sweep does not
hold it (`OwnerHolds`); the sweep holds the row of a running run (`SweepHolds`); no cancel was
committed since the save took its lock (`SaveUncancelled`); and only settled runs have delivered
(`DeliveredSettled`). `InProgressHasRun` alone is not inductive: without `OwnerHolds` a commit
could settle a run a second time while the stage already belongs to the next one. Three facts
carry the proof: a move of an owner that leaves the rows alone (`OwnerStep`), a write that keeps
the status (`RowStep`), and the transaction that settles (`SettleStep`); every action is one of
them, a creation (`CreatedStep`) or touches no row of a run. The two action properties follow
from `Guarded` with `StepWrites`.

The properties of charges speak of chains of runs: a resume is free because an earlier run paid.
`ChargeInv` is `Guarded` and three more parts:

- `Banked`: `completed_parts` is the number of sections in the bank, an owner believes in no
  section that is not there, and a worker about to save has all of them. Counting needs the
  cardinality theorems of the library.
- `Accounts`: a run whose charge could still be used (it runs, or it is on offer) belongs to a
  charge that was neither refunded nor delivered; and a charge delivers once along its chain.
  `ChargeBuysOnce` follows.
- `Redeemable`: while a resume runs, the offer it was made from stays; a charge that was kept and
  has no running run delivered everything, left an offer, was overtaken by a newer version or
  cleared by an unlock, or its resume lost its seeds. `LostSeeds` makes the last one independent of
  the run that is still alive. That an offer still fits needs one more fact, part of `Accounts`:
  all runs of a chain were generated from the same inputs, so an offer that is refused for its
  inputs is refused because they are not those of the charged run.

Every action is one of five kinds of step as far as this invariant is concerned (`Quiet`, which may
bank a section, `Edited`, `Creates`, `Delivers`, `Stops`); the invariant is proved once per kind.

### Refinement

`RefinementProofs`, for any refinements, patches, versions and other writers of the stage:

| Theorem | States |
|---|---|
| `RefinementTypes` | `Spec => []TypeOK` |
| `EditsKept` | `Spec => []NoLostEdit` |
| `RequestsPaid` | `Spec => []PaidIffServed` |

The invariant is `TypeOK` and, of every request, `Held`: what it may hold at each place. The two
kinds differ, a refinement being charged before the call and a patch after it (`DuringCall`). A
proposal that became a version did so as the successor of the one it was computed from
(`Consecutive`). `RefinementAssumption`: no request is of both kinds, and there is a version.

### Stages and the quality gate

`StageGateProofs`, for a chain of any length, any versions and inputs, with and without the critic:

| Theorem | States |
|---|---|
| `StageTypes` | `Spec => []TypeOK` |
| `FinalisedWasReady` | `Spec => []FinalisedIsReady` |
| `FinalisedChainCurrent` | `Spec => []FinalisedMatchesUpstream` (while nothing was unlocked, by its definition) |
| `BlockedNeedsOverride` | if no check hangs, `Spec => [](unlocks = 0 => GateHonoured)` |

The last two are conditional because the code is. A rollback to the current version reopens a
finalised stage, clears a gate that blocked it (the run `stage_unlock`) and marks nothing below, so
that the stage can be changed and finalised again under texts built from the old version. A check
that hangs is closed by the sweep from what it read before, over whatever the gate says by then. The
scenarios that check the two properties have no unlocks and no hanging checks either; the theorems
say that nothing else breaks them.

`Typed` is `TypeOK` and `Room` (a stage that generates has a version number left). Every action is one
of the `Kinds` of step that say what changes of a text, its gate and its source: `Marks`,
`Finalises`, `Grows`, `Gates`, `Overrides`, `Unlocks`, `Sweeps` or nothing (`Aside`). `StepKinds`
proves that; each invariant is then kept per kind. `ReadyInv` adds that overrides are recorded as
accepted; `UpstreamInv` that the stages below a finalised text are finalised and that its source is
what they hold now; `GateInv` that the gate of a blocked version in hand still blocks it, and that
versions above the current one were never blocked (a fresh text starts without a mark).

### Billing

`BillingInboxProofs` has the lemmas both providers need: what a step of the inbox does to its rows,
which rows are stored before and after, and that the maximum which settlement takes exists and
grows. `Purchase`
states what both promise of a pack: one grant, and no acknowledged refund forgotten. What counts as
acknowledged differs: for Razorpay any refund a handler finished with, for Lemon Squeezy one handled
within `GiveUpAge` of its arrival and before its attempt was purged (`Acknowledge`), since an older
one is given up to lane 2 on purpose. For any set of webhook events, prices, ages, numbers of tries and
faults:

| Theorem | Module | States |
|---|---|---|
| `RazorpayTypes` | `RazorpayProofs` | `Spec => []TypeOK` |
| `OneGrantPerPayment` | | `Spec => []GrantedOnce` |
| `NoRefundForgotten` | | `Spec => []RefundRemembered` |
| `ImplementsSettlement` | | `Spec => SettlesPayment`, that is `PaymentSettlement!Spec` |
| `LemonTypes` | `LemonProofs` | `Spec => []TypeOK` |
| `OneGrantPerOrder` | | `Spec => []GrantedOnce` |
| `EarlyRefundTaken` | | `Spec => []RefundRemembered` |
| `LemonImplementsSettlement` | | `Spec => SettlesPayment` |

The invariants say that everything stored, read or announced was true of the payment and still is
(`Truthful`; what the provider has refunded only grows), and that a pack stands on captured money
(or, at Lemon Squeezy, on an administrator's word) with no more cash than was refunded (`PackBacked`). For Razorpay, what a handler has heard of is on
the pack or in a row that is kept (`RefundKept`). Lemon Squeezy looks for the pack and parks the
refund in separate steps, so its invariant has `RowsHeld` (a handler that found no pack still has its
row, which the grant will read) and `Applied` (an acknowledged refund is on the pack, and none is acknowledged before there is one). Refinement and
invariant are proved together, step by step: each action is a stutter of `PaymentSettlement`
(`Quiet`, `Hears`), raises the cash to what settlement computes (`Raises`), grants (`Grants`), or is
a step of the provider (`Moves`). That cash never falls although lane 2 applies an amount it read
before the lock is part of it. `InboxAssumption`, `RazorpayAssumption` and `LemonAssumption` only give
the constants their types.

### Services

`Services` puts six of the modules behind `MCServices` side by side, under the names of its
variables and with their constants open; `ServicesProofs` proves what they promise:

| Theorem | States |
|---|---|
| `QuotaHolds` | `Workspaces`: `Spec => []WithinQuota` |
| `DecksCharged` | `Storyboards`, if no run outlives the sweep's threshold: `Spec => []ChargedIffServed` |
| `IncrementsCharged` | `Increments`: `Spec => []ChargedIffServed`, which exempts the rows the sweep overwrote |
| `ServicesCharged` | both at once: `Boards!Spec /\ Grow!Spec => []ChargedIffServed` |
| `AppendedTasksKept` | `Increments`: `Spec => []TasksKept` |
| `IncrementIssuesOnce` | `Increments`: `Spec => []IssuesRecorded` |
| `SlotsAlwaysReturned` | `Admission`: `Spec => []SlotsReturned` |
| `AcceptedWorkKept` | `JobQueue`: `Spec => [](WorkKept /\ ThrottlesAreFree /\ ChargedWhileReady)` |
| `EvaluationsScoredOnce` | `Evaluations`: `Spec => [](OneEvalRow /\ ScoredOnce /\ BatchKept)` |
| `NoWorkLost` | both at once: `Jobs!Spec /\ Evals!Spec => []WorkKept` |

- `QuotaInv`: whoever counted the workspaces holds the user row, and where a row is about to be
  inserted there is room. Restores do not look at the quota, which is why the bound counts them.
- `DeckInv`: one deck generates at a time; a row is paid unless it failed; a run at work has a row
  that still generates. With a run that outlives the sweep this is false (`deck_resurrected`).
- `GrowInv`: how far a request is says what its row may be (`RowGood`); it plans against a version
  there is (`Planned`), an idea's increment serves (`IdeasServed`), and a push that records an issue
  holds the repository while the task has no row (`PushInv`). `TasksKept` is part of it: a request
  computes from an old version, and only the uniqueness of version numbers keeps it from losing what
  came after.
- `AdmitInv`: the lease sets stay within the limits, because the script that adds counts in the same
  step (`Budgets`); each process counter is the number of requests or jobs that are inside it, as a
  cardinality, until a request is cancelled while it waits (`Slots`); a new request has nothing and one in
  hand no job yet (`Handed`); and without faults a job past a lease holds it (`Backed`) and every
  lease has an admission that knows of it (`Told`). Each action changes at most one of the
  sets by one member, which the library's cardinality lemmas turn into the counter's change.
- `JobInv`: a job works for a unit under the unit's own id or a fresh one (`Keyed`), so that a
  requeued unit cannot take the place of another; every try but the one that runs has been charged
  to its unit as a failure or a cut (`Tried`), which is what leaves throttled attempts free; and the
  heartbeat is at least as old as the bulk worker is gone (`Beats`), so that nobody is admitted for
  longer than it lives. Every job step is one of four kinds (`Kinds`): a unit is put in line, a job
  goes on, a job leaves with its unit settled, or a lane is cut off.
- `EvalInv`: the job of a batch is where the batch's row lets it be (`InOrder`), whoever holds a row
  holds the only one (`OneRow`), only one of the process and the batch has a score to write
  (`OneScore`), and what the provider was paid for is in the row, under way or lost between call and
  commit (`Billed`). The first two are what makes the last two inductive.

`WorkspacesAssumption`, `IncrementsAssumption`, `AdmissionAssumption` and `JobsAssumption` say that the
sets are finite, the limits natural, that a program counter is not mistaken for a task nor a fresh
id for a unit, and that every function that is enqueued is registered with a worker.

### Only model-checked

- *Liveness* and everything under fairness (`PaidIsGranted`, `RefundReachesPack`, `RowsFinish`).
- `LastDecisionWins` (an order among dispute events), and termination of a ledger transaction.
- What is computed by recursion or over sequences of data: `PartsBanked`, `CoverageKept`,
  `TasksChecked`, `ReportMatches`.
- `PageSound`, `InSync`, `RoutedAsPaid`, `EdgeHolds`, and the parts of `IssuesRecorded` about exports and
  the board: conjunctions over modules whose invariants are not written down yet (section 6).


## 5. What is not modelled

- **Text.** Prompts, their assembly and compression, the Markdown and JSON parsers, the diff, the
  layout of exported files, issues, comments and mails. The checks of artifacts start from a
  *parsed* document, so a wrong regular expression is outside; what two expressions of different
  strictness see of one identifier is inside.
- **What models answer.** Whether a draft, a patch, a deck or a judge is good is a choice. The
  technology checks of the validator and the wording of findings follow that choice.
- **Telemetry.** `observability.py`, the LLM cost ledger, the usage history: they count and
  record, and nothing reads them to decide.
- **Research and the clarifier.** A remote search with a charge in front of it, and rounds of
  questions before the first stage; one writer each. What they return only changes a prompt.
- **Chunk plans.** The number and the length targets of the chunks are computed from prompts;
  `ChunkGeneration` takes any number of chunks in any waves.
- **Provider adapters and HTTP clients.** Signatures, retries inside a client library and price
  tables. `ModelRouting`, `GitHubClient` and `RazorpayBilling` model what their callers see.
- **Bounded deletes.** The retention purges that delete by age without relation to other rows,
  paging, batch sizes.
- **Single guards.** Body size, permissions, feature flags, the daily and per-minute limits in
  front of refine, the server-rendered marketing pages.
- **Page.** `ClientStream` is one stage on one page. Not in it: leaving the page while the POST
  that starts a generation is pending, a second `start()` while the first still waits for the
  session, the review gate and every other view.

Two things are left to time: PostgreSQL's isolation below *read committed with row locks* (each
transaction reads committed rows and takes the locks the code takes), and Redis evicting keys
before their expiry.

## 6. Plan

Done: the ledger and the runs with their proofs; settlement and both billing providers as
refinements of `PaymentSettlement`; stages, refinement, chunks and artifact checks; queue,
admission, GitHub, storyboards, increments, workspaces, evaluations, sessions, limits, routing
and the page.

Proved besides: the charges of runs, refinement, the stage gate, both billing refinements, quotas,
slots, decks, increments, queued jobs and evaluations, and the sums of the ledger (section 4).

Next, in this order:

1. `LastDecisionWins` of `RazorpayBilling`, on top of `Truthful`: the newest decision known to the
   provider is on the pack or in a row that is kept.
2. The export part of `IssuesRecorded` (`GitHubExport`), whose invariant is like that of `Increments`.
3. `RateLimit` and the budget of `PullReview`, which are counters in windows.
4. Liveness of export and reconciliation (`GitHubExport`, `IssueSync`): both are model-checked for
   safety only, because the fair runs did not fit beside the others.
5. The clarifier, which is small and has one race (an answer to a round that was replaced).
