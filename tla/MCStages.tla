------------------------------ MODULE MCStages ------------------------------
(***************************************************************************)
(* The stages of a workspace, the paid changes to one of them and the      *)
(* chunks of one generation, for TLC.  A behaviour is one scenario: one    *)
(* component moves, the others stay in their initial state.  The paid      *)
(* changes are Refinement's own, with the values of the .cfg.              *)
(***************************************************************************)
EXTENDS StageRows, Refinement, ArtifactInputs

CONSTANTS
    Scenarios,          \* the scenarios of this run
    GateUnlocks         \* rollbacks to the current version in scenario "gate"

VARIABLES inputs, run, jobs, hung, sweep, unresolved,
          pipe, task, last, banked, health, budget, stop, strays, trouble, slices, cut,
          server, runs, store, buf, page, call, poll, advice, doc, saves,
          clicks, edits, faults, quick, mixed, others, overdue,
          demo, raw, harness, before, phase, paid, list, review,
          ver, final, verdict, bg, export, pkgFaults,
          scenario

gateVars == <<stage, versions, inputs, run, jobs, hung, sweep, unlocks, unresolved, accepted>>
chunkVars == <<pipe, task, last, banked, health, budget, stop, strays, trouble, slices, cut>>
clientVars == <<server, runs, store, buf, page, call, poll, advice, doc, saves,
                clicks, edits, faults, quick, mixed, others, overdue>>
artifactVars == <<demo, raw, harness, before, phase, paid, list, review>>
packageVars == <<ver, final, verdict, bg, export, pkgFaults>>
MCVars == <<gateVars, vars, chunkVars, clientVars, artifactVars, packageVars, scenario>>

\* Two stages whose inputs and texts change; nothing to say of a text.
Drift == INSTANCE StageGate WITH Last <- 2, Quality <- {"good"}, Critic <- FALSE,
    MaxVersion <- 2, MaxInputs <- 1, MaxUnlocks <- 0, Hangs <- FALSE

\* Texts that only the external lookup blocks, with technology check and critic.
Gate == INSTANCE StageGate WITH Last <- 1, Quality <- {"good", "external"}, Critic <- TRUE,
    MaxVersion <- 3, MaxInputs <- 0, MaxUnlocks <- GateUnlocks, Hangs <- FALSE

\* One stage with every kind of bad text, checks that hang and the sweep.
Sweep == INSTANCE StageGate WITH Last <- 1, Quality <- {"incomplete", "local", "external"},
    Critic <- TRUE, MaxVersion <- 2, MaxInputs <- 0, MaxUnlocks <- 1, Hangs <- TRUE

ASSUME GateAssumption ==
    /\ Drift!StageGateAssumption
    /\ Gate!StageGateAssumption
    /\ Sweep!StageGateAssumption

ASSUME EditsAssumption == RefinementAssumption

\* Two chunks side by side and one after them, over two providers.
Chunks == INSTANCE ChunkGeneration WITH Waves <- <<{"a", "b"}, {"c"}>>, Priority <- <<"x", "y">>,
    MaxRetries <- 1, Threshold <- 2, Slots <- 2, MaxTrouble <- 2, MaxSlices <- 1, fails <- health

\* A page with two stages, one of them generated and then edited.
Client == INSTANCE ClientStream WITH Stage <- {"a", "b"}, MaxRetries <- 1, MaxClicks <- 1,
    MaxEdits <- 2, MaxFaults <- 1, MaxPolls <- 1

\* Harnesses of up to two files, doubled or with a second Files section, and
\* task lists of up to three tasks.
Artifacts == INSTANCE ArtifactGate WITH Docs <- AllDocs, Patches <- AllPatches, ListsFor <- AllLists,
    Standard <- {"Matrix", "Tree", "Files"}, Lean <- {"Matrix", "Smoke", "Tree", "Files"},
    SpecDoc <- [ids |-> {"R1", "R2"}, declined |-> {"R2"}, elsewhere |-> {"R2"}, acs |-> {"R2"}],
    PlanDoc <- [s \in {"Data", "UI"} |-> IF s = "UI" THEN "none" ELSE "text"],
    E2E <- {"b", "tb"}, Dropped <- {"x"}, Floor <- 2, MaxPatches <- 1,
    doc <- harness, last <- before

\* Two artefacts, two verifiers and two exports that overlap.
Package == INSTANCE PackageVerdict WITH Stage <- {"harness", "tasks"}, Verifier <- {"v1", "v2"},
    Export <- {"e1", "e2"}, MaxVersion <- 2, MaxFaults <- 1

MCInit ==
    /\ scenario \in Scenarios
    /\ Init /\ Chunks!Init /\ Client!Init /\ Package!Init
    /\ Artifacts!Init /\ (scenario # "artifacts" => raw = <<>> /\ ~demo)
    /\ \/ scenario \in {"drift", "edits", "chunks", "client", "artifacts", "package"} /\ Drift!Init
       \/ scenario = "gate" /\ Gate!Init
       \/ scenario = "sweep" /\ Sweep!Init

\* Only the component of the scenario moves.
In(s) ==
    /\ scenario = s /\ UNCHANGED scenario
    /\ IF s \in {"drift", "gate", "sweep"} THEN TRUE ELSE UNCHANGED gateVars
    /\ IF s = "edits" THEN TRUE ELSE UNCHANGED vars
    /\ IF s = "chunks" THEN TRUE ELSE UNCHANGED chunkVars
    /\ IF s = "client" THEN TRUE ELSE UNCHANGED clientVars
    /\ IF s = "artifacts" THEN TRUE ELSE UNCHANGED artifactVars
    /\ IF s = "package" THEN TRUE ELSE UNCHANGED packageVars

MCNext ==
    \/ In("drift") /\ Drift!Next
    \/ In("gate") /\ Gate!Next
    \/ In("sweep") /\ Sweep!Next
    \/ In("edits") /\ Next
    \/ In("chunks") /\ Chunks!Next
    \/ In("client") /\ Client!Next
    \/ In("artifacts") /\ Artifacts!Next
    \/ In("package") /\ Package!Next

MCSpec == MCInit /\ [][MCNext]_MCVars

(***************************************************************************)
(* Properties beside those of StageRows, and NoLostEdit and PaidIffServed  *)
(* of Refinement.                                                          *)
(***************************************************************************)
\* A version that any gate has blocked is finalised only after its owner
\* overrode the gate, however the results of old and new checks, the critic
\* and the generations are ordered (finalise, _persist_technology_result).
GateHonoured == scenario = "gate" => Gate!GateHonoured

\* A section is kept only from a call that ran to its end, whatever its
\* siblings' calls report meanwhile; a generation that is over has kept every
\* text it received, all of them if it succeeded, and makes no more provider
\* calls but those a lost slice or commit left behind; retries, repairs and
\* failovers of a section are bounded (_run_chunk_attempts, get_llm,
\* _generate_durable_artifact, _move_to_fallback).
PartsBanked == Chunks!PartsBanked /\ Chunks!CallsEnd

\* The workspace page: the requests of one click start one generation,
\* through dropped streams and retries; an edit never saves a half-streamed
\* draft; and a stage shown as generating is streamed or polled until it is
\* not, its error on no other stage's page (useStream, createSSEConnection,
\* useReconnectPoll, StageEditor).  The exceptions are named: a run that ends
\* while its click still retries, a save under way when a generation is asked
\* for, another tab, and a run that outlives its deadline.
PageSound == Client!OneRunPerClick /\ Client!WholeSaved /\ Client!PageFollows

\* The rewrites of a harness are idempotent and lose no section, path or
\* covered requirement of one that was emitted twice, unless a repeated section
\* left a code fence open, which takes what follows along; a harness that passes
\* the gate keeps every promise of its tree and its matrix; a paid patch adds
\* a file and uncovers nothing (apply_deterministic_rewrites,
\* validate_readiness, _merge_harness_patch).
CoverageKept ==
    /\ Artifacts!RewriteStable /\ Artifacts!NothingLost
    /\ Artifacts!ReadyCovers /\ Artifacts!PatchAdds

\* The checks of a task list say what is there: a cycle that is spelled one way
\* is reported by the validator or refused by the linter, whose spellings are
\* disjoint, and by the validator never in a list it holds complete; a summary
\* that agrees with the blocks once it was reconciled; and every provably missing
\* test flagged, whatever softer gaps its task has (_task_issues, _check_dag,
\* reconcile_effort_summary, _validate_task_references).
TasksChecked == Artifacts!CyclesFound /\ Artifacts!SummaryAgrees /\ Artifacts!GapsShown

\* The construction report of an exported package is about exactly the
\* versions in the package, whatever verifiers and other exports stored
\* meanwhile, unless its refresh failed, and no verdict is stored for an
\* incomplete one (ensure_fresh_verdict, _dispatch_construction_verifier).
ReportMatches == Package!ReportMatches /\ Package!VerdictWhole

=============================================================================
