--------------------------- MODULE PackageVerdict ---------------------------
(***************************************************************************)
(* The construction verdict of a workspace: computed in the background     *)
(* when tasks were generated, refreshed by every export that finds it      *)
(* stale, and shipped as CONSTRUCTION_REPORT.md beside the artefacts.      *)
(*                                                                         *)
(* A verdict is a function of the four texts, and a text of its version,   *)
(* so a verdict is the versions stamped on it and the versions it read.    *)
(***************************************************************************)
EXTENDS Integers, FiniteSets

CONSTANTS
    Stage,          \* the artefacts of a package, "tasks" among them
    Verifier,       \* background verifiers
    Export,         \* exports: downloads and pushes
    MaxVersion,     \* bound: versions of an artefact
    MaxFaults       \* bound: verifiers and refreshes that fail

VARIABLES
    ver,            \* version of each artefact, 0 while it has no text
    final,          \* the artefacts that are finalised
    verdict,        \* the verdict stored with the workspace
    bg,             \* the verifiers
    export,         \* the exports
    pkgFaults

vars == <<ver, final, verdict, bg, export, pkgFaults>>

Versions == [Stage -> 0..MaxVersion]
NoVerdict == [stamp |-> [s \in Stage |-> 0], of |-> [s \in Stage |-> 0]]
Verdicts == [stamp : Versions, of : Versions]
\* A verifier runs for a version of the tasks; an export keeps what it read.
Idle == [at |-> "idle", tasks |-> 0, snap |-> [s \in Stage |-> 0]]
Unused == [at |-> "idle", seen |-> NoVerdict, snap |-> [s \in Stage |-> 0],
           report |-> NoVerdict, failed |-> FALSE]

Init ==
    /\ ver = [s \in Stage |-> 0] /\ final = {}
    /\ verdict = NoVerdict
    /\ bg = [b \in Verifier |-> Idle]
    /\ export = [e \in Export |-> Unused]
    /\ pkgFaults = 0

AllPresent(v) == \A s \in Stage : v[s] > 0

\* A missing verdict is stale, and so is one with any other version stamped.
M_Stale(v, versions) == v = NoVerdict \/ v.stamp["tasks"] # versions["tasks"]
Stale(v, versions) == v = NoVerdict \/ \E s \in Stage : v.stamp[s] # versions[s]

Compute(versions) == [stamp |-> versions, of |-> versions]

(***************************************************************************)
(* The texts change under their own locks.                                 *)
(***************************************************************************)
Generate(s, b) ==
    /\ ver[s] < MaxVersion
    /\ ver' = [ver EXCEPT ![s] = @ + 1] /\ final' = final \ {s}
    /\ IF s = "tasks"
       THEN bg[b].at = "idle" /\ bg' = [bg EXCEPT ![b] = [@ EXCEPT !.at = "queued", !.tasks = ver[s] + 1]]
       ELSE UNCHANGED bg
    /\ UNCHANGED <<verdict, export, pkgFaults>>

\* An edit, a restore or a patch is a new version without a verifier.
Edit(s) ==
    /\ ver[s] \in 1..(MaxVersion - 1)
    /\ ver' = [ver EXCEPT ![s] = @ + 1] /\ final' = final \ {s}
    /\ UNCHANGED <<verdict, bg, export, pkgFaults>>

Finalise(s) ==
    /\ ver[s] > 0 /\ s \notin final
    /\ final' = final \cup {s}
    /\ UNCHANGED <<ver, verdict, bg, export, pkgFaults>>

(***************************************************************************)
(* The verifier reads everything in one session, and stores its verdict.   *)
(***************************************************************************)
VerifierLoads(b) ==
    /\ bg[b].at = "queued"
    /\ bg' = [bg EXCEPT ![b] = IF ver["tasks"] = bg[b].tasks /\ AllPresent(ver)
                               THEN [@ EXCEPT !.at = "computing", !.snap = ver] ELSE Idle]
    /\ UNCHANGED <<ver, final, verdict, export, pkgFaults>>

VerifierStores(b) ==
    /\ bg[b].at = "computing"
    /\ verdict' = Compute(bg[b].snap)
    /\ bg' = [bg EXCEPT ![b] = Idle]
    /\ UNCHANGED <<ver, final, export, pkgFaults>>

VerifierFails(b) ==
    /\ bg[b].at # "idle" /\ pkgFaults < MaxFaults
    /\ bg' = [bg EXCEPT ![b] = Idle] /\ pkgFaults' = pkgFaults + 1
    /\ UNCHANGED <<ver, final, verdict, export>>

(***************************************************************************)
(* An export reads the workspace, then its stages, which must be final.    *)
(***************************************************************************)
ExportReadsWorkspace(e) ==
    /\ export[e].at = "idle"
    /\ export' = [export EXCEPT ![e].at = "workspace", ![e].seen = verdict]
    /\ UNCHANGED <<ver, final, verdict, bg, pkgFaults>>

ExportReadsStages(e) ==
    /\ export[e].at = "workspace"
    /\ export' = [export EXCEPT ![e] = IF final = Stage THEN [@ EXCEPT !.at = "packing", !.snap = ver]
                                       ELSE Unused]
    /\ UNCHANGED <<ver, final, verdict, bg, pkgFaults>>

\* The verdict it read is shipped, or a new one is stored and shipped ...
EnsureFresh(e) ==
    /\ export[e].at = "packing"
    /\ LET now == Compute(export[e].snap)
           stale == Stale(export[e].seen, export[e].snap)
       IN /\ export' = [export EXCEPT ![e].at = "shipped",
                                      ![e].report = IF stale THEN now ELSE export[e].seen]
          /\ verdict' = IF stale THEN now ELSE verdict
    /\ UNCHANGED <<ver, final, bg, pkgFaults>>

\* ... or, when the refresh fails, whatever verdict there was.
RefreshFails(e) ==
    /\ export[e].at = "packing" /\ pkgFaults < MaxFaults
    /\ Stale(export[e].seen, export[e].snap)
    /\ export' = [export EXCEPT ![e].at = "shipped", ![e].report = export[e].seen, ![e].failed = TRUE]
    /\ pkgFaults' = pkgFaults + 1
    /\ UNCHANGED <<ver, final, verdict, bg>>

Next ==
    \/ \E s \in Stage : (\E b \in Verifier : Generate(s, b)) \/ Edit(s) \/ Finalise(s)
    \/ \E b \in Verifier : VerifierLoads(b) \/ VerifierStores(b) \/ VerifierFails(b)
    \/ \E e \in Export : \/ ExportReadsWorkspace(e) \/ ExportReadsStages(e)
                         \/ EnsureFresh(e) \/ RefreshFails(e)

(***************************************************************************)
(* Properties.                                                             *)
(***************************************************************************)
\* The report of a package is about exactly the versions that the package
\* contains, whatever verifiers and other exports stored meanwhile, unless
\* its refresh failed (ensure_fresh_verdict).
ReportMatches ==
    \A e \in Export : export[e].at = "shipped" /\ ~export[e].failed => export[e].report.of = export[e].snap

\* No verdict is ever stored for a package that lacks an artefact
\* (all_stages_present).
VerdictWhole == verdict # NoVerdict => AllPresent(verdict.of)

=============================================================================
