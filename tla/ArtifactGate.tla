---------------------------- MODULE ArtifactGate ----------------------------
(***************************************************************************)
(* What happens to the text of a HARNESS and of a task list between the    *)
(* model's last token and the user: the deterministic rewrites, the gate,  *)
(* the paid patches of a harness, and the findings and the construction    *)
(* verdict of the tasks that were written against it.                      *)
(***************************************************************************)
EXTENDS TaskChecks

CONSTANTS
    Docs,           \* the harnesses that the model may have written
    Patches,        \* the answers to a patch request: sequences of blocks
    ListsFor(_),    \* the task lists that may be written against it: [summary, tasks]
    Standard, Lean, \* the sections that a harness requires, in either mode
    SpecDoc,         \* the ids of the specification: [ids, declined, elsewhere, acs]
    PlanDoc,         \* the load-bearing sections of the plan
    E2E,            \* the names that read as end to end
    Dropped,        \* the test categories that the harness recorded as deferred
    Floor,          \* the fewest tasks of a list
    MaxPatches      \* bound: paid patches

VARIABLES
    demo,           \* the mode of the workspace
    raw,            \* the harness as it was generated
    doc,            \* the harness as it is stored
    last,           \* the harness before the last change
    phase,          \* "written", "rewritten", "ready", "blocked" or "refunded"
    paid,           \* patches charged
    list,           \* the task list and its summary
    review          \* what the checks said about it

vars == <<demo, raw, doc, last, phase, paid, list, review>>

NoReview == [issues |-> {}, findings |-> {}, flagged |-> FALSE, verified |-> FALSE]
Upstream == SpecDoc.ids
SectionContract == IF demo THEN Lean ELSE Standard
IssuesOf(d) == Completeness(d, SectionContract, Upstream, demo)

Init ==
    /\ demo \in BOOLEAN
    /\ raw \in Docs /\ doc = raw /\ last = raw
    /\ phase = "written" /\ paid = 0
    /\ list = [at |-> "none", summary |-> [present |-> FALSE], tasks |-> <<>>]
    /\ review = NoReview

\* The rewrites run at one point, before any gate reads the text.
RewriteHarness ==
    /\ phase = "written"
    /\ doc' = Rewrite(doc, SectionContract) /\ last' = doc
    /\ phase' = "rewritten"
    /\ UNCHANGED <<demo, raw, paid, list, review>>

\* Only an empty or cut answer is refunded; every other issue is delivered,
\* and the structural ones withhold readiness.
Gate ==
    /\ phase = "rewritten"
    /\ phase' = IF IssuesOf(doc) \cap Refundable # {} THEN "refunded"
                ELSE IF Ready(doc, SectionContract, IssuesOf(doc)) THEN "ready" ELSE "blocked"
    /\ UNCHANGED <<demo, raw, doc, last, paid, list, review>>

\* A patch is charged with the blocks it adds, or not at all.
Patch(p) ==
    /\ phase \in {"ready", "blocked"} /\ list.at = "none" /\ paid < MaxPatches
    /\ Uncovered(doc, Upstream) # {}
    /\ MergePatch(doc, p) # doc
    /\ doc' = MergePatch(doc, p) /\ last' = doc
    /\ paid' = paid + 1
    /\ UNCHANGED <<demo, raw, phase, list, review>>

\* The tasks are written against the harness ...
WriteTasks ==
    /\ phase \in {"ready", "blocked"} /\ list.at = "none"
    /\ \E l \in ListsFor(raw) : list' = [at |-> "written", summary |-> l.summary, tasks |-> l.tasks]
    /\ UNCHANGED <<demo, raw, doc, last, phase, paid, review>>

\* ... their summary is reconciled with the blocks ...
RewriteTasks ==
    /\ list.at = "written"
    /\ list' = [list EXCEPT !.at = "rewritten", !.summary = Reconcile(list.summary, list.tasks)]
    /\ UNCHANGED <<demo, raw, doc, last, phase, paid, review>>

\* ... and the checks read the two together.
Review(enforced) ==
    /\ list.at = "rewritten"
    /\ review' = [issues |-> IF demo THEN DemoTaskIssues(list.tasks, Floor)
                             ELSE TaskIssues(list.summary, list.tasks, doc, Floor),
                  findings |-> Findings(list.tasks, doc, Dropped),
                  flagged |-> Flagged(list.tasks, doc, Dropped),
                  verified |-> IF demo THEN DemoVerdict(SpecDoc, PlanDoc, list.tasks, doc, enforced)
                               ELSE StandardVerdict(SpecDoc, PlanDoc, list.tasks, doc, E2E, enforced)]
    /\ list' = [list EXCEPT !.at = IF enforced THEN "enforced" ELSE "reviewed"]
    /\ UNCHANGED <<demo, raw, doc, last, phase, paid>>

Next ==
    \/ RewriteHarness
    \/ Gate
    \/ \E p \in Patches : Patch(p)
    \/ WriteTasks
    \/ RewriteTasks
    \/ \E enforced \in BOOLEAN : Review(enforced)

ArtifactSpec == Init /\ [][Next]_vars

(***************************************************************************)
(* Properties.                                                             *)
(***************************************************************************)
\* Every rewrite is a no-op on rewritten text, and stays one on a patched
\* harness (apply_deterministic_rewrites: "Idempotent").
RewriteStable == phase # "written" => Rewrite(doc, SectionContract) = doc

\* Chunks are concatenated, each its sections and then its files under their
\* heading, so the first section follows no block that is repeated.
ChunkShaped(d) ==
    /\ \A i \in FileAt(d) : Under(SectionAt(d), i) \in Named(d, "Files")
    /\ \A i, j \in DOMAIN d : d[i].kind = "file" /\ d[j].kind = "section" /\ i < j =>
          \E k \in 1..(j - 1) : d[k].kind = "section" /\ d[k].name = d[j].name

\* A repeated section that leaves a fence open hides the headings after it, and
\* takes the blocks under them along; an open fence of a block takes nothing.
SectionsClosed(d) == \A i \in SectionAt(d) : d[i].fence # "cut"

\* A harness that was emitted twice loses nothing that it had once: every
\* section, every path, and every covered requirement unless the first block
\* of a path was a stub (dedupe_file_blocks, dedupe_contract_sections).
NothingLost ==
    phase # "written" /\ ChunkShaped(raw) /\ SectionsClosed(raw) =>
        /\ {raw[i].name : i \in SectionAt(raw)} \subseteq {doc[i].name : i \in SectionAt(doc)}
        /\ {Canonical(raw[i].path) : i \in FileAt(raw) \cap Region(raw)} \subseteq KnownFiles(doc)
        /\ (\A i \in FileAt(raw) : raw[i].fence = "full") => Covered(raw) \subseteq Covered(doc)

\* A paid patch adds a file and never uncovers a requirement or empties a
\* file that was there (_merge_harness_patch).
PatchAdds ==
    paid > 0 => /\ Covered(last) \subseteq Covered(doc)
                /\ FilesWithBody(last) \subseteq FilesWithBody(doc)
                /\ KnownFiles(last) # KnownFiles(doc)
                /\ MissingFiles(doc) \subseteq MissingFiles(last)

\* A harness that passed the gate keeps every promise that its matrix and its
\* tree make, and the coverage list agrees (validate_readiness,
\* uncovered_requirements, missing_harness_files).
ReadyCovers ==
    phase = "ready" /\ paid = 0 => MissingFiles(doc) = {} /\ MatrixReqs(doc) \subseteq Covered(doc)

\* Validator and linter read disjoint spellings of the dependencies.  Each
\* finds a cycle of what it reads, so a cycle that is spelled in one of the two
\* ways is reported or refused by one of them, never by the validator in a list
\* it holds complete; one that mixes spellings passes both.  Demo Day accepts
\* no cycle (_task_dependency_cycle_issues, _check_dag).
Cyclic(forms) == OnCycle(list.tasks, forms) # {}
Spelled(form) == \A i \in DOMAIN list.tasks : list.tasks[i].depsAs = form
CyclesFound ==
    list.at \in {"reviewed", "enforced"} =>
        /\ ~demo =>
              /\ "invalid_task_dependency_order" \in review.issues <=> Cyclic(ByValidator)
              /\ Cyclic(Spellings) /\ Spelled("below") =>
                    /\ "invalid_task_dependency_order" \notin review.issues
                    /\ ~(list.at = "enforced" /\ review.verified)
              /\ Cyclic(Spellings) /\ Spelled("colon") =>
                    {"invalid_task_dependency_order", "incomplete_task_block"} \subseteq review.issues
        /\ \A forms \in {ByValidator, ByLinter} :
              OnCycle(list.tasks, forms) \subseteq Residual(list.tasks, forms)
        /\ DemoDagOK(list.tasks) => ~Cyclic(Spellings)

\* After the reconciliation the summary agrees with the blocks, as the check
\* that reads only unmarked fields counts them (reconcile_effort_summary,
\* _effort_summary_issues).
SummaryAgrees ==
    list.at \in {"rewritten", "reviewed", "enforced"}
    /\ (\A i \in DOMAIN list.tasks : {list.tasks[i].prio.form, list.tasks[i].est.form} \subseteq {"plain", "paren"})
    /\ (\E i \in DOMAIN list.tasks : list.tasks[i].prio.value \in Priorities)
    /\ (\E i \in DOMAIN list.tasks : list.tasks[i].est.value \in Sizes)
    => EffortIssues(list.summary, list.tasks) = {}

\* A reference to a test that the harness provably lacks is flagged whatever
\* its siblings are, and a package verified with every check enforced has no
\* such reference to a file it does not contain and leaves no parsed test
\* without a task (_validate_task_references, verify_construction).
GapsShown ==
    list.at \in {"reviewed", "enforced"} =>
        /\ (\E i \in DOMAIN list.tasks : list.tasks[i].refers = "tests" /\
              \E r \in ToSet(list.tasks[i].refs) :
                 /\ ~InDropped(r, Dropped) /\ Canonical(r.path) \notin FilesWithBody(doc)
                 /\ IF r.test # "" THEN r.test \notin TestNames(doc)
                    ELSE Canonical(r.path) \notin KnownFiles(doc))
           => review.flagged
        /\ list.at = "enforced" /\ review.verified /\ ~demo =>
              /\ Spelled("below") => ~Cyclic(Spellings)
              /\ SpecIds(SpecDoc) \subseteq UNION {list.tasks[i].spec : i \in DOMAIN list.tasks}
              /\ \A t \in TestNames(doc) : \E r \in TaskRefs(list.tasks) :
                    r.test = t \/ (r.test = "" /\ t \in TestsIn(doc, Canonical(r.path)))
=============================================================================
