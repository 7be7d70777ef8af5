----------------------------- MODULE TaskChecks -----------------------------
(***************************************************************************)
(* What the platform computes from the text of TASKS.md: the checks of     *)
(* artifact_validator.py, the findings of online_eval.py, and the two      *)
(* construction linters.                                                   *)
(*                                                                         *)
(* A task list is a sequence of blocks.  A block has its number, the       *)
(* numbers its Dependencies (Demo Day: Precondition) name and the spelling *)
(* of that field, the values and spellings of its Priority and Estimate,   *)
(* its Harness refs (absent,                                               *)
(* setup only, or a sequence of references), the ids of its Spec refs and  *)
(* those it names anywhere, the plan sections of its Plan refs, whether    *)
(* the Precondition is there and whether every field is.  The summary      *)
(* above the blocks states counts.                                         *)
(***************************************************************************)
EXTENDS HarnessChecks, Relation

(***************************************************************************)
(* Fields.  A value is spelled plainly, with a comment in parentheses, or  *)
(* behind a list marker; "none" is an absent field.                        *)
(***************************************************************************)
Priorities == {"MUST", "SHOULD", "COULD"}
Sizes == {"XL", "L", "M", "S"}
\* reconcile_effort_summary and online_eval read every spelling ...
ReadField(f) == IF f.form = "none" THEN "" ELSE f.value
\* ... _effort_summary_issues does not look behind a list marker.
ReadFirstToken(f) == IF f.form \in {"plain", "paren"} THEN f.value ELSE ""

CountOf(tasks, field, value, Read(_)) == Cardinality({i \in DOMAIN tasks : Read(tasks[i][field]) = value})

\* The two count lines are rewritten when some block parsed a value for them.
Reconcile(s, tasks) ==
    IF ~s.present \/ tasks = <<>> THEN s
    ELSE LET prios == [p \in Priorities |-> CountOf(tasks, "prio", p, ReadField)]
             sizes == [z \in Sizes |-> CountOf(tasks, "est", z, ReadField)]
         IN [s EXCEPT
                !.total = IF \E p \in Priorities : prios[p] > 0 THEN Len(tasks) ELSE s.total,
                !.prios = IF \E p \in Priorities : prios[p] > 0 THEN prios ELSE s.prios,
                !.sizes = IF \E z \in Sizes : sizes[z] > 0 THEN sizes ELSE s.sizes]

\* A size that no block has is not on the Sizes line, so it is not compared.
EffortIssues(s, tasks) ==
    IF ~s.present \/ tasks = <<>> THEN {}
    ELSE {c \in {"effort_summary_task_count_mismatch"} : s.total # Len(tasks)}
         \cup {c \in {"effort_summary_priority_mismatch"} :
                 \E p \in Priorities : s.prios[p] # CountOf(tasks, "prio", p, ReadFirstToken)}
         \cup {c \in {"effort_summary_estimate_mismatch"} :
                 \E z \in Sizes : s.sizes[z] > 0 /\ s.sizes[z] # CountOf(tasks, "est", z, ReadFirstToken)}

(***************************************************************************)
(* The dependency graph.                                                   *)
(***************************************************************************)
Numbers(tasks) == {tasks[i].num : i \in DOMAIN tasks}

\* Dependencies are written below their label, as the prompt asks; on the line
\* of a label that ends in a colon; or apart from it by a blank line.
Spellings == {"below", "colon", "apart"}
\* _task_issues reads the colon's label, which the required fields do not accept;
\* _check_dag the other one, up to a blank line.
ByValidator == {"colon"}
ByLinter == {"below"}

\* What a reader of some spellings knows; of two blocks with one number the
\* later one counts.
DepsOf(tasks, n, forms) ==
    LET last == CHOOSE i \in DOMAIN tasks : tasks[i].num = n /\
                    \A j \in DOMAIN tasks : tasks[j].num = n => j <= i
    IN IF tasks[last].depsAs \in forms THEN tasks[last].deps \cap Numbers(tasks) ELSE {}

\* Kahn's peel: a task on which no remaining task depends is removed; what
\* is left after as many rounds as there are tasks stays.
Residual(tasks, forms) ==
    LET left[k \in 0..Len(tasks)] ==
            IF k = 0 THEN Numbers(tasks)
            ELSE {n \in left[k - 1] : \E m \in left[k - 1] : n \in DepsOf(tasks, m, forms)}
    IN left[Len(tasks)]

\* The reference: a task that depends on itself through others.
OnCycle(tasks, forms) ==
    LET R == [e \in Numbers(tasks) \X Numbers(tasks) |-> e[2] \in DepsOf(tasks, e[1], forms)]
        reach == TransitiveClosure(R, Numbers(tasks))
    IN {n \in Numbers(tasks) : reach[n, n]}

\* Demo Day: a Precondition names only earlier tasks of the list.
DemoDagOK(tasks) ==
    LET at(n) == CHOOSE i \in DOMAIN tasks : tasks[i].num = n /\
                    \A j \in DOMAIN tasks : tasks[j].num = n => j <= i
    IN \A i \in DOMAIN tasks :
          /\ tasks[i].pre
          /\ \A n \in tasks[i].deps : n # tasks[i].num /\ n \in Numbers(tasks) /\ at(n) < i

(***************************************************************************)
(* Completeness of the task list.                                          *)
(***************************************************************************)
TaskRefs(tasks) == UNION {ToSet(tasks[i].refs) : i \in {j \in DOMAIN tasks : tasks[j].refers = "tests"}}

RefIssues(tasks, harness) ==
    {c \in {"task_harness_ref_not_found"} :
        /\ KnownFiles(harness) # {}
        /\ \E r \in TaskRefs(tasks) : ~RefMatches(r, harness)}

TaskIssues(s, tasks, harness, floor) ==
    IF tasks = <<>> THEN {"missing_task_blocks"}
    ELSE {c \in {"insufficient_task_count"} : Len(tasks) < floor}
         \cup {c \in {"incomplete_task_block"} :
                 \E i \in DOMAIN tasks : ~tasks[i].whole \/ tasks[i].depsAs = "colon"}
         \cup {c \in {"invalid_task_dependency_order"} : Residual(tasks, ByValidator) # {}}
         \cup EffortIssues(s, tasks) \cup RefIssues(tasks, harness)

DemoTaskIssues(tasks, floor) ==
    IF tasks = <<>> THEN {"missing_task_blocks"}
    ELSE {c \in {"insufficient_task_count"} : Len(tasks) < floor}
         \cup {c \in {"incomplete_task_fields"} : \E i \in DOMAIN tasks : ~tasks[i].whole}

(***************************************************************************)
(* Findings: one per task for its references, plus its fields.             *)
(***************************************************************************)
\* The file of a reference belongs to a category that the harness deferred.
InDropped(ref, dropped) == {ref.path.dir, ref.path.base} \cap dropped # {}

Classify(ref, harness, dropped) ==
    LET c == Canonical(ref.path) IN
    IF InDropped(ref, dropped) THEN "DEFERRED_COVERAGE"
    ELSE IF c \in Unparsed(harness) THEN "UNVERIFIED_COVERAGE"
    ELSE "GENUINE_GAP"

\* A task missing from the harness is never masked by a softer sibling.
M_Gap(task, harness, dropped) ==
    LET kinds == {Classify(r, harness, dropped) : r \in {x \in ToSet(task.refs) : ~RefMatches(x, harness)}}
    IN CASE kinds = {} -> ""
         [] "DEFERRED_COVERAGE" \in kinds -> "DEFERRED_COVERAGE"
         [] "UNVERIFIED_COVERAGE" \in kinds -> "UNVERIFIED_COVERAGE"
         [] OTHER -> "GENUINE_GAP"

Gap(task, harness, dropped) ==
    LET bad == {r \in ToSet(task.refs) : ~RefMatches(r, harness)}
        kinds == {Classify(r, harness, dropped) : r \in bad}
    IN CASE task.refers = "absent" -> "GENERATION_FAILURE"
         [] task.refers = "setup" \/ bad = {} -> ""
         [] "GENUINE_GAP" \in kinds -> "GENUINE_GAP"
         [] "DEFERRED_COVERAGE" \in kinds -> "DEFERRED_COVERAGE"
         [] OTHER -> "UNVERIFIED_COVERAGE"

FieldGaps(task) ==
    {c \in {"MISSING_PRIORITY"} : ReadField(task.prio) \notin Priorities}
    \cup {c \in {"MISSING_ESTIMATE"} : ReadField(task.est) \notin Sizes}

Findings(tasks, harness, dropped) ==
    UNION {({Gap(tasks[i], harness, dropped)} \ {""}) \cup FieldGaps(tasks[i]) : i \in DOMAIN tasks}

\* What marks the stage for the user.
Flagged(tasks, harness, dropped) ==
    Findings(tasks, harness, dropped)
        \ {"GENERATION_FAILURE", "DEFERRED_COVERAGE", "UNVERIFIED_COVERAGE"} # {}

(***************************************************************************)
(* The construction checks.  `spec' is the ids it commits to, `plan' its   *)
(* load-bearing sections that something has to implement.                  *)
(***************************************************************************)
\* An id that only the deferral sections name is out of scope.
SpecIds(spec) == spec.ids \ (spec.declined \ spec.elsewhere)

RequirementCoverage(spec, tasks) ==
    SpecIds(spec) # {} /\ SpecIds(spec) \subseteq UNION {tasks[i].spec : i \in DOMAIN tasks}

\* A qualified reference claims its test, a whole file every test in it.
CitedTests(tasks, harness) ==
    UNION {IF r.test # "" THEN {r.test} \cap TestNames(harness) ELSE TestsIn(harness, Canonical(r.path))
           : r \in TaskRefs(tasks)}

\* Code that the scanner cannot read is unverified, not failed.
TestCoverage(tasks, harness) ==
    IF TestNames(harness) = {} THEN Unparsed(harness) # {}
    ELSE TestNames(harness) \subseteq CitedTests(tasks, harness)

DagAcyclic(tasks) == Residual(tasks, ByLinter) = {}

\* A section is implemented when some task's Plan refs cite it; an absent one
\* is another check's business, one that says "None" needs no task.
PlanGaps(plan, tasks) ==
    {s \in DOMAIN plan : plan[s] \notin {"absent", "none"} /\ \A i \in DOMAIN tasks : s \notin tasks[i].plan}

\* Tests, files and rows that declare themselves end to end, and a task that
\* lands on one.
E2ETests(harness, e2e) ==
    (TestNames(harness) \cap e2e)
    \cup UNION {TestsIn(harness, Canonical(w.path)) \cup ({w.test} \cap TestNames(harness))
                : w \in {v \in Body(harness, "Matrix").rows : v.e2e}}
E2EFiles(harness, e2e) ==
    {c \in KnownFiles(harness) : c[2] \in e2e}
    \cup ({Canonical(w.path) : w \in {v \in Body(harness, "Matrix").rows : v.e2e}} \cap KnownFiles(harness))
E2EReachable(tasks, harness, e2e) ==
    \E r \in TaskRefs(tasks) :
        \/ {r.test, r.path.base} \cap e2e # {}
        \/ r.test \in E2ETests(harness, e2e)
        \/ Canonical(r.path) \in E2EFiles(harness, e2e)

\* The checks that are neither advisory nor unenforced decide the verdict.
StandardVerdict(spec, plan, tasks, harness, e2e, enforced) ==
    enforced => /\ RequirementCoverage(spec, tasks) /\ TestCoverage(tasks, harness)
                /\ DagAcyclic(tasks) /\ PlanGaps(plan, tasks) = {}
                /\ E2EReachable(tasks, harness, e2e)

\* Demo Day joins on whole files, headings and tree entries alike.
HarnessPaths(harness) ==
    {NormalPath(harness[i].path) : i \in FileAt(harness)}
    \cup {NormalPath(p) : p \in Body(harness, "Tree").files}
TaskToTest(tasks, harness) ==
    \A i \in DOMAIN tasks :
        \/ tasks[i].refers = "setup"
        \/ /\ tasks[i].refers = "tests"
           /\ \E r \in ToSet(tasks[i].refs) : r.test = ""
           /\ \A r \in ToSet(tasks[i].refs) :
                 r.test = "" => \E p \in HarnessPaths(harness) : p[2] = r.path.base
DemoE2E(tasks, harness) ==
    /\ Body(harness, "Smoke").files # {} /\ tasks # <<>>
    /\ \E p \in Body(harness, "Smoke").files : 
        \E r \in ToSet(Last(tasks).refs) : r.test = "" /\ r.path.base = p.base
AcToTest(spec, tasks, harness) ==
    /\ spec.acs # {}
    /\ spec.acs \subseteq {w.req : w \in Body(harness, "Matrix").rows}
    /\ spec.acs \subseteq UNION {tasks[i].ids : i \in DOMAIN tasks}
DemoVerdict(spec, plan, tasks, harness, enforced) ==
    /\ DemoDagOK(tasks) /\ TaskToTest(tasks, harness) /\ AcToTest(spec, tasks, harness)
    /\ DemoE2E(tasks, harness)
    /\ enforced => PlanGaps(plan, tasks) = {}

=============================================================================
