--------------------------- MODULE HarnessChecks ---------------------------
(***************************************************************************)
(* What artifact_validator.py computes from the text of a HARNESS: which   *)
(* files it contains, which requirements they cover, which promises it     *)
(* breaks, and the rewrites and the merge that change it.                  *)
(*                                                                         *)
(* A document is a sequence of items in the order of their headings:       *)
(*   - a section, with its heading, the requirement ids its text names,    *)
(*     the rows of a matrix, the files it names in backticks or in a tree, *)
(*     whether its body clears the depth floor, and whether it leaves a    *)
(*     code fence open;                                                    *)
(*   - a `### File:` block, with its path, its fence, the tests a parser   *)
(*     names in it, the ids of its `Tests:` tags and whether it is Python. *)
(* A path is a directory, a name, and whether it is spelled another way    *)
(* (case, `./`); the name says whether it reads as a test file.            *)
(***************************************************************************)
EXTENDS Integers, Sequences, FiniteSets, SequencesExt

Path(dir, base, odd, test) == [dir |-> dir, base |-> base, odd |-> odd, test |-> test]
Sect(name, ids, rows, files, deep) ==
    [kind |-> "section", name |-> name, ids |-> ids, rows |-> rows, files |-> files, deep |-> deep,
     fence |-> "none"]
\* The fence of a block: none, opened and empty, cut short, or complete.
Block(path, fence, tests, tags, py) ==
    [kind |-> "file", path |-> path, fence |-> fence, tests |-> tests, tags |-> tags, py |-> py]

(***************************************************************************)
(* Reading a document.                                                     *)
(***************************************************************************)
\* Two spellings of one file are equal ...
Canonical(p) == <<p.dir, p.base>>
\* ... except where only a leading harness/ is stripped.
NormalPath(p) == <<p.dir, p.base, p.odd>>
Bare(c) == c[1] = ""

FileAt(d) == {i \in DOMAIN d : d[i].kind = "file"}
SectionAt(d) == {i \in DOMAIN d : d[i].kind = "section"}
Named(d, name) == {i \in SectionAt(d) : d[i].name = name}
Has(d, name) == Named(d, name) # {}
\* The body of a section is that of its first occurrence.
First(S) == CHOOSE i \in S : \A j \in S : i <= j
Body(d, name) ==
    IF Has(d, name) THEN d[First(Named(d, name))] ELSE Sect(name, {}, {}, {}, FALSE)
\* The blocks under the first Files heading, up to the next section.
FilesBody(d) ==
    IF ~Has(d, "Files") THEN {}
    ELSE {i \in FileAt(d) : /\ i > First(Named(d, "Files"))
                            /\ \A j \in SectionAt(d) : j <= First(Named(d, "Files")) \/ j > i}
\* The region of the rewrites and of the tags: everything after that heading.
Region(d) ==
    IF Has(d, "Files") THEN {i \in DOMAIN d : i >= First(Named(d, "Files"))} ELSE {}

\* What one scan of the document learns.
KnownFiles(d) == {Canonical(d[i].path) : i \in FileAt(d)}
FilesWithBody(d) == {Canonical(d[i].path) : i \in {j \in FileAt(d) : d[j].fence \in {"cut", "full"}}}
TestsIn(d, c) ==
    UNION {d[i].tests : i \in {j \in FileAt(d) : Canonical(d[j].path) = c /\ d[j].fence \in {"cut", "full"}}}
TestNames(d) == UNION {TestsIn(d, c) : c \in KnownFiles(d)}
FilesWithTests(d) == {c \in KnownFiles(d) : TestsIn(d, c) # {}}
PythonFiles(d) == {Canonical(d[i].path) : i \in {j \in FileAt(d) : d[j].py}}
\* Files with code in which the scan cannot name a test.
Unparsed(d) == (FilesWithBody(d) \ FilesWithTests(d)) \ PythonFiles(d)

\* A reference names a test, anywhere, or a whole file.
RefMatches(ref, d) ==
    IF ref.test # "" THEN ref.test \in TestNames(d) ELSE Canonical(ref.path) \in KnownFiles(d)

(***************************************************************************)
(* Coverage.                                                               *)
(***************************************************************************)
\* A promised file counts as emitted when a block with a body has its path,
\* or its name where one of the two names no directory.
Emitted(d, c) ==
    \/ c \in FilesWithBody(d)
    \/ \E e \in FilesWithBody(d) : e[2] = c[2] /\ (Bare(c) \/ Bare(e))

\* The test files that the rows of the matrix give a requirement.
MatrixFiles(d, r) ==
    {Canonical(w.path) : w \in {v \in Body(d, "Matrix").rows : v.req = r /\ v.path.test}}
MatrixReqs(d) == {w.req : w \in {v \in Body(d, "Matrix").rows : v.path.test}}

\* The requirements tagged inside blocks that have a body.
Tagged(d) ==
    UNION {d[i].tags : i \in {j \in FileAt(d) \cap Region(d) : Canonical(d[j].path) \in FilesWithBody(d)}}

Covered(d) == {r \in MatrixReqs(d) : \E c \in MatrixFiles(d, r) : Emitted(d, c)} \cup Tagged(d)

\* Without upstream ids the answer is about the matrix alone.
Uncovered(d, upstream) == (IF upstream # {} THEN upstream ELSE MatrixReqs(d)) \ Covered(d)
CoverageRatio(d, upstream) == <<Cardinality(upstream \cap Covered(d)), Cardinality(upstream)>>

\* The files that the tree and the matrix promise, and those never emitted.
TreeFiles(d) == {Canonical(p) : p \in Body(d, "Tree").files}
MatrixPromises(d) == {Canonical(w.path) : w \in {v \in Body(d, "Matrix").rows : v.path.test}}
Promised(d) == TreeFiles(d) \cup MatrixPromises(d)
MissingFiles(d) == {c \in Promised(d) : ~Emitted(d, c)}

(***************************************************************************)
(* The issues of a harness, by their codes.                                *)
(***************************************************************************)
\* Every id that the text names somewhere.
IdsOf(d) ==
    UNION ({d[i].ids : i \in SectionAt(d)} \cup {d[i].tags : i \in FileAt(d)}
           \cup {{w.req : w \in d[i].rows} : i \in SectionAt(d)})
MappedIds(d) ==
    {w.req : w \in Body(d, "Matrix").rows} \cup Body(d, "Matrix").ids
    \cup UNION {d[i].tags : i \in FilesBody(d)}

\* Headings that were promised and carry no code.
FileBodyIssues(d) ==
    IF ~Has(d, "Files") THEN {}
    ELSE {c \in {"missing_harness_file_blocks"} : FilesWithBody(d) = {}}
         \cup {c \in {"incomplete_harness_file_block"} : KnownFiles(d) \ FilesWithBody(d) # {}}

HarnessIssues(d, upstream) ==
    {c \in {"harness_file_tree_missing_block"} : \E f \in TreeFiles(d) : ~Emitted(d, f)}
    \cup {c \in {"harness_matrix_missing_file"} : \E f \in MatrixPromises(d) : ~Emitted(d, f)}
    \cup {c \in {"harness_requirement_not_test_mapped"} :
            /\ Has(d, "Matrix") /\ Body(d, "Matrix").rows # {} /\ FilesBody(d) # {}
            /\ (upstream \cap IdsOf(d)) \ MappedIds(d) # {}}
    \cup {c \in {"harness_matrix_missing_test"} :
            \E w \in Body(d, "Matrix").rows :
                w.test # "" /\ w.test \notin UNION {d[i].tests : i \in FilesBody(d)}}
    \cup {c \in {"missing_test_traceability_comment"} :
            \E i \in FilesBody(d) : d[i].tests # {} /\ d[i].tags = {}}
    \cup FileBodyIssues(d)

\* Demo Day reports broken promises once, and the smoke test it must name.
DemoHarnessIssues(d) ==
    {c \in {"missing_e2e_smoke_test"} : Body(d, "Smoke").files = {}}
    \cup IF MissingFiles(d) # {} THEN {"harness_file_tree_missing_block"}
         ELSE {c \in {"missing_harness_file_blocks"} : Has(d, "Files") /\ FilesWithBody(d) = {}}

\* A required section that is absent or thin; a tree must name a file.
Shallow(d, contract) ==
    {c \in {"shallow_required_section"} :
        \E s \in contract :
            CASE s = "Tree" -> TreeFiles(d) = {}
              [] s = "Files" -> \A i \in FilesBody(d) : d[i].fence \notin {"cut", "full"}
              [] OTHER -> ~Body(d, s).deep}

\* A cut block or section leaves the fences of the document odd.
ShapeIssues(d) ==
    {c \in {"unbalanced_code_fence"} : Cardinality({i \in DOMAIN d : d[i].fence = "cut"}) % 2 = 1}

Traceability(d, upstream) ==
    {c \in {"insufficient_upstream_traceability"} : upstream \ IdsOf(d) # {}}

Completeness(d, contract, upstream, demo) ==
    {c \in {"empty_artifact"} : d = <<>>} \cup Shallow(d, contract) \cup ShapeIssues(d)
    \cup (IF demo THEN DemoHarnessIssues(d) ELSE HarnessIssues(d, upstream))
    \cup Traceability(d, upstream)

\* What withholds readiness, and what alone is worth a refund.
Blocking == {"unbalanced_code_fence", "harness_file_tree_missing_block",
    "harness_matrix_missing_file", "harness_matrix_missing_test", "missing_harness_file_blocks",
    "incomplete_harness_file_block", "missing_task_blocks", "incomplete_task_block",
    "incomplete_task_fields", "invalid_task_dependency_order", "task_harness_ref_not_found",
    "rtm_missing_upstream_id", "insufficient_upstream_traceability",
    "harness_requirement_not_test_mapped"}
Refundable == {"empty_artifact", "provider_stopped_by_limit"}

\* headings: a fence left open hides what follows until a block closes its own.
Hidden(d, i) ==
    \E j \in 1..(i - 1) : d[j].fence = "cut" /\ \A k \in (j + 1)..(i - 1) : d[k].fence \in {"none", "cut"}
MissingSections(d, contract) ==
    contract \ {d[i].name : i \in {j \in SectionAt(d) : ~Hidden(d, j)}}
Ready(d, contract, issues) ==
    MissingSections(d, contract) = {} /\ issues \cap (Blocking \cup Refundable) = {}

(***************************************************************************)
(* Rewrites: the first of each block and of each contract section is kept. *)
(***************************************************************************)
Select(d, I) ==
    LET kept == SelectSeq([i \in DOMAIN d |-> i], LAMBDA i : i \in I)
    IN [k \in DOMAIN kept |-> d[kept[k]]]

\* The block or section that an item belongs to, itself included.
Under(S, i) == LET before == {j \in S : j <= i} IN
    IF before = {} THEN 0 ELSE CHOOSE j \in before : \A k \in before : k <= j

\* A duplicate block goes with everything up to the next block.
DedupeFiles(d) ==
    LET files == FileAt(d) \cap Region(d)
        again == {i \in files : \E j \in files : j < i /\ NormalPath(d[j].path) = NormalPath(d[i].path)}
    IN Select(d, {i \in DOMAIN d : i \notin Region(d) \/ Under(files, i) \notin again})

\* An opened fence is closed by the next fence line, also by one that opens:
\* a heading within is neither a duplicate nor the end of one.
InFence(d, i) == Cardinality({j \in 1..(i - 1) : d[j].fence = "cut"}) % 2 = 1

\* A duplicate section goes with everything up to the next section; a second
\* Files section is left to the rewrite above.
M_DedupeSections(d, contract) ==
    LET again == {i \in SectionAt(d) : \E j \in SectionAt(d) : j < i /\ d[j].name = d[i].name}
    IN Select(d, {i \in DOMAIN d : Under(SectionAt(d), i) \notin again})
DedupeSections(d, contract) ==
    LET open == {i \in SectionAt(d) : ~InFence(d, i)}
        again == {i \in open : /\ d[i].name \in contract \ {"Files"}
                               /\ \E j \in open : j < i /\ d[j].name = d[i].name}
    IN Select(d, {i \in DOMAIN d : Under(open, i) \notin again})

Rewrite(d, contract) == DedupeSections(DedupeFiles(d), contract)

(***************************************************************************)
(* The paid patch: new, complete blocks are appended.                      *)
(***************************************************************************)
Complete(b) == b.fence \in {"empty", "full"}
MergePatch(d, patch) ==
    LET fresh(i) == Complete(patch[i]) /\ Canonical(patch[i].path) \notin KnownFiles(d)
        new == {i \in DOMAIN patch : fresh(i) /\
                    \A j \in DOMAIN patch : j < i /\ fresh(j) =>
                        Canonical(patch[j].path) # Canonical(patch[i].path)}
    IN d \o Select(patch, new)

=============================================================================
