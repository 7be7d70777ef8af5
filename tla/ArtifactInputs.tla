--------------------------- MODULE ArtifactInputs ---------------------------
(***************************************************************************)
(* The harnesses, patches and task lists that ArtifactGate is checked with *)
(***************************************************************************)
LOCAL INSTANCE Integers
LOCAL INSTANCE Sequences
LOCAL INSTANCE SequencesExt
LOCAL INSTANCE TaskChecks

(***************************************************************************)
(* Paths: one spelled in two ways, one of the same name in another         *)
(* directory, one without a directory, and one that is not a test.         *)
(***************************************************************************)
LOCAL PA == Path("t", "a", FALSE, TRUE)
LOCAL PO == Path("t", "a", TRUE, TRUE)
LOCAL PU == Path("u", "a", FALSE, TRUE)
LOCAL PB == Path("", "b", FALSE, TRUE)
LOCAL PX == Path("t", "x", FALSE, FALSE)

(***************************************************************************)
(* Harnesses: a head of contract sections, and files that may be repeated, *)
(* stubs, cut short or in a language that is not parsed.                   *)
(***************************************************************************)
LOCAL Row(r, p, t) == [req |-> r, path |-> p, test |-> t, e2e |-> p.base = "b"]
LOCAL Blocks == {
    Block(PA, "full", {"ta"}, {"R1"}, TRUE), Block(PA, "none", {}, {}, TRUE),
    Block(PO, "full", {"ta"}, {"R1"}, TRUE), Block(PB, "full", {}, {"R2"}, FALSE),
    Block(PB, "cut", {"tb"}, {}, FALSE), Block(PX, "full", {}, {}, TRUE)}
LOCAL Top(rows, tree) ==
    <<Sect("Matrix", {}, rows, {}, TRUE), Sect("Tree", {}, {}, tree, TRUE), Sect("Smoke", {"R2"}, {}, {PB}, TRUE)>>
LOCAL Rows1 == {Row("R1", PA, "ta"), Row("R2", PB, "")}
LOCAL Rows2 == {Row("R1", PU, ""), Row("R2", PX, "")}
LOCAL FilesHead == <<Sect("Files", {}, {}, {}, TRUE)>>
LOCAL Single == {Top(m, t) \o FilesHead \o f : m \in {Rows1, Rows2}, t \in {{PA, PB}, {PX}}, f \in SeqOf(Blocks, 2)}

\* A second emission may repeat the head, with a fence left open or without
\* its Files heading, before it goes on with its files.
LOCAL Start == Top(Rows1, {PA, PB})
LOCAL Again == {Start \o FilesHead, Start, [Start EXCEPT ![2].fence = "cut"] \o FilesHead}
LOCAL Twice ==
    {h \o f \o k \o g : h \in Again, k \in Again, f \in SeqOf(Blocks, 1), g \in SeqOf(Blocks, 1)}

\* One emission, the same emission twice, one that begins again, a second
\* Files section, and files in front of the head.
AllDocs ==
    {<<>>} \cup Single \cup {d \o d : d \in Single} \cup Twice
    \cup {Top(Rows1, {PA, PB}) \o FilesHead \o f \o FilesHead \o g : f \in SeqOf(Blocks, 2), g \in SeqOf(Blocks, 1)}
    \cup {FilesHead \o f \o Top(Rows1, {PA, PB}) : f \in SeqOf(Blocks, 2)}

\* One new block, or one path twice, or with a path that may be there.
LOCAL FullB == Block(PB, "full", {"tb"}, {"R2"}, FALSE)
LOCAL EmptyB == Block(PB, "empty", {}, {}, FALSE)
LOCAL FullO == Block(PO, "full", {}, {"R2"}, TRUE)
AllPatches == SeqOf({Block(PU, "full", {"tu"}, {"R1"}, TRUE), FullB, FullO, EmptyB}, 1)
              \cup {<<b, c>> : b \in {FullB, EmptyB}, c \in {FullB, EmptyB, FullO}}

(***************************************************************************)
(* Task lists: every dependency graph of three tasks, with one unknown     *)
(* task, in either spelling, and the full cycle in every mixture of them;  *)
(* spellings of the other fields; references of every kind.                *)
(***************************************************************************)
LOCAL Field(v, f) == [value |-> v, form |-> f]
LOCAL Ref(p, t) == [path |-> p, test |-> t]
LOCAL Forecast == [present |-> TRUE, total |-> 9, prios |-> [p \in {"MUST", "SHOULD", "COULD"} |-> 1],
                   sizes |-> [z \in {"XL", "L", "M", "S"} |-> 1]]
LOCAL Plain == [num |-> 1, deps |-> {}, depsAs |-> "below", pre |-> TRUE, prio |-> Field("MUST", "plain"),
                est |-> Field("S", "paren"), refers |-> "tests", refs |-> <<Ref(PA, "ta"), Ref(PB, "")>>,
                spec |-> {"R1", "R2"}, ids |-> {"R1", "R2"}, plan |-> {"Data"}, whole |-> TRUE]
LOCAL List(tasks) == [summary |-> Forecast, tasks |-> tasks]
LOCAL Graph(g, form) ==
    List([i \in 1..3 |-> [Plain EXCEPT !.num = i, !.deps = g[i], !.depsAs = form[i], !.pre = g[i] # {4}]])
LOCAL GraphLists ==
    {Graph(g, [i \in 1..3 |-> form]) : g \in [1..3 -> (SUBSET (1..3)) \cup {{4}}], form \in ByValidator \cup ByLinter}
    \cup {Graph(<<{2}, {3}, {1}>>, form) : form \in [1..3 -> Spellings]}
LOCAL Fields == {Field("MUST", "plain"), Field("SHOULD", "paren"), Field("MUST", "list"),
                 Field("x", "plain"), Field("", "none")}
LOCAL FieldLists ==
    {List(<<[Plain EXCEPT !.prio = p, !.est = e], [Plain EXCEPT !.prio = q, !.est.value = v]>>)
     : p \in Fields, q \in Fields, e \in {Field("XL", "list"), Field("M", "paren")}, v \in {"S", "?"}}
LOCAL Refs == {Ref(PA, "ta"), Ref(PA, "zz"), Ref(PU, ""), Ref(PB, "tb"), Ref(PB, ""), Ref(PX, "tx")}
LOCAL RefLists ==
    {List(<<[Plain EXCEPT !.refs = rs]>>) : rs \in SeqOf(Refs, 2)}
    \cup {List(<<[Plain EXCEPT !.refers = k, !.refs = <<>>, !.whole = k = "setup"]>>) : k \in {"absent", "setup"}}
    \cup {List(<<>>)}

\* Graphs and spellings are independent of the harness.
LOCAL Whole == Top(Rows1, {PA, PB}) \o FilesHead \o
               <<Block(PA, "full", {"ta"}, {"R1"}, TRUE), Block(PB, "full", {}, {"R2"}, FALSE)>>
AllLists(d) ==
    IF d = Whole THEN GraphLists \cup FieldLists \cup RefLists
    ELSE IF Len(d) = 6 /\ SubSeq(d, 1, 4) = SubSeq(Whole, 1, 4) THEN RefLists ELSE {}

=============================================================================
