--------------------------- MODULE StageGateProofs ---------------------------
(***************************************************************************)
(* Proofs about StageGate, for any number of stages, versions, edits and   *)
(* checks: the type invariant, that a finalised text passes readiness or   *)
(* was accepted by its owner, that a finalised chain of stages is built    *)
(* from its current versions, and that a blocked version is finalised only *)
(* after an override.  The last two hold until a stage is unlocked by a    *)
(* rollback to its current version, which tells nobody and clears the      *)
(* gate; the last one also asks that no check hangs, since the sweep       *)
(* writes its verdict over whatever gate the row holds by then.            *)
(***************************************************************************)
EXTENDS StageGate, TLAPS

-----------------------------------------------------------------------------
(* Types.                                                                  *)

StageRow == [status : {"locked", "draft", "in_progress", "finalised", "stale"},
             version : Versions, source : Source, gate : GateStatus, gateVersion : Versions]

Text == [quality : AllQuality, source : Source]

Snapshot == [source : Source, prev : {"draft", "stale"}]

\* A generation was started with room for its version, and ends before any other.
Room == \A s \in STAGE_ORDER : stage[s].status = "in_progress" => CanGrow(s)

Typed == TypeOK /\ Room

\* The rows are those of STAGE_ORDER.
LEMMA StagesAre == Typed => DOMAIN stage = STAGE_ORDER
BY DEF Typed, TypeOK

\* A stage keeps its text.
SameText(s) == stage'[s].version = stage[s].version /\ versions'[s] = versions[s]

\* The first rows have their shapes.
LEMMA InitTyped == ASSUME StageGateAssumption PROVE Init => Typed
<1> SUFFICES ASSUME Init
             PROVE  Typed
  OBVIOUS
<1>1. 0 \in Versions /\ NoSource \in Source /\ 0 \in 0..MaxInputs /\ 0 \in 0..MaxUnlocks
  <2>1. NoSource \in Source
    BY DEF Source
  <2>2. 0 \in 0..MaxVersion /\ 0 \in 0..MaxInputs /\ 0 \in 0..MaxUnlocks
    BY DEF StageGateAssumption
  <2> QED
    BY <2>1, <2>2 DEF Versions
<1>2. \A s \in STAGE_ORDER : stage[s] \in StageRow /\ stage[s].version = 0
                             /\ stage[s].status # "in_progress"
  BY <1>1 DEF Init, StageRow, GateStatus
<1>3. stage \in [STAGE_ORDER -> StageRow]
  BY <1>2 DEF Init
<1>4. NoRun \in Snapshot
  BY <1>1 DEF NoRun, Snapshot
<1>5. /\ versions \in [STAGE_ORDER -> Seq(Text)]
      /\ \A s \in STAGE_ORDER : Len(versions[s]) = stage[s].version
  <2>1. versions = [s \in STAGE_ORDER |-> <<>>]
    BY DEF Init
  <2>2. \A s \in STAGE_ORDER : versions[s] = <<>>
    BY <2>1
  <2>3. <<>> \in Seq(Text) /\ Len(<<>>) = 0
    OBVIOUS
  <2> QED
    BY <1>2, <2>1, <2>2, <2>3
<1> QED
  BY <1>1, <1>2, <1>3, <1>4, <1>5
  DEF Init, Typed, TypeOK, Room, StageRow, Text, Snapshot

\* The identity of a stage's sources is a source.
LEMMA IdentityIsSource ==
    ASSUME StageGateAssumption, TypeOK, NEW s \in STAGE_ORDER
    PROVE  Identity(s) \in Source
<1>1. [t \in 1..(s - 1) |-> stage[t].version] \in [1..(s - 1) -> Versions]
  <2>1. \A t \in 1..(s - 1) : t \in STAGE_ORDER
    BY DEF StageGateAssumption, STAGE_ORDER
  <2>2. \A t \in STAGE_ORDER : stage[t].version \in Versions
    BY DEF TypeOK
  <2> QED
    BY <2>1, <2>2
<1>2. inputs \in 0..MaxInputs
  BY DEF TypeOK
<1>3. Identity(s) \in [inputs : 0..MaxInputs, up : [1..(s - 1) -> Versions]]
  BY <1>1, <1>2 DEF Identity
<1> QED
  BY <1>3 DEF Source

\* The rows, whatever a step writes into them.
LEMMA RowsTyped ==
    ASSUME Typed, stage' \in [STAGE_ORDER -> StageRow],
           \A s \in STAGE_ORDER : stage'[s].status = "in_progress" =>
               stage'[s].version < MaxVersion,
           versions' \in [STAGE_ORDER -> Seq(Text)],
           \A s \in STAGE_ORDER : Len(versions'[s]) = stage'[s].version,
           inputs' \in 0..MaxInputs,
           run' \in [STAGE_ORDER -> Snapshot],
           jobs' \subseteq Job, hung' \subseteq STAGE_ORDER,
           sweep' \subseteq STAGE_ORDER \X {"blocked", "advisory"},
           unlocks' \in 0..MaxUnlocks,
           unresolved' \subseteq STAGE_ORDER \X Versions,
           accepted' \subseteq STAGE_ORDER \X Versions
    PROVE  Typed'
BY DEF Typed, TypeOK, Room, CanGrow, StageRow, Text, Snapshot

\* What the types say, with their names.
LEMMA Shapes ==
    ASSUME Typed
    PROVE  /\ stage \in [STAGE_ORDER -> StageRow]
           /\ versions \in [STAGE_ORDER -> Seq(Text)]
           /\ \A s \in STAGE_ORDER : Len(versions[s]) = stage[s].version
           /\ \A s \in STAGE_ORDER : stage[s].status = "in_progress" =>
                  stage[s].version < MaxVersion
           /\ inputs \in 0..MaxInputs
           /\ run \in [STAGE_ORDER -> Snapshot]
           /\ jobs \subseteq Job /\ hung \subseteq STAGE_ORDER
           /\ sweep \subseteq STAGE_ORDER \X {"blocked", "advisory"}
           /\ unlocks \in 0..MaxUnlocks
           /\ unresolved \subseteq STAGE_ORDER \X Versions
           /\ accepted \subseteq STAGE_ORDER \X Versions
BY DEF Typed, TypeOK, Room, CanGrow, StageRow, Text, Snapshot

\* The ghosts keep their types.
LEMMA NotesTyped ==
    ASSUME Typed, NEW s \in STAGE_ORDER, stage' \in [STAGE_ORDER -> StageRow], NoteGate(s)
    PROVE  /\ unresolved' \subseteq STAGE_ORDER \X Versions
           /\ accepted' \subseteq STAGE_ORDER \X Versions
<1>1. stage'[s].version \in Versions
  BY DEF StageRow
<1> QED
  BY <1>1, Shapes DEF NoteGate

-----------------------------------------------------------------------------
(* A new version.                                                          *)

\* A text is recorded as the new head.
LEMMA RecordTyped ==
    ASSUME Typed, NEW s \in STAGE_ORDER, NEW q \in AllQuality, NEW src \in Source,
           Record(s, q, src), stage' \in [STAGE_ORDER -> StageRow],
           stage'[s].version = stage[s].version + 1,
           \A t \in STAGE_ORDER : t # s => stage'[t].version = stage[t].version
    PROVE  /\ versions' \in [STAGE_ORDER -> Seq(Text)]
           /\ \A t \in STAGE_ORDER : Len(versions'[t]) = stage'[t].version
           /\ \A t \in STAGE_ORDER : t # s => versions'[t] = versions[t]
<1> DEFINE text == [quality |-> q, source |-> src]
<1>1. versions \in [STAGE_ORDER -> Seq(Text)] /\ Len(versions[s]) = stage[s].version
  BY Shapes
<1>2. text \in Text
  BY DEF Text
<1>3. versions' = [versions EXCEPT ![s] = Append(versions[s], text)]
  BY <1>1 DEF Record
<1> HIDE DEF text
<1>4. Append(versions[s], text) \in Seq(Text) /\ Len(Append(versions[s], text)) = Len(versions[s]) + 1
  BY <1>1, <1>2
<1>5. /\ versions'[s] = Append(versions[s], text)
      /\ \A t \in STAGE_ORDER : t # s => versions'[t] = versions[t]
  BY <1>1, <1>3
<1>6. versions' \in [STAGE_ORDER -> Seq(Text)]
  BY <1>1, <1>3, <1>4
<1>7. \A t \in STAGE_ORDER : Len(versions[t]) = stage[t].version
  BY Shapes
<1> QED
  BY <1>1, <1>4, <1>5, <1>6, <1>7

\* The background checks of the new version are scheduled.
LEMMA ScheduleTyped ==
    ASSUME Typed, StageGateAssumption, NEW s \in STAGE_ORDER, CanGrow(s),
           NEW kinds \in SUBSET {"technology", "critic"}, Schedule(s, kinds)
    PROVE  jobs' \subseteq Job
<1>1. stage[s].version \in Versions /\ jobs \subseteq Job
  BY Shapes DEF StageRow
<1>2. stage[s].version + 1 \in Versions
  BY <1>1 DEF CanGrow, Versions, StageGateAssumption
<1>3. [kind : kinds, stage : {s}, version : {stage[s].version + 1}] \subseteq Job
  BY <1>2 DEF Job
<1> QED
  BY <1>1, <1>3 DEF Schedule

\* The row of a new version, and the gate it starts with.
LEMMA GrownRow ==
    ASSUME Typed, StageGateAssumption, NEW s \in STAGE_ORDER, CanGrow(s),
           NEW src \in Source, NEW status \in {"draft", "stale"}
    PROVE  LET row == NewVersion(s, src, status)
           IN  /\ row \in StageRow
               /\ row.version = stage[s].version + 1
               /\ row.status = status
               /\ row.source = src
<1>1. stage[s] \in StageRow
  BY Shapes
<1>2. stage[s].version + 1 \in Versions
  BY <1>1 DEF StageRow, CanGrow, Versions, StageGateAssumption
<1> QED
  BY <1>1, <1>2 DEF NewVersion, StageRow

\* A new row is checked, or blocked by a local finding.
LEMMA CheckedRow ==
    ASSUME NEW row \in StageRow, NEW q
    PROVE  /\ Checking(row, q) \in StageRow
           /\ Checking(row, q).version = row.version
           /\ Checking(row, q).status = row.status
           /\ Checking(row, q).source = row.source
           /\ Checking(row, q).gate \in {"blocked", "checking"}
           /\ Checking(row, q).gateVersion = row.version
<1>1. /\ [row EXCEPT !.gate = "blocked", !.gateVersion = row.version] \in StageRow
      /\ [row EXCEPT !.gate = "checking", !.gateVersion = row.version] \in StageRow
  BY DEF StageRow, GateStatus
<1> QED
  BY <1>1 DEF Checking, StageRow

\* Marking the stages downstream changes statuses only.
LEMMA MarkedRows ==
    ASSUME NEW st \in [STAGE_ORDER -> StageRow], NEW s \in STAGE_ORDER
    PROVE  LET mk == MarkDownstreamStale(st, s)
           IN  /\ mk \in [STAGE_ORDER -> StageRow]
               /\ \A t \in STAGE_ORDER :
                    /\ mk[t].version = st[t].version
                    /\ mk[t].source = st[t].source
                    /\ mk[t].gate = st[t].gate
                    /\ mk[t].gateVersion = st[t].gateVersion
                    /\ mk[t].status \in {st[t].status, "stale"}
                    /\ t > s /\ st[t].version > 0 => mk[t].status # "finalised"
                    /\ ~(t > s) => mk[t] = st[t]
<1> DEFINE mk == MarkDownstreamStale(st, s)
<1>1. \A t \in STAGE_ORDER : st[t] \in StageRow /\ [st[t] EXCEPT !.status = "stale"] \in StageRow
  BY DEF StageRow
<1>2. \A t \in STAGE_ORDER : mk[t] = IF t > s /\ st[t].status \in {"finalised", "draft"}
                                        /\ st[t].version > 0
                                     THEN [st[t] EXCEPT !.status = "stale"] ELSE st[t]
  BY DEF MarkDownstreamStale
<1>3. mk \in [STAGE_ORDER -> StageRow]
  BY <1>1 DEF MarkDownstreamStale
<1>4. ASSUME NEW t \in STAGE_ORDER
      PROVE  /\ mk[t].version = st[t].version
             /\ mk[t].source = st[t].source
             /\ mk[t].gate = st[t].gate
             /\ mk[t].gateVersion = st[t].gateVersion
             /\ mk[t].status \in {st[t].status, "stale"}
             /\ t > s /\ st[t].version > 0 => mk[t].status # "finalised"
             /\ ~(t > s) => mk[t] = st[t]
  <2> DEFINE was == st[t]
             marked == t > s /\ was.status \in {"finalised", "draft"} /\ was.version > 0
  <2>1. was \in StageRow /\ mk[t] = IF marked THEN [was EXCEPT !.status = "stale"] ELSE was
    BY <1>1, <1>2
  <2>2. CASE marked
    BY <2>1, <2>2 DEF StageRow
  <2>3. CASE ~marked
    BY <2>1, <2>3
  <2> QED
    BY <2>2, <2>3
<1> QED
  BY <1>3, <1>4

-----------------------------------------------------------------------------
(* What a step does: eight kinds of step.                                  *)

SameGate(s) == stage'[s].gate = stage[s].gate /\ stage'[s].gateVersion = stage[s].gateVersion

SameSource(s) == stage'[s].source = stage[s].source

Finalised(s) == stage[s].status = "finalised"

\* The ghosts, and the text, gate and source of a stage, are left alone.
NoNote == unresolved' = unresolved /\ accepted' = accepted

Keeps(s) == SameText(s) /\ SameGate(s) /\ SameSource(s)

Aside == stage' = stage /\ versions' = versions /\ NoNote

\* Stages change their status, none to finalised; unless every finalised text is marked,
\* a finalised stage stays so.
Marks ==
    /\ \A s \in STAGE_ORDER : Keeps(s) /\ (Finalised(s)' => Finalised(s))
    /\ \/ \A s \in STAGE_ORDER : Finalised(s) => Finalised(s)'
       \/ \A s \in STAGE_ORDER : stage[s].version > 0 => ~Finalised(s)'
    /\ NoNote

\* The owner finalises s, or acknowledges that it is stale.
Finalises(s) ==
    /\ Settled(s) /\ Ready(s) /\ DependenciesFinalised(s) /\ ~Finalised(s)
    /\ Finalised(s)'
    /\ stage'[s].source \in {NoSource, Identity(s)}
    /\ \A t \in STAGE_ORDER : SameText(t) /\ SameGate(t)
    /\ \A t \in STAGE_ORDER : t # s => SameSource(t) /\ (Finalised(t)' <=> Finalised(t))
    /\ NoNote

\* s gets a new version; if it was finalised, the stages built on it become stale.
Grows(s) ==
    /\ stage'[s].version = stage[s].version + 1
    /\ ~Finalised(s)'
    /\ stage'[s].gate \in {"blocked", "checking"}
    /\ stage'[s].gateVersion = stage'[s].version
    /\ \A t \in STAGE_ORDER : t # s => Keeps(t) /\ (Finalised(t)' => Finalised(t))
    /\ \A t \in STAGE_ORDER : t < s /\ Finalised(t) => Finalised(t)'
    /\ Finalised(s) => \A t \in STAGE_ORDER : t > s /\ stage[t].version > 0 => ~Finalised(t)'
    /\ NoteGate(s)

\* A gate takes a new status that is no override; a gate that blocks the version in hand
\* goes on blocking it, and a finalised stage is not blocked.
Gates(s) ==
    /\ \A t \in STAGE_ORDER : SameText(t) /\ SameSource(t) /\ stage'[t].status = stage[t].status
    /\ \A t \in STAGE_ORDER : t # s => SameGate(t)
    /\ stage'[s].gate = "overridden" => SameGate(s)
    /\ GateIs(s, "blocked") => GateIs(s, "blocked")'
    /\ \/ unresolved' = unresolved
       \/ /\ unresolved' = unresolved \cup {<<s, stage[s].version>>}
          /\ GateIs(s, "blocked")' /\ ~Finalised(s)
    /\ accepted' = accepted

\* The owner accepts the blocked version.
Overrides(s) ==
    /\ \A t \in STAGE_ORDER : SameText(t) /\ SameSource(t) /\ stage'[t].status = stage[t].status
    /\ \A t \in STAGE_ORDER : t # s => SameGate(t)
    /\ ~Finalised(s)
    /\ stage'[s].gateVersion = stage[s].version
    /\ accepted' = accepted \cup {<<s, stage[s].version>>}
    /\ unresolved' = unresolved \ {<<s, stage[s].version>>}

\* A rollback to the current version.
Unlocks(s) ==
    /\ unlocks' = unlocks + 1
    /\ \A t \in STAGE_ORDER : SameText(t)
    /\ \A t \in STAGE_ORDER : t # s => Keeps(t) /\ stage'[t].status = stage[t].status
    /\ ~Finalised(s)'
    /\ SameGate(s) \/ stage'[s].gate = "clear"
    /\ NoNote

\* The sweep writes the verdicts it has read.
Sweeps ==
    /\ sweep # {}
    /\ \A t \in STAGE_ORDER : SameText(t) /\ SameSource(t) /\ stage'[t].status = stage[t].status
    /\ \A t \in STAGE_ORDER : SameGate(t) \/ stage'[t].gate \in {"blocked", "advisory"}
    /\ accepted' = accepted

Kinds ==
    \/ Aside \/ Marks \/ Sweeps
    \/ \E s \in STAGE_ORDER :
         Finalises(s) \/ Grows(s) \/ Gates(s) \/ Overrides(s) \/ Unlocks(s)

-----------------------------------------------------------------------------
(* Steps that change statuses.                                             *)

\* One status changes, and not to finalised; no finalised stage is touched.
LEMMA OneStatus ==
    ASSUME Typed, NEW s \in STAGE_ORDER, ~Finalised(s),
           NEW status \in {"draft", "in_progress", "stale"},
           status = "in_progress" => CanGrow(s),
           stage' = [stage EXCEPT ![s].status = status], versions' = versions, NoNote,
           run' \in [STAGE_ORDER -> Snapshot],
           UNCHANGED <<inputs, jobs, hung, sweep, unlocks>>
    PROVE  Typed' /\ Marks
<1>1. stage \in [STAGE_ORDER -> StageRow]
  BY Shapes
<1>2. /\ stage' \in [STAGE_ORDER -> StageRow]
      /\ \A t \in STAGE_ORDER : t # s => stage'[t] = stage[t]
      /\ stage'[s].status = status
      /\ stage'[s].version = stage[s].version /\ stage'[s].source = stage[s].source
      /\ stage'[s].gate = stage[s].gate /\ stage'[s].gateVersion = stage[s].gateVersion
  BY <1>1 DEF StageRow
<1>3. \A t \in STAGE_ORDER : Keeps(t)
  BY <1>2 DEF Keeps, SameText, SameGate, SameSource
<1>4. Marks
  BY <1>2, <1>3 DEF Marks, Finalised
<1>5. \A t \in STAGE_ORDER : stage'[t].status = "in_progress" => stage'[t].version < MaxVersion
  BY <1>2, Shapes DEF CanGrow
<1>6. \A t \in STAGE_ORDER : Len(versions'[t]) = stage'[t].version
  BY <1>3, Shapes DEF Keeps, SameText
<1>7. Typed'
  BY <1>2, <1>5, <1>6, Shapes, RowsTyped DEF NoNote
<1> QED
  BY <1>4, <1>7

\* A generation starts.
LEMMA GenerateStep ==
    ASSUME StageGateAssumption, Typed, NEW s \in STAGE_ORDER, Generate(s)
    PROVE  Typed' /\ Marks
<1>1. [source |-> Identity(s), prev |-> stage[s].status] \in Snapshot
  BY IdentityIsSource DEF Typed, Generate, Snapshot
<1>2. run' \in [STAGE_ORDER -> Snapshot]
  BY <1>1, Shapes DEF Generate
<1> QED
  BY <1>2, OneStatus DEF Generate, NoNote, Finalised

\* A generation ends in nothing.
LEMMA InterruptedStep ==
    ASSUME StageGateAssumption, Typed, NEW s \in STAGE_ORDER, Interrupted(s)
    PROVE  Typed' /\ Marks
<1>1. run \in [STAGE_ORDER -> Snapshot] /\ run[s] \in Snapshot
  BY Shapes
<1>2. run[s].prev \in {"draft", "stale"} /\ NoRun \in Snapshot
  BY <1>1 DEF Snapshot, NoRun, Source
<1>3. run' \in [STAGE_ORDER -> Snapshot]
  BY <1>1, <1>2 DEF Interrupted
<1> QED
  BY <1>2, <1>3, OneStatus DEF Interrupted, NoNote, Finalised

\* The inputs change.
LEMMA InputsStep ==
    ASSUME StageGateAssumption, Typed,
           UpdateProblemStatement \/ UpdateTargetAgent \/ SaveAnswers
    PROVE  Typed' /\ Marks
<1>1. PICK marked \in SUBSET STAGE_ORDER :
        /\ ChangeInputs(marked)
        /\ \/ \A s \in STAGE_ORDER : Finalised(s) => s \notin marked
           \/ \A s \in STAGE_ORDER : stage[s].version > 0 /\ Finalised(s) => s \in marked
  BY DEF UpdateProblemStatement, UpdateTargetAgent, SaveAnswers, Finalised
<1>2. /\ stage \in [STAGE_ORDER -> StageRow]
      /\ inputs \in 0..MaxInputs /\ inputs < MaxInputs
  BY <1>1, Shapes DEF ChangeInputs
<1>3. \A s \in STAGE_ORDER :
        stage'[s] = IF s \in marked THEN [stage[s] EXCEPT !.status = "stale"] ELSE stage[s]
  BY <1>1 DEF ChangeInputs
<1>4. ASSUME NEW s \in STAGE_ORDER
      PROVE  /\ stage'[s] \in StageRow
             /\ stage'[s].status = IF s \in marked THEN "stale" ELSE stage[s].status
             /\ stage'[s].version = stage[s].version /\ stage'[s].source = stage[s].source
             /\ stage'[s].gate = stage[s].gate
             /\ stage'[s].gateVersion = stage[s].gateVersion
  <2>1. stage[s] \in StageRow
    BY <1>2
  <2>2. CASE s \in marked
    BY <1>3, <2>1, <2>2 DEF StageRow
  <2>3. CASE s \notin marked
    BY <1>3, <2>1, <2>3
  <2> QED
    BY <2>2, <2>3
<1>5. stage' \in [STAGE_ORDER -> StageRow]
  BY <1>1, <1>4 DEF ChangeInputs
<1>6. \A t \in STAGE_ORDER : Keeps(t)
  BY <1>1, <1>4 DEF Keeps, SameText, SameGate, SameSource, ChangeInputs
<1>7. Marks
  BY <1>1, <1>4, <1>6 DEF Marks, Finalised, ChangeInputs, NoNote
<1>8. \A t \in STAGE_ORDER : stage'[t].status = "in_progress" => stage'[t].version < MaxVersion
  BY <1>4, Shapes
<1>9. \A t \in STAGE_ORDER : Len(versions'[t]) = stage'[t].version
  BY <1>6, Shapes DEF Keeps, SameText
<1>10. inputs' \in 0..MaxInputs
  BY <1>1, <1>2 DEF ChangeInputs, StageGateAssumption
<1>11. Typed'
  BY <1>1, <1>5, <1>8, <1>9, <1>10, Shapes, RowsTyped DEF ChangeInputs
<1> QED
  BY <1>7, <1>11

-----------------------------------------------------------------------------
(* Steps that write one row and keep its text.                             *)

\* Such a step keeps the types.
LEMMA OneRow ==
    ASSUME Typed, NEW s \in STAGE_ORDER, NEW row \in StageRow,
           row.version = stage[s].version, row.status # "in_progress" \/ row.status = stage[s].status,
           stage' = [stage EXCEPT ![s] = row], versions' = versions,
           hung' \subseteq STAGE_ORDER, jobs' \subseteq Job, unlocks' \in 0..MaxUnlocks,
           unresolved' \subseteq STAGE_ORDER \X Versions,
           accepted' \subseteq STAGE_ORDER \X Versions,
           UNCHANGED <<inputs, run, sweep>>
    PROVE  /\ Typed'
           /\ stage'[s] = row
           /\ \A t \in STAGE_ORDER : t # s => stage'[t] = stage[t]
           /\ \A t \in STAGE_ORDER : SameText(t)
           /\ \A t \in STAGE_ORDER : t # s => Keeps(t)
<1>1. stage \in [STAGE_ORDER -> StageRow]
  BY Shapes
<1>2. stage'[s] = row /\ \A t \in STAGE_ORDER : t # s => stage'[t] = stage[t]
  BY <1>1
<1>3. stage' \in [STAGE_ORDER -> StageRow]
  BY <1>1
<1>4. \A t \in STAGE_ORDER : SameText(t)
  BY <1>2 DEF SameText
<1>5. \A t \in STAGE_ORDER : t # s => Keeps(t)
  BY <1>2, <1>4 DEF Keeps, SameGate, SameSource
<1>6. \A t \in STAGE_ORDER : stage'[t].status = "in_progress" => stage'[t].version < MaxVersion
  BY <1>2, Shapes
<1>7. \A t \in STAGE_ORDER : Len(versions'[t]) = stage'[t].version
  BY <1>4, Shapes DEF SameText
<1>8. Typed'
  BY <1>3, <1>6, <1>7, Shapes, RowsTyped
<1> QED
  BY <1>2, <1>4, <1>5, <1>8

\* The text turns out not to be ready, and the gate blocks it.
LEMMA BlockStep ==
    ASSUME StageGateAssumption, Typed, NEW s \in STAGE_ORDER, Block(s), ~Finalised(s),
           UNCHANGED <<versions, inputs, run, jobs, hung, sweep, unlocks>>
    PROVE  Typed' /\ Gates(s)
<1> DEFINE row == [stage[s] EXCEPT !.gate = "blocked", !.gateVersion = stage[s].version]
<1>1. stage \in [STAGE_ORDER -> StageRow] /\ stage[s] \in StageRow
  BY Shapes
<1>2. /\ row \in StageRow
      /\ row.version = stage[s].version /\ row.status = stage[s].status
      /\ row.source = stage[s].source
      /\ row.gate = "blocked" /\ row.gateVersion = stage[s].version
  BY <1>1 DEF StageRow, GateStatus
<1>3. stage' = [stage EXCEPT ![s] = row]
  BY <1>1 DEF Block
<1> HIDE DEF row
<1>4. stage' \in [STAGE_ORDER -> StageRow] /\ NoteGate(s)
  BY <1>1, <1>2, <1>3 DEF Block
<1>5. /\ unresolved' \subseteq STAGE_ORDER \X Versions
      /\ accepted' \subseteq STAGE_ORDER \X Versions
  BY <1>4, NotesTyped
<1>6. /\ Typed'
      /\ stage'[s] = row
      /\ \A t \in STAGE_ORDER : SameText(t)
      /\ \A t \in STAGE_ORDER : t # s => Keeps(t)
      /\ \A t \in STAGE_ORDER : t # s => stage'[t] = stage[t]
  BY <1>2, <1>3, <1>5, Shapes, OneRow
<1>7. Gates(s)
  BY <1>2, <1>4, <1>6 DEF Gates, GateIs, SameSource, SameGate, Keeps, NoteGate
<1> QED
  BY <1>6, <1>7

\* A stage is finalised: the next one, if it was locked, may be drafted.
LEMMA FinalisedStep ==
    ASSUME StageGateAssumption, Typed, NEW s \in STAGE_ORDER,
           stage[s].status = "draft", Settled(s), Ready(s), DependenciesFinalised(s), ~SourceMoved(s),
           stage' = [t \in STAGE_ORDER |->
                CASE t = s -> [stage[t] EXCEPT !.status = "finalised"]
                  [] t = s + 1 /\ stage[t].status = "locked" ->
                       [stage[t] EXCEPT !.status = "draft"]
                  [] OTHER -> stage[t]],
           UNCHANGED <<unresolved, accepted, versions, inputs, run, jobs, hung, sweep, unlocks>>
    PROVE  Typed' /\ Finalises(s)
<1>1. stage \in [STAGE_ORDER -> StageRow]
  BY Shapes
<1>2. ASSUME NEW t \in STAGE_ORDER
      PROVE  /\ stage'[t] \in StageRow
             /\ stage'[t].version = stage[t].version /\ stage'[t].source = stage[t].source
             /\ stage'[t].gate = stage[t].gate
             /\ stage'[t].gateVersion = stage[t].gateVersion
             /\ t = s => stage'[t].status = "finalised"
             /\ t # s => \/ stage'[t].status = stage[t].status
                         \/ stage[t].status = "locked" /\ stage'[t].status = "draft"
  <2>1. stage[t] \in StageRow
    BY <1>1
  <2>2. CASE t = s
    <3>1. stage'[t] = [stage[t] EXCEPT !.status = "finalised"]
      BY <2>2
    <3> QED
      BY <2>1, <2>2, <3>1 DEF StageRow
  <2>3. CASE t # s /\ t = s + 1 /\ stage[t].status = "locked"
    <3>1. stage'[t] = [stage[t] EXCEPT !.status = "draft"]
      BY <2>3
    <3> QED
      BY <2>1, <2>3, <3>1 DEF StageRow
  <2>4. CASE t # s /\ ~(t = s + 1 /\ stage[t].status = "locked")
    <3>1. stage'[t] = stage[t] /\ t # s
      BY <2>4
    <3> QED
      BY <2>1, <3>1
  <2> QED
    BY <2>2, <2>3, <2>4
<1>3. stage' \in [STAGE_ORDER -> StageRow]
  <2>1. DOMAIN stage' = STAGE_ORDER /\ stage' = [t \in STAGE_ORDER |-> stage'[t]]
    OBVIOUS
  <2> QED
    BY <1>2, <2>1
<1>4. \A t \in STAGE_ORDER : SameText(t) /\ SameGate(t) /\ SameSource(t)
  BY <1>2 DEF SameText, SameGate, SameSource
<1>5. \A t \in STAGE_ORDER : stage'[t].status = "in_progress" => stage'[t].version < MaxVersion
  BY <1>2, Shapes
<1>6. \A t \in STAGE_ORDER : Len(versions'[t]) = stage'[t].version
  BY <1>4, Shapes DEF SameText
<1>7. Typed'
  BY <1>3, <1>5, <1>6, Shapes, RowsTyped
<1>8. Finalised(s)' /\ ~Finalised(s)
  BY <1>2 DEF Finalised
<1>9. stage'[s].source \in {NoSource, Identity(s)}
  BY <1>2 DEF SourceMoved
<1>10. \A t \in STAGE_ORDER : t # s => (Finalised(t)' <=> Finalised(t))
  BY <1>2 DEF Finalised
<1>11. Finalises(s)
  BY <1>4, <1>8, <1>9, <1>10 DEF Finalises, NoNote
<1> QED
  BY <1>7, <1>11

\* finalise: stale, blocked or finalised.
LEMMA FinaliseStep ==
    ASSUME StageGateAssumption, Typed, NEW s \in STAGE_ORDER, Finalise(s)
    PROVE  Typed' /\ (Marks \/ Gates(s) \/ Finalises(s))
<1>1. stage[s].status = "draft" /\ ~Finalised(s)
      /\ UNCHANGED <<versions, inputs, run, jobs, hung, sweep, unlocks>>
  BY DEF Finalise, Finalised
<1>2. CASE stage' = [stage EXCEPT ![s].status = "stale"] /\ UNCHANGED <<unresolved, accepted>>
  BY <1>1, <1>2, OneStatus, Shapes DEF NoNote
<1>3. CASE Block(s)
  BY <1>1, <1>3, BlockStep
<1>4. CASE ~SourceMoved(s) /\ Ready(s) /\ UNCHANGED <<unresolved, accepted>>
           /\ stage' = [t \in STAGE_ORDER |->
                CASE t = s -> [stage[t] EXCEPT !.status = "finalised"]
                  [] t = s + 1 /\ stage[t].status = "locked" ->
                       [stage[t] EXCEPT !.status = "draft"]
                  [] OTHER -> stage[t]]
  BY <1>1, <1>4, FinalisedStep DEF Finalise
<1> QED
  BY <1>2, <1>3, <1>4 DEF Finalise

\* acknowledge_stale: blocked or finalised against the current identity.
LEMMA AcknowledgeStep ==
    ASSUME StageGateAssumption, Typed, NEW s \in STAGE_ORDER, AcknowledgeStale(s)
    PROVE  Typed' /\ (Gates(s) \/ Finalises(s))
<1>1. stage[s].status = "stale" /\ ~Finalised(s)
      /\ UNCHANGED <<versions, inputs, run, jobs, hung, sweep, unlocks>>
  BY DEF AcknowledgeStale, Finalised
<1>2. CASE Block(s)
  BY <1>1, <1>2, BlockStep
<1>3. CASE ~Block(s)
  <2> DEFINE row == [stage[s] EXCEPT !.status = "finalised", !.source = Identity(s)]
  <2>1. stage \in [STAGE_ORDER -> StageRow] /\ stage[s] \in StageRow /\ Identity(s) \in Source
    BY Shapes, IdentityIsSource DEF Typed
  <2>2. /\ row \in StageRow
        /\ row.version = stage[s].version /\ row.status = "finalised"
        /\ row.source = Identity(s)
        /\ row.gate = stage[s].gate /\ row.gateVersion = stage[s].gateVersion
    BY <2>1 DEF StageRow
  <2>3. stage' = [stage EXCEPT ![s] = row] /\ UNCHANGED <<unresolved, accepted>>
    BY <1>3, <2>1 DEF AcknowledgeStale
  <2> HIDE DEF row
  <2>4. /\ Typed'
        /\ stage'[s] = row
        /\ \A t \in STAGE_ORDER : SameText(t)
        /\ \A t \in STAGE_ORDER : t # s => Keeps(t)
        /\ \A t \in STAGE_ORDER : t # s => stage'[t] = stage[t]
    BY <1>1, <2>2, <2>3, Shapes, OneRow
  <2>5. Settled(s) /\ Ready(s) /\ DependenciesFinalised(s)
    BY <1>3 DEF AcknowledgeStale
  <2>6. Finalises(s)
    BY <1>1, <2>2, <2>3, <2>4, <2>5 DEF Finalises, Finalised, SameGate, SameSource, Keeps, NoNote
  <2> QED
    BY <2>4, <2>6
<1> QED
  BY <1>2, <1>3

\* The owner overrides the gate.
LEMMA OverrideStep ==
    ASSUME StageGateAssumption, Typed, NEW s \in STAGE_ORDER, OverrideQualityGate(s)
    PROVE  Typed' /\ Overrides(s)
<1> DEFINE row == [stage[s] EXCEPT !.gate = "overridden"]
<1>1. stage \in [STAGE_ORDER -> StageRow] /\ stage[s] \in StageRow
  BY Shapes
<1>2. /\ row \in StageRow
      /\ row.version = stage[s].version /\ row.status = stage[s].status
      /\ row.source = stage[s].source
      /\ row.gateVersion = stage[s].gateVersion
  BY <1>1 DEF StageRow, GateStatus
<1>3. stage' = [stage EXCEPT ![s] = row]
  BY <1>1 DEF OverrideQualityGate
<1> HIDE DEF row
<1>4. <<s, stage[s].version>> \in STAGE_ORDER \X Versions
  BY <1>1 DEF StageRow
<1>5. /\ unresolved' \subseteq STAGE_ORDER \X Versions
      /\ accepted' \subseteq STAGE_ORDER \X Versions
  BY <1>4, Shapes DEF OverrideQualityGate
<1>6. /\ Typed'
      /\ stage'[s] = row
      /\ \A t \in STAGE_ORDER : SameText(t)
      /\ \A t \in STAGE_ORDER : t # s => Keeps(t)
      /\ \A t \in STAGE_ORDER : t # s => stage'[t] = stage[t]
  BY <1>2, <1>3, <1>5, Shapes, OneRow DEF OverrideQualityGate
<1>7. Overrides(s)
  BY <1>2, <1>6 DEF Overrides, OverrideQualityGate, GateIs, Finalised, SameGate, SameSource, Keeps
<1> QED
  BY <1>6, <1>7

\* A rollback to the current version.
LEMMA UnlockStep ==
    ASSUME StageGateAssumption, Typed, NEW s \in STAGE_ORDER, Unlock(s)
    PROVE  Typed' /\ Unlocks(s)
<1> DEFINE src == versions[s][stage[s].version].source
           free == [stage[s] EXCEPT !.status = "draft", !.source = src]
           row == IF GateIs(s, "advisory") THEN free ELSE Clear(free)
<1>1. /\ stage \in [STAGE_ORDER -> StageRow] /\ stage[s] \in StageRow
      /\ versions[s] \in Seq(Text) /\ Len(versions[s]) = stage[s].version
      /\ unlocks \in 0..MaxUnlocks
  BY Shapes
<1>2. src \in Source
  <2>1. stage[s].version \in 1..Len(versions[s])
    BY <1>1 DEF StageRow, Versions, Unlock
  <2>2. versions[s][stage[s].version] \in Text
    BY <1>1, <2>1
  <2> QED
    BY <2>2 DEF Text
<1>3. stage' = [stage EXCEPT ![s] = row]
  BY DEF Unlock
<1> HIDE DEF src
<1>4. /\ free \in StageRow
      /\ free.version = stage[s].version /\ free.status = "draft"
      /\ free.gate = stage[s].gate /\ free.gateVersion = stage[s].gateVersion
  BY <1>1, <1>2 DEF StageRow
<1> HIDE DEF free
<1>5. /\ row \in StageRow
      /\ row.version = stage[s].version /\ row.status = "draft"
      /\ \/ row.gate = "clear"
         \/ row.gate = stage[s].gate /\ row.gateVersion = stage[s].gateVersion
  <2>1. /\ Clear(free) \in StageRow
        /\ Clear(free).version = stage[s].version /\ Clear(free).status = "draft"
        /\ Clear(free).gate = "clear"
    <3>1. 0 \in Versions /\ "clear" \in GateStatus
      BY DEF Versions, StageGateAssumption, GateStatus
    <3>2. Clear(free) = [free EXCEPT !.gate = "clear", !.gateVersion = 0]
      BY DEF Clear
    <3> QED
      BY <1>4, <3>1, <3>2 DEF StageRow
  <2> QED
    BY <1>4, <2>1
<1> HIDE DEF row
<1>6. unlocks' \in 0..MaxUnlocks /\ unlocks < MaxUnlocks
  BY <1>1 DEF Unlock, StageGateAssumption
<1>7. /\ Typed'
      /\ stage'[s] = row
      /\ \A t \in STAGE_ORDER : SameText(t)
      /\ \A t \in STAGE_ORDER : t # s => Keeps(t)
      /\ \A t \in STAGE_ORDER : t # s => stage'[t] = stage[t]
  BY <1>3, <1>5, <1>6, Shapes, OneRow DEF Unlock
<1>8. Unlocks(s)
  BY <1>5, <1>6, <1>7 DEF Unlocks, Unlock, Finalised, SameGate, NoNote
<1> QED
  BY <1>7, <1>8

-----------------------------------------------------------------------------
(* Steps that record a new version.                                        *)

\* What every such step has in common.
LEMMA GrowStep ==
    ASSUME StageGateAssumption, Typed, NEW s \in STAGE_ORDER, CanGrow(s),
           stage' \in [STAGE_ORDER -> StageRow],
           stage'[s].version = stage[s].version + 1,
           stage'[s].status \in {"draft", "stale"},
           stage'[s].gate \in {"blocked", "checking"},
           stage'[s].gateVersion = stage'[s].version,
           \A t \in STAGE_ORDER : t # s =>
               /\ stage'[t].version = stage[t].version /\ SameGate(t) /\ SameSource(t)
               /\ stage'[t].status \in {stage[t].status, "stale"},
           \A t \in STAGE_ORDER : t < s /\ Finalised(t) => Finalised(t)',
           Finalised(s) => \A t \in STAGE_ORDER : t > s /\ stage[t].version > 0 => ~Finalised(t)',
           NEW q \in AllQuality, NEW src \in Source, Record(s, q, src),
           NoteGate(s), jobs' \subseteq Job, hung' \subseteq STAGE_ORDER,
           run' \in [STAGE_ORDER -> Snapshot], UNCHANGED <<inputs, sweep, unlocks>>
    PROVE  Typed' /\ Grows(s)
<1>1. /\ versions' \in [STAGE_ORDER -> Seq(Text)]
      /\ \A t \in STAGE_ORDER : Len(versions'[t]) = stage'[t].version
      /\ \A t \in STAGE_ORDER : t # s => versions'[t] = versions[t]
  BY RecordTyped
<1>2. /\ unresolved' \subseteq STAGE_ORDER \X Versions
      /\ accepted' \subseteq STAGE_ORDER \X Versions
  BY NotesTyped
<1>3. \A t \in STAGE_ORDER : stage'[t].status = "in_progress" => stage'[t].version < MaxVersion
  BY Shapes
<1>4. Typed'
  BY <1>1, <1>2, <1>3, Shapes, RowsTyped
<1>5. Grows(s)
  BY <1>1 DEF Grows, Keeps, SameText, Finalised
<1> QED
  BY <1>4, <1>5

\* A generation is published, or published as blocked.
LEMMA PublishStep ==
    ASSUME StageGateAssumption, Typed, NEW s \in STAGE_ORDER,
           PublishBlocked(s) \/ \E q \in Quality : Publish(s, q)
    PROVE  Typed' /\ Grows(s)
<1>1. /\ stage \in [STAGE_ORDER -> StageRow] /\ stage[s] \in StageRow
      /\ run \in [STAGE_ORDER -> Snapshot] /\ hung \subseteq STAGE_ORDER /\ jobs \subseteq Job
      /\ stage[s].status = "in_progress" /\ stage[s].version < MaxVersion
  BY Shapes DEF PublishBlocked, Publish
<1>2. CanGrow(s) /\ ~Finalised(s)
  BY <1>1 DEF CanGrow, Finalised
<1>3. run[s].source \in Source
  BY <1>1 DEF Snapshot
<1> DEFINE new == NewVersion(s, run[s].source, "draft")
<1>4. new \in StageRow /\ new.version = stage[s].version + 1 /\ new.status = "draft"
  BY <1>2, <1>3, GrownRow
<1> HIDE DEF new
<1>5. ASSUME NEW row \in StageRow, row.version = new.version, row.status = new.status,
             row.gate \in {"blocked", "checking"}, row.gateVersion = row.version,
             stage' = [stage EXCEPT ![s] = row]
      PROVE  /\ stage' \in [STAGE_ORDER -> StageRow]
             /\ stage'[s] = row
             /\ \A t \in STAGE_ORDER : t # s => stage'[t] = stage[t]
  BY <1>1, <1>5
<1>6. ASSUME NEW row \in StageRow, row.version = new.version, row.status = new.status,
             row.gate \in {"blocked", "checking"}, row.gateVersion = row.version,
             stage' = [stage EXCEPT ![s] = row],
             NEW q \in AllQuality, Record(s, q, run[s].source), NoteGate(s),
             jobs' \subseteq Job, hung' = hung \ {s}, run' = [run EXCEPT ![s] = NoRun],
             UNCHANGED <<inputs, sweep, unlocks>>
      PROVE  Typed' /\ Grows(s)
  <2>1. /\ stage' \in [STAGE_ORDER -> StageRow]
        /\ stage'[s] = row
        /\ \A t \in STAGE_ORDER : t # s => stage'[t] = stage[t]
    BY <1>5, <1>6
  <2>2. run' \in [STAGE_ORDER -> Snapshot]
    <3>1. NoRun \in Snapshot
      BY DEF NoRun, Snapshot, Source
    <3> QED
      BY <1>1, <1>6, <3>1
  <2>3. \A t \in STAGE_ORDER : t # s =>
               /\ stage'[t].version = stage[t].version /\ SameGate(t) /\ SameSource(t)
               /\ stage'[t].status \in {stage[t].status, "stale"}
    BY <2>1 DEF SameGate, SameSource
  <2>4. \A t \in STAGE_ORDER : t < s /\ Finalised(t) => Finalised(t)'
    BY <1>2, <2>1 DEF Finalised
  <2>5. hung' \subseteq STAGE_ORDER
    BY <1>1, <1>6
  <2> QED
    BY <1>2, <1>3, <1>4, <1>6, <2>1, <2>2, <2>3, <2>4, <2>5, GrowStep
<1>7. CASE PublishBlocked(s)
  <2> DEFINE row == [new EXCEPT !.gate = "blocked", !.gateVersion = new.version]
  <2>1. /\ row \in StageRow /\ row.version = new.version /\ row.status = new.status
        /\ row.gate = "blocked" /\ row.gateVersion = row.version
    BY <1>4 DEF StageRow, GateStatus
  <2>2. stage' = [stage EXCEPT ![s] = row]
    BY <1>7 DEF PublishBlocked, new
  <2> HIDE DEF row
  <2>3. "incomplete" \in AllQuality
    BY DEF AllQuality
  <2> QED
    BY <1>1, <1>6, <1>7, <2>1, <2>2, <2>3 DEF PublishBlocked
<1>8. ASSUME NEW q \in Quality, Publish(s, q)
      PROVE  Typed' /\ Grows(s)
  <2> DEFINE row == Checking(new, q)
  <2>1. /\ row \in StageRow /\ row.version = new.version /\ row.status = new.status
        /\ row.gate \in {"blocked", "checking"} /\ row.gateVersion = row.version
    BY <1>4, CheckedRow
  <2>2. stage' = [stage EXCEPT ![s] = row]
    BY <1>8 DEF Publish, new
  <2> HIDE DEF row
  <2>3. q \in AllQuality
    BY DEF StageGateAssumption
  <2>4. jobs' \subseteq Job
    BY <1>2, <1>8, ScheduleTyped DEF Publish
  <2> QED
    BY <1>6, <1>8, <2>1, <2>2, <2>3, <2>4 DEF Publish
<1> QED
  BY <1>7, <1>8

\* An edit or a rollback: the head is replaced, and what was built on it becomes stale.
LEMMA RewriteStep ==
    ASSUME StageGateAssumption, Typed, NEW s \in STAGE_ORDER,
           stage[s].status # "in_progress", CanGrow(s),
           NEW q \in AllQuality, NEW src \in Source, NEW status \in {"draft", "stale"},
           LET row == Checking(NewVersion(s, src, status), q)
               st == [stage EXCEPT ![s] = row]
           IN  \/ stage' = MarkDownstreamStale(st, s)
               \/ ~Finalised(s) /\ stage' = st,
           Record(s, q, src), Schedule(s, {"technology"}), hung' = hung \ {s}, NoteGate(s),
           UNCHANGED <<inputs, run, sweep, unlocks>>
    PROVE  Typed' /\ Grows(s)
<1> DEFINE row == Checking(NewVersion(s, src, status), q)
           st == [stage EXCEPT ![s] = row]
<1>1. stage \in [STAGE_ORDER -> StageRow] /\ stage[s] \in StageRow
  BY Shapes
<1>2. /\ row \in StageRow
      /\ row.version = stage[s].version + 1
      /\ row.status \in {"draft", "stale"}
      /\ row.gate \in {"blocked", "checking"}
      /\ row.gateVersion = row.version
  BY GrownRow, CheckedRow
<1>3. stage' = MarkDownstreamStale(st, s) \/ (~Finalised(s) /\ stage' = st)
  OBVIOUS
<1> HIDE DEF row
<1>4. /\ st \in [STAGE_ORDER -> StageRow] /\ st[s] = row
      /\ \A t \in STAGE_ORDER : t # s => st[t] = stage[t]
  BY <1>1, <1>2
<1> HIDE DEF st
<1>5. /\ stage' \in [STAGE_ORDER -> StageRow]
      /\ stage'[s] = row
      /\ \A t \in STAGE_ORDER :
           /\ stage'[t].version = st[t].version
           /\ stage'[t].source = st[t].source
           /\ stage'[t].gate = st[t].gate
           /\ stage'[t].gateVersion = st[t].gateVersion
           /\ stage'[t].status \in {st[t].status, "stale"}
           /\ t < s => stage'[t] = st[t]
      /\ Finalised(s) => \A t \in STAGE_ORDER : t > s /\ st[t].version > 0 => stage'[t].status # "finalised"
  <2>1. \A t \in STAGE_ORDER : t < s => t # s /\ ~(t > s)
    BY DEF STAGE_ORDER, StageGateAssumption
  <2>2. CASE stage' = MarkDownstreamStale(st, s)
    <3>1. ~(s > s)
      BY DEF STAGE_ORDER, StageGateAssumption
    <3> QED
      BY <1>4, <2>1, <2>2, <3>1, MarkedRows
  <2>3. CASE ~Finalised(s) /\ stage' = st
    BY <1>4, <2>3
  <2> QED
    BY <1>3, <2>2, <2>3
<1>6. \A t \in STAGE_ORDER : t # s =>
        /\ stage'[t].version = stage[t].version /\ SameGate(t) /\ SameSource(t)
        /\ stage'[t].status \in {stage[t].status, "stale"}
  BY <1>4, <1>5 DEF SameGate, SameSource
<1>7. \A t \in STAGE_ORDER : t < s => t # s
  BY DEF STAGE_ORDER, StageGateAssumption
<1>8. \A t \in STAGE_ORDER : t < s /\ Finalised(t) => Finalised(t)'
  BY <1>4, <1>5, <1>7 DEF Finalised
<1>9. Finalised(s) => \A t \in STAGE_ORDER : t > s /\ stage[t].version > 0 => ~Finalised(t)'
  <2>1. \A t \in STAGE_ORDER : t > s => t # s
    BY DEF STAGE_ORDER, StageGateAssumption
  <2> QED
    BY <1>4, <1>5, <2>1 DEF Finalised
<1>10. jobs' \subseteq Job
  BY ScheduleTyped
<1>11. hung' \subseteq STAGE_ORDER /\ run' \in [STAGE_ORDER -> Snapshot]
  BY Shapes
<1> QED
  BY <1>2, <1>5, <1>6, <1>8, <1>9, <1>10, <1>11, GrowStep

\* handle_content_edit.
LEMMA EditStep ==
    ASSUME StageGateAssumption, Typed, NEW s \in STAGE_ORDER, NEW q \in Quality, Edit(s, q)
    PROVE  Typed' /\ Grows(s)
<1>1. q \in AllQuality /\ stage[s].source \in Source
  BY Shapes DEF StageGateAssumption, StageRow
<1> DEFINE status == IF stage[s].status = "finalised" THEN "stale" ELSE "draft"
<1>2. status \in {"draft", "stale"}
  OBVIOUS
<1>3. LET row == Checking(NewVersion(s, stage[s].source, status), q)
          st == [stage EXCEPT ![s] = row]
      IN  \/ stage' = MarkDownstreamStale(st, s)
          \/ ~Finalised(s) /\ stage' = st
  BY DEF Edit, Finalised
<1> HIDE DEF status
<1> QED
  BY <1>1, <1>2, <1>3, RewriteStep DEF Edit

\* A rollback to an earlier version.
LEMMA RollbackStep ==
    ASSUME StageGateAssumption, Typed, NEW s \in STAGE_ORDER, NEW v \in Versions, Rollback(s, v)
    PROVE  Typed' /\ Grows(s)
<1> DEFINE old == versions[s][v]
<1>1. old \in Text
  <2>1. /\ versions[s] \in Seq(Text) /\ Len(versions[s]) = stage[s].version
        /\ stage[s] \in StageRow
    BY Shapes
  <2>2. v \in 1..Len(versions[s])
    BY <2>1 DEF Rollback, StageRow, Versions, StageGateAssumption
  <2> QED
    BY <2>1, <2>2
<1>2. old.quality \in AllQuality /\ old.source \in Source
  BY <1>1 DEF Text
<1>3. LET row == Checking(NewVersion(s, old.source, "draft"), old.quality)
          st == [stage EXCEPT ![s] = row]
      IN  stage' = MarkDownstreamStale(st, s)
  BY DEF Rollback
<1>4. Record(s, old.quality, old.source)
  BY DEF Rollback
<1> HIDE DEF old
<1> QED
  BY <1>2, <1>3, <1>4, RewriteStep DEF Rollback

-----------------------------------------------------------------------------
(* Steps of the background.                                                *)

\* A result is merged into one row: its gate changes, if anything.
LEMMA MergedRow ==
    ASSUME StageGateAssumption, Typed, NEW s \in STAGE_ORDER,
           NEW outcomes \in SUBSET {"clear", "checking", "blocked", "advisory"},
           Merge(s, outcomes)
    PROVE  \E row \in StageRow :
               /\ stage' = [stage EXCEPT ![s] = row]
               /\ row.version = stage[s].version /\ row.status = stage[s].status
               /\ row.source = stage[s].source
               /\ row.gate = "overridden" =>
                      row.gate = stage[s].gate /\ row.gateVersion = stage[s].gateVersion
               /\ GateIs(s, "blocked") =>
                      row.gate = "blocked" /\ row.gateVersion = stage[s].version
<1>1. stage \in [STAGE_ORDER -> StageRow] /\ stage[s] \in StageRow
  BY Shapes
<1>2. CASE stage[s].gate \in {"blocked", "overridden"}
  <2>1. stage' = [stage EXCEPT ![s] = stage[s]]
    BY <1>1, <1>2 DEF Merge
  <2> QED
    BY <1>1, <2>1 DEF GateIs
<1>3. CASE stage[s].gate \notin {"blocked", "overridden"}
  <2>1. PICK g \in outcomes :
          stage' = [stage EXCEPT ![s].gate = g,
                                 ![s].gateVersion = IF g = "clear" THEN 0 ELSE stage[s].version]
    BY <1>3 DEF Merge
  <2> DEFINE number == IF g = "clear" THEN 0 ELSE stage[s].version
             row == [stage[s] EXCEPT !.gate = g, !.gateVersion = number]
  <2>2. number \in Versions /\ g \in GateStatus /\ g # "overridden"
    BY <1>1 DEF StageRow, Versions, StageGateAssumption, GateStatus
  <2>3. stage' = [stage EXCEPT ![s] = row]
    BY <1>1, <2>1
  <2> HIDE DEF number
  <2>4. /\ row \in StageRow
        /\ row.version = stage[s].version /\ row.status = stage[s].status
        /\ row.source = stage[s].source
        /\ row.gate = g
    BY <1>1, <2>2 DEF StageRow
  <2> HIDE DEF row
  <2>5. ~GateIs(s, "blocked")
    BY <1>3 DEF GateIs
  <2> QED
    BY <2>2, <2>3, <2>4, <2>5
<1> QED
  BY <1>2, <1>3

\* Such a step, whatever becomes of the check and its hanging.
LEMMA MergeStep ==
    ASSUME StageGateAssumption, Typed, NEW s \in STAGE_ORDER,
           NEW outcomes \in SUBSET {"clear", "checking", "blocked", "advisory"},
           Merge(s, outcomes),
           \/ NoteGate(s) /\ ~Finalised(s)
           \/ UNCHANGED <<unresolved, accepted>>,
           jobs' \subseteq Job, hung' \subseteq STAGE_ORDER,
           UNCHANGED <<versions, inputs, run, sweep, unlocks>>
    PROVE  Typed' /\ Gates(s)
<1>1. PICK row \in StageRow :
        /\ stage' = [stage EXCEPT ![s] = row]
        /\ row.version = stage[s].version /\ row.status = stage[s].status
        /\ row.source = stage[s].source
        /\ row.gate = "overridden" =>
               row.gate = stage[s].gate /\ row.gateVersion = stage[s].gateVersion
        /\ GateIs(s, "blocked") =>
               row.gate = "blocked" /\ row.gateVersion = stage[s].version
  BY MergedRow
<1>2. stage \in [STAGE_ORDER -> StageRow]
  BY Shapes
<1>3. stage' \in [STAGE_ORDER -> StageRow]
  BY <1>1, <1>2
<1>4. /\ unresolved' \subseteq STAGE_ORDER \X Versions
      /\ accepted' \subseteq STAGE_ORDER \X Versions
  BY <1>3, NotesTyped, Shapes
<1>5. /\ Typed'
      /\ stage'[s] = row
      /\ \A t \in STAGE_ORDER : SameText(t)
      /\ \A t \in STAGE_ORDER : t # s => Keeps(t)
      /\ \A t \in STAGE_ORDER : t # s => stage'[t] = stage[t]
  BY <1>1, <1>4, Shapes, OneRow
<1>6. GateIs(s, "blocked") => GateIs(s, "blocked")'
  BY <1>1, <1>5 DEF GateIs
<1>7. \/ unresolved' = unresolved
      \/ /\ unresolved' = unresolved \cup {<<s, stage[s].version>>}
         /\ GateIs(s, "blocked")' /\ ~Finalised(s)
  BY <1>1, <1>5 DEF NoteGate, GateIs
<1>8. accepted' = accepted
  BY DEF NoteGate
<1>9. Gates(s)
  BY <1>1, <1>5, <1>6, <1>7, <1>8 DEF Gates, SameGate, SameSource, Keeps
<1> QED
  BY <1>5, <1>9

\* A step that leaves the stages and the ghosts alone.
LEMMA AsideStep ==
    ASSUME Typed, Aside, jobs' \subseteq Job, hung' \subseteq STAGE_ORDER,
           sweep' \subseteq STAGE_ORDER \X {"blocked", "advisory"},
           UNCHANGED <<inputs, run, unlocks>>
    PROVE  Typed'
BY Shapes, RowsTyped DEF Aside, NoNote

\* The technology check has a result, or refuses to write it.
LEMMA TechnologyStep ==
    ASSUME StageGateAssumption, Typed, NEW j \in jobs, NEW answered \in BOOLEAN,
           TechnologyResult(j, answered)
    PROVE  Typed' /\ (Aside \/ \E s \in STAGE_ORDER : Gates(s))
<1>1. j \in Job /\ j.stage \in STAGE_ORDER /\ jobs' \subseteq Job /\ hung \subseteq STAGE_ORDER
  BY Shapes DEF Job, TechnologyResult, Done
<1>2. UNCHANGED <<versions, inputs, run, sweep, unlocks>>
  BY DEF TechnologyResult, Done
<1> DEFINE s == j.stage
<1>3. CASE Concerns(j) /\ stage[s].status = "draft"
  <2> DEFINE outcomes == Outcomes(versions[s][j.version].quality, answered)
  <2>1. outcomes \in SUBSET {"clear", "checking", "blocked", "advisory"}
    BY DEF Outcomes
  <2>2. Merge(s, outcomes) /\ NoteGate(s) /\ ~Finalised(s) /\ hung' \subseteq STAGE_ORDER
    BY <1>1, <1>3 DEF TechnologyResult, Finalised
  <2> HIDE DEF outcomes
  <2> QED
    BY <1>1, <1>2, <2>1, <2>2, MergeStep
<1>4. CASE ~(Concerns(j) /\ stage[s].status = "draft")
  BY <1>1, <1>2, <1>4, AsideStep, Shapes DEF TechnologyResult, Aside, NoNote
<1> QED
  BY <1>3, <1>4

\* The critic has a result, or refuses to write it.
LEMMA CriticStep ==
    ASSUME StageGateAssumption, Typed, NEW j \in jobs, CriticResult(j)
    PROVE  Typed' /\ (Aside \/ \E s \in STAGE_ORDER : Gates(s))
<1>1. /\ j \in Job /\ j.stage \in STAGE_ORDER /\ jobs' \subseteq Job
      /\ hung' \subseteq STAGE_ORDER
  BY Shapes DEF Job, CriticResult, Done
<1>2. UNCHANGED <<versions, inputs, run, sweep, unlocks, unresolved, accepted>>
  BY DEF CriticResult, Done
<1> DEFINE s == j.stage
           outcomes == {IF stage[s].gate = "checking" THEN "checking" ELSE "advisory"}
<1>3. CASE Merge(s, outcomes)
  <2>1. outcomes \in SUBSET {"clear", "checking", "blocked", "advisory"}
    OBVIOUS
  <2> HIDE DEF outcomes
  <2> QED
    BY <1>1, <1>2, <1>3, <2>1, MergeStep
<1>4. CASE stage' = stage
  BY <1>1, <1>2, <1>4, AsideStep, Shapes DEF Aside, NoNote
<1> QED
  BY <1>3, <1>4 DEF CriticResult

\* A check is lost or hangs, the sweep reads, or its write is rolled back.
LEMMA QuietStep ==
    ASSUME Typed,
           \/ \E j \in jobs : Lost(j)
           \/ \E s \in STAGE_ORDER : Hang(s)
           \/ SweepRead \/ SweepFails \/ UNCHANGED vars
    PROVE  Typed' /\ Aside
<1>1. jobs \subseteq Job /\ hung \subseteq STAGE_ORDER
      /\ sweep \subseteq STAGE_ORDER \X {"blocked", "advisory"}
  BY Shapes
<1>2. Aside
  BY DEF Aside, NoNote, Lost, Done, Hang, SweepRead, SweepFails, vars
<1>3. jobs' \subseteq Job /\ hung' \subseteq STAGE_ORDER /\ UNCHANGED <<inputs, run, unlocks>>
  BY <1>1 DEF Lost, Done, Hang, SweepRead, SweepFails, vars
<1>4. sweep' \subseteq STAGE_ORDER \X {"blocked", "advisory"}
  BY <1>1 DEF Lost, Done, Hang, SweepRead, SweepFails, vars
<1> QED
  BY <1>2, <1>3, <1>4, AsideStep

\* The sweep writes.
LEMMA SweepStep ==
    ASSUME Typed, SweepWrite
    PROVE  Typed' /\ Sweeps
<1>1. /\ stage \in [STAGE_ORDER -> StageRow] /\ hung \subseteq STAGE_ORDER
      /\ sweep \subseteq STAGE_ORDER \X {"blocked", "advisory"}
  BY Shapes
<1>2. ASSUME NEW s \in STAGE_ORDER
      PROVE  /\ stage'[s] \in StageRow
             /\ stage'[s].version = stage[s].version /\ stage'[s].source = stage[s].source
             /\ stage'[s].status = stage[s].status
             /\ SameGate(s) \/ stage'[s].gate \in {"blocked", "advisory"}
  <2>0. stage[s] \in StageRow
    BY <1>1
  <2>1. CASE SweepVerdict(s) = {}
    <3>1. stage'[s] = stage[s]
      BY <2>1 DEF SweepWrite
    <3> QED
      BY <2>0, <3>1 DEF SameGate
  <2>2. CASE SweepVerdict(s) # {}
    <3> DEFINE g == CHOOSE v \in SweepVerdict(s) : TRUE
    <3>1. g \in SweepVerdict(s)
      BY <2>2
    <3>2. SweepVerdict(s) \subseteq {"blocked", "advisory"}
      BY <1>1 DEF SweepVerdict
    <3>3. stage'[s] = [stage[s] EXCEPT !.gate = g]
      BY <2>2 DEF SweepWrite
    <3> HIDE DEF g
    <3> QED
      BY <2>0, <3>1, <3>2, <3>3 DEF StageRow, GateStatus
  <2> QED
    BY <2>1, <2>2
<1>3. stage' \in [STAGE_ORDER -> StageRow]
  <2>1. stage' = [s \in STAGE_ORDER |-> stage'[s]]
    BY DEF SweepWrite
  <2> QED
    BY <1>2, <2>1
<1>4. versions' = versions /\ accepted' = accepted /\ sweep # {}
      /\ sweep' = {} /\ hung' \subseteq hung /\ UNCHANGED <<inputs, run, jobs, unlocks>>
  BY DEF SweepWrite
<1>5. unresolved' \subseteq STAGE_ORDER \X Versions
  <2>1. \A s \in STAGE_ORDER : stage[s].version \in Versions
    BY <1>1 DEF StageRow
  <2> DEFINE told == {t \in STAGE_ORDER : /\ stage[t].gate # "blocked"
                                         /\ stage'[t].gate = "blocked"
                                         /\ stage[t].gateVersion = stage[t].version}
  <2>2. unresolved' = unresolved \cup {<<s, stage[s].version>> : s \in told}
    BY DEF SweepWrite
  <2>3. told \subseteq STAGE_ORDER
    OBVIOUS
  <2>4. unresolved \subseteq STAGE_ORDER \X Versions
    BY Shapes
  <2> HIDE DEF told
  <2> QED
    BY <2>1, <2>2, <2>3, <2>4
<1>6. \A t \in STAGE_ORDER : stage'[t].status = "in_progress" => stage'[t].version < MaxVersion
  BY <1>2, Shapes
<1>7. \A t \in STAGE_ORDER : Len(versions'[t]) = stage'[t].version
  BY <1>2, <1>4, Shapes
<1>8. Typed'
  BY <1>1, <1>3, <1>4, <1>5, <1>6, <1>7, Shapes, RowsTyped
<1>9. Sweeps
  BY <1>2, <1>4 DEF Sweeps, SameText, SameSource
<1> QED
  BY <1>8, <1>9

-----------------------------------------------------------------------------
(* Every step.                                                             *)

\* Types are kept, and every step is of one of the kinds.
LEMMA StepKinds ==
    ASSUME StageGateAssumption, Typed, [Next]_vars
    PROVE  Typed' /\ Kinds
<1>1. ASSUME NEW s \in STAGE_ORDER,
             \/ Generate(s) \/ Finalise(s) \/ AcknowledgeStale(s) \/ Unlock(s)
             \/ OverrideQualityGate(s)
             \/ \E q \in Quality : Edit(s, q)
             \/ \E v \in Versions : Rollback(s, v)
             \/ Interrupted(s) \/ PublishBlocked(s) \/ \E q \in Quality : Publish(s, q)
      PROVE  Typed' /\ Kinds
  <2>1. CASE Generate(s) \/ Interrupted(s)
    BY <2>1, GenerateStep, InterruptedStep DEF Kinds
  <2>2. CASE Finalise(s)
    BY <2>2, FinaliseStep DEF Kinds
  <2>3. CASE AcknowledgeStale(s)
    BY <2>3, AcknowledgeStep DEF Kinds
  <2>4. CASE Unlock(s)
    BY <2>4, UnlockStep DEF Kinds
  <2>5. CASE OverrideQualityGate(s)
    BY <2>5, OverrideStep DEF Kinds
  <2>6. CASE \E q \in Quality : Edit(s, q)
    BY <2>6, EditStep DEF Kinds
  <2>7. CASE \E v \in Versions : Rollback(s, v)
    BY <2>7, RollbackStep DEF Kinds
  <2>8. CASE PublishBlocked(s) \/ \E q \in Quality : Publish(s, q)
    BY <2>8, PublishStep DEF Kinds
  <2> QED
    BY <1>1, <2>1, <2>2, <2>3, <2>4, <2>5, <2>6, <2>7, <2>8
<1>2. CASE UpdateProblemStatement \/ UpdateTargetAgent \/ SaveAnswers
  BY <1>2, InputsStep DEF Kinds
<1>3. CASE \E j \in jobs : CriticResult(j)
  BY <1>3, CriticStep DEF Kinds
<1>4. CASE \E j \in jobs : \E answered \in BOOLEAN : TechnologyResult(j, answered)
  BY <1>4, TechnologyStep DEF Kinds
<1>5. CASE \/ \E j \in jobs : Lost(j)
           \/ \E s \in STAGE_ORDER : Hang(s)
           \/ SweepRead \/ SweepFails \/ UNCHANGED vars
  BY <1>5, QuietStep DEF Kinds
<1>6. CASE SweepWrite
  BY <1>6, SweepStep DEF Kinds
<1> QED
  BY <1>1, <1>2, <1>3, <1>4, <1>5, <1>6 DEF Next, Owner, Worker, Background

(***************************************************************************)
(* The rows keep their types, and every stage has exactly as many texts as *)
(* its current version number says (record_version numbers them).          *)
(***************************************************************************)
THEOREM StageTypes ==
    ASSUME StageGateAssumption
    PROVE  Spec => []TypeOK
<1>1. Init => Typed
  BY InitTyped
<1>2. Typed /\ [Next]_vars => Typed'
  BY StepKinds
<1>3. Typed => TypeOK
  BY DEF Typed
<1> QED
  BY <1>1, <1>2, <1>3, PTL DEF Spec

-----------------------------------------------------------------------------
(* A finalised text is ready, or its owner accepted it.                    *)

\* An overridden gate is the owner's acceptance of the version it names.
OverridesAccepted ==
    \A s \in STAGE_ORDER :
        stage[s].gate = "overridden" => <<s, stage[s].gateVersion>> \in accepted

FinalisedReady ==
    \A s \in STAGE_ORDER :
        Finalised(s) => \/ QualityOf(s) \notin {"incomplete", "local"}
                        \/ <<s, stage[s].version>> \in accepted

ReadyInv == OverridesAccepted /\ FinalisedReady

\* While a text stays, so does what there is to say of it.
LEMMA QualityStays ==
    ASSUME NEW s \in STAGE_ORDER, SameText(s)
    PROVE  QualityOf(s)' = QualityOf(s)
BY DEF SameText, QualityOf

\* Overrides are remembered.
LEMMA OverridesKept ==
    ASSUME Typed, Kinds, OverridesAccepted
    PROVE  OverridesAccepted' /\ accepted \subseteq accepted'
<1>1. CASE Aside
  BY <1>1 DEF Aside, NoNote, OverridesAccepted
<1>2. CASE Marks
  BY <1>2 DEF Marks, Keeps, SameGate, NoNote, OverridesAccepted
<1>3. CASE Sweeps
  <2>1. \A t \in STAGE_ORDER : stage'[t].gate = "overridden" => SameGate(t)
    BY <1>3 DEF Sweeps
  <2> QED
    BY <1>3, <2>1 DEF Sweeps, SameGate, OverridesAccepted
<1>4. ASSUME NEW s \in STAGE_ORDER, Finalises(s)
      PROVE  OverridesAccepted' /\ accepted \subseteq accepted'
  BY <1>4 DEF Finalises, SameGate, NoNote, OverridesAccepted
<1>5. ASSUME NEW s \in STAGE_ORDER, Grows(s)
      PROVE  OverridesAccepted' /\ accepted \subseteq accepted'
  <2>1. \A t \in STAGE_ORDER : stage'[t].gate = "overridden" => SameGate(t)
    BY <1>5 DEF Grows, Keeps
  <2> QED
    BY <1>5, <2>1 DEF Grows, SameGate, NoteGate, OverridesAccepted
<1>6. ASSUME NEW s \in STAGE_ORDER, Gates(s)
      PROVE  OverridesAccepted' /\ accepted \subseteq accepted'
  <2>1. \A t \in STAGE_ORDER : stage'[t].gate = "overridden" => SameGate(t)
    BY <1>6 DEF Gates
  <2> QED
    BY <1>6, <2>1 DEF Gates, SameGate, OverridesAccepted
<1>7. ASSUME NEW s \in STAGE_ORDER, Overrides(s)
      PROVE  OverridesAccepted' /\ accepted \subseteq accepted'
  BY <1>7 DEF Overrides, SameGate, OverridesAccepted
<1>8. ASSUME NEW s \in STAGE_ORDER, Unlocks(s)
      PROVE  OverridesAccepted' /\ accepted \subseteq accepted'
  <2>1. \A t \in STAGE_ORDER : stage'[t].gate = "overridden" => SameGate(t)
    BY <1>8 DEF Unlocks, Keeps
  <2> QED
    BY <1>8, <2>1 DEF Unlocks, SameGate, NoNote, OverridesAccepted
<1> QED
  BY <1>1, <1>2, <1>3, <1>4, <1>5, <1>6, <1>7, <1>8 DEF Kinds

\* A stage finalised after a step was finalised before it with the same text, or is the
\* one that the step finalises.
LEMMA FinalisedBefore ==
    ASSUME Kinds, NEW s \in STAGE_ORDER, Finalised(s)'
    PROVE  SameText(s) /\ (Finalised(s) \/ Finalises(s))
<1>1. CASE Aside \/ Marks \/ Sweeps
  BY <1>1 DEF Aside, Marks, Sweeps, Keeps, SameText, Finalised
<1>2. ASSUME NEW t \in STAGE_ORDER, Finalises(t)
      PROVE  SameText(s) /\ (Finalised(s) \/ Finalises(s))
  BY <1>2 DEF Finalises
<1>3. ASSUME NEW t \in STAGE_ORDER, Grows(t)
      PROVE  SameText(s) /\ Finalised(s)
  BY <1>3 DEF Grows, Keeps
<1>4. ASSUME NEW t \in STAGE_ORDER, Gates(t) \/ Overrides(t)
      PROVE  SameText(s) /\ Finalised(s)
  BY <1>4 DEF Gates, Overrides, Finalised
<1>5. ASSUME NEW t \in STAGE_ORDER, Unlocks(t)
      PROVE  SameText(s) /\ Finalised(s)
  BY <1>5 DEF Unlocks, Finalised
<1> QED
  BY <1>1, <1>2, <1>3, <1>4, <1>5 DEF Kinds

\* Readiness is looked at when a stage is finalised, and afterwards its text stays.
LEMMA ReadyKept ==
    ASSUME Typed, Kinds, ReadyInv
    PROVE  ReadyInv'
<1>1. OverridesAccepted' /\ accepted \subseteq accepted'
  BY OverridesKept DEF ReadyInv
<1>2. ASSUME NEW s \in STAGE_ORDER, Finalised(s)'
      PROVE  \/ QualityOf(s)' \notin {"incomplete", "local"}
             \/ <<s, stage'[s].version>> \in accepted'
  <2>1. SameText(s) /\ (Finalised(s) \/ Finalises(s))
    BY <1>2, FinalisedBefore
  <2>2. CASE Finalised(s)
    BY <1>1, <2>1, <2>2, QualityStays DEF ReadyInv, FinalisedReady, Finalised, SameText
  <2>3. CASE Finalises(s)
    <3>1. QualityOf(s) \notin {"incomplete", "local"} \/ <<s, stage[s].version>> \in accepted
      BY <2>3 DEF Finalises, Ready, Overridden, GateIs, ReadyInv, OverridesAccepted
    <3> QED
      BY <1>1, <2>1, <3>1, QualityStays DEF SameText
  <2> QED
    BY <2>1, <2>2, <2>3
<1> QED
  BY <1>1, <1>2 DEF ReadyInv, FinalisedReady, Finalised

(***************************************************************************)
(* A finalised text passes readiness and has no blocking local finding, or *)
(* its owner accepted that very version, whatever unlocks, late checks and *)
(* the sweep wrote to the gate on the way.                                 *)
(***************************************************************************)
THEOREM FinalisedWasReady ==
    ASSUME StageGateAssumption
    PROVE  Spec => []FinalisedIsReady
<1>1. Init => Typed /\ ReadyInv
  <2>1. ASSUME Init
        PROVE  \A s \in STAGE_ORDER : stage[s].gate = "clear" /\ ~Finalised(s)
    BY <2>1 DEF Init, Finalised
  <2> QED
    BY <2>1, InitTyped DEF ReadyInv, OverridesAccepted, FinalisedReady, Finalised
<1>2. Typed /\ ReadyInv /\ [Next]_vars => (Typed /\ ReadyInv)'
  BY StepKinds, ReadyKept
<1>3. Typed /\ ReadyInv => FinalisedIsReady
  BY StagesAre DEF ReadyInv, FinalisedReady, FinalisedIsReady, Finalised
<1> QED
  BY <1>1, <1>2, <1>3, PTL DEF Spec

-----------------------------------------------------------------------------
(* A finalised chain of stages is built from its current versions, until a *)
(* stage is unlocked.                                                      *)

\* A finalised text stands on finalised stages; and what it was built from is what they hold.
DependenciesHold ==
    \A s \in STAGE_ORDER :
        Finalised(s) /\ stage[s].version > 0 => DependenciesFinalised(s)

SourcesCurrent ==
    \A s \in STAGE_ORDER :
        Finalised(s) /\ stage[s].version > 0 /\ stage[s].source # NoSource
            => stage[s].source.up = Identity(s).up

UpstreamInv == unlocks = 0 => DependenciesHold /\ SourcesCurrent

\* unlocks counts the unlocks.
LEMMA UnlocksGrow ==
    ASSUME Typed, [Next]_vars
    PROVE  unlocks' = 0 => unlocks = 0
<1>1. unlocks' = unlocks \/ unlocks' = unlocks + 1
  BY DEF Next, Owner, Worker, Background, Generate, Finalise, AcknowledgeStale, Unlock,
     OverrideQualityGate, Edit, Rollback, UpdateProblemStatement, UpdateTargetAgent, SaveAnswers,
     ChangeInputs, Interrupted, PublishBlocked, Publish, CriticResult, Lost, TechnologyResult,
     Done, Hang, SweepRead, SweepWrite, SweepFails, vars
<1>2. unlocks \in Nat
  BY Shapes
<1> QED
  BY <1>1, <1>2

\* A step before the first unlock unlocks nothing.
LEMMA NoUnlock ==
    ASSUME Typed, unlocks' = 0, NEW s \in STAGE_ORDER, Unlocks(s)
    PROVE  FALSE
BY Shapes DEF Unlocks

\* The earlier stages are stages.
LEMMA Earlier ==
    ASSUME StageGateAssumption, NEW s \in STAGE_ORDER
    PROVE  \A t \in 1..(s - 1) : t \in STAGE_ORDER /\ t < s /\ t # s
BY DEF StageGateAssumption, STAGE_ORDER

\* The identity of a stage depends on the versions of the earlier ones.
LEMMA IdentityStays ==
    ASSUME StageGateAssumption, NEW s \in STAGE_ORDER,
           \A t \in STAGE_ORDER : t < s => stage'[t].version = stage[t].version
    PROVE  (Identity(s)').up = Identity(s).up
<1>1. \A t \in 1..(s - 1) : stage'[t].version = stage[t].version
  BY Earlier
<1> QED
  BY <1>1 DEF Identity

\* Nothing is finalised but in order, and what is built on a changed stage is marked.
LEMMA DependenciesKept ==
    ASSUME StageGateAssumption, Typed, Kinds, unlocks' = 0, DependenciesHold
    PROVE  DependenciesHold'
<1> SUFFICES ASSUME NEW s \in STAGE_ORDER, Finalised(s)', stage'[s].version > 0
             PROVE  DependenciesFinalised(s)'
  BY DEF DependenciesHold
<1>1. stage'[s].version = stage[s].version /\ (Finalised(s) \/ Finalises(s))
  BY FinalisedBefore DEF SameText
<1>2. DependenciesFinalised(s)
  BY <1>1 DEF DependenciesHold, Finalises
<1>3. \A t \in 1..(s - 1) : t \in STAGE_ORDER /\ t < s /\ t # s /\ Finalised(t)
  BY <1>2, Earlier DEF DependenciesFinalised, Finalised
<1> SUFFICES ASSUME NEW t \in 1..(s - 1)
             PROVE  Finalised(t)'
  BY DEF DependenciesFinalised, Finalised
<1>4. t \in STAGE_ORDER /\ t < s /\ t # s /\ Finalised(t)
  BY <1>3
<1>5. CASE Aside \/ Sweeps
  BY <1>4, <1>5 DEF Aside, Sweeps, Finalised
<1>6. CASE Marks
  BY <1>1, <1>4, <1>6 DEF Marks
<1>7. ASSUME NEW r \in STAGE_ORDER, Finalises(r)
      PROVE  Finalised(t)'
  BY <1>4, <1>7 DEF Finalises
<1>8. ASSUME NEW r \in STAGE_ORDER, Grows(r)
      PROVE  Finalised(t)'
  <2>1. CASE t < r
    BY <1>4, <1>8, <2>1 DEF Grows
  <2>2. CASE ~(t < r)
    <3>1. r < s /\ (r = t \/ r < t)
      BY <1>4, <2>2 DEF STAGE_ORDER, StageGateAssumption
    <3>2. r \in 1..(s - 1)
      BY <3>1 DEF STAGE_ORDER, StageGateAssumption
    <3>3. Finalised(r) /\ s > r
      BY <1>3, <3>1, <3>2 DEF STAGE_ORDER, StageGateAssumption
    <3>4. ~Finalised(s)'
      BY <1>1, <1>8, <3>3 DEF Grows
    <3> QED
      BY <3>4
  <2> QED
    BY <2>1, <2>2
<1>9. ASSUME NEW r \in STAGE_ORDER, Gates(r) \/ Overrides(r)
      PROVE  Finalised(t)'
  BY <1>4, <1>9 DEF Gates, Overrides, Finalised
<1>10. ASSUME NEW r \in STAGE_ORDER, Unlocks(r)
       PROVE  Finalised(t)'
  BY <1>10, NoUnlock
<1> QED
  BY <1>5, <1>6, <1>7, <1>8, <1>9, <1>10 DEF Kinds

\* A stage is finalised against the current versions, and keeps its source; no stage it
\* stands on changes while it is finalised.
LEMMA SourcesKept ==
    ASSUME StageGateAssumption, Typed, Kinds, unlocks' = 0, DependenciesHold, SourcesCurrent
    PROVE  SourcesCurrent'
<1> SUFFICES ASSUME NEW s \in STAGE_ORDER, Finalised(s)', stage'[s].version > 0,
                    stage'[s].source # NoSource
             PROVE  stage'[s].source.up = (Identity(s)').up
  BY DEF SourcesCurrent
<1>1. stage'[s].version = stage[s].version /\ (Finalised(s) \/ Finalises(s))
  BY FinalisedBefore DEF SameText
<1>2. \A t \in STAGE_ORDER : t < s => stage'[t].version = stage[t].version
  <2>1. CASE Aside \/ Sweeps \/ Marks
    BY <2>1 DEF Aside, Sweeps, Marks, Keeps, SameText
  <2>2. ASSUME NEW r \in STAGE_ORDER, Finalises(r) \/ Gates(r) \/ Overrides(r)
        PROVE  \A t \in STAGE_ORDER : t < s => stage'[t].version = stage[t].version
    BY <2>2 DEF Finalises, Gates, Overrides, SameText
  <2>3. ASSUME NEW r \in STAGE_ORDER, Grows(r)
        PROVE  \A t \in STAGE_ORDER : t < s => stage'[t].version = stage[t].version
    <3>1. DependenciesFinalised(s)
      BY <1>1 DEF DependenciesHold, Finalises
    <3>2. r < s => Finalised(r)
      <4>1. r < s => r \in 1..(s - 1)
        BY DEF STAGE_ORDER, StageGateAssumption
      <4> QED
        BY <3>1, <4>1 DEF DependenciesFinalised, Finalised
    <3>3. ~(r < s)
      <4>1. r < s => s > r
        BY DEF STAGE_ORDER, StageGateAssumption
      <4> QED
        BY <1>1, <2>3, <3>2, <4>1 DEF Grows
    <3> QED
      BY <2>3, <3>3 DEF Grows, Keeps, SameText
  <2>4. ASSUME NEW r \in STAGE_ORDER, Unlocks(r)
        PROVE  \A t \in STAGE_ORDER : t < s => stage'[t].version = stage[t].version
    BY <2>4, NoUnlock
  <2> QED
    BY <2>1, <2>2, <2>3, <2>4 DEF Kinds
<1>3. (Identity(s)').up = Identity(s).up
  BY <1>2, IdentityStays
<1>4. CASE Finalises(s)
  <2>1. stage'[s].source = Identity(s)
    BY <1>4 DEF Finalises
  <2> QED
    BY <1>3, <2>1
<1>5. CASE Finalised(s) /\ ~Finalises(s)
  <2>1. SameSource(s)
    <3>1. CASE Aside \/ Sweeps \/ Marks
      BY <3>1 DEF Aside, Sweeps, Marks, Keeps, SameSource
    <3>2. ASSUME NEW r \in STAGE_ORDER, Finalises(r)
          PROVE  SameSource(s)
      BY <1>5, <3>2 DEF Finalises
    <3>3. ASSUME NEW r \in STAGE_ORDER, Gates(r) \/ Overrides(r)
          PROVE  SameSource(s)
      BY <3>3 DEF Gates, Overrides
    <3>4. ASSUME NEW r \in STAGE_ORDER, Grows(r)
          PROVE  SameSource(s)
      BY <3>4 DEF Grows, Keeps
    <3>5. ASSUME NEW r \in STAGE_ORDER, Unlocks(r)
          PROVE  SameSource(s)
      BY <3>5, NoUnlock
    <3> QED
      BY <3>1, <3>2, <3>3, <3>4, <3>5 DEF Kinds
  <2> QED
    BY <1>1, <1>3, <1>5, <2>1 DEF SourcesCurrent, SameSource
<1> QED
  BY <1>1, <1>4, <1>5

(***************************************************************************)
(* Until a stage is unlocked, a finalised text whose earlier stages are    *)
(* all finalised was built from, or accepted against, exactly their        *)
(* current versions, for any number of stages and whatever edits,          *)
(* rollbacks and generations went on upstream.                             *)
(***************************************************************************)
THEOREM FinalisedChainCurrent ==
    ASSUME StageGateAssumption
    PROVE  Spec => []FinalisedMatchesUpstream
<1>1. Init => Typed /\ UpstreamInv
  <2>1. ASSUME Init
        PROVE  \A s \in STAGE_ORDER : ~Finalised(s)
    BY <2>1 DEF Init, Finalised
  <2> QED
    BY <2>1, InitTyped DEF UpstreamInv, DependenciesHold, SourcesCurrent
<1>2. Typed /\ UpstreamInv /\ [Next]_vars => (Typed /\ UpstreamInv)'
  BY StepKinds, UnlocksGrow, DependenciesKept, SourcesKept DEF UpstreamInv
<1>3. Typed /\ UpstreamInv => FinalisedMatchesUpstream
  BY StagesAre DEF UpstreamInv, SourcesCurrent, FinalisedMatchesUpstream, Finalised, Identity
<1> QED
  BY <1>1, <1>2, <1>3, PTL DEF Spec

-----------------------------------------------------------------------------
(* A blocked version waits for its owner, until a stage is unlocked, where *)
(* no check hangs.                                                         *)

\* The gate of a version in hand that was blocked, and not accepted, blocks it still.
BlockedStands ==
    \A s \in STAGE_ORDER :
        <<s, stage[s].version>> \in unresolved => GateIs(s, "blocked")

\* What was blocked is a text that the stage has, or had.
BlockedWritten ==
    \A s \in STAGE_ORDER : \A v \in Versions :
        <<s, v>> \in unresolved => v <= stage[s].version

GateInv == unlocks = 0 => BlockedStands /\ BlockedWritten /\ GateHonoured

NoHang == hung = {} /\ sweep = {}

\* Where no check hangs the sweep reads nothing.
LEMMA NoHangKept ==
    ASSUME ~Hangs, NoHang, [Next]_vars
    PROVE  NoHang'
<1>1. hung' \subseteq hung \/ (\E s \in STAGE_ORDER : Hang(s)) \/ SweepWrite
  BY DEF Next, Owner, Worker, Background, Generate, Finalise, AcknowledgeStale, Unlock,
     OverrideQualityGate, Edit, Rollback, UpdateProblemStatement, UpdateTargetAgent, SaveAnswers,
     ChangeInputs, Interrupted, PublishBlocked, Publish, CriticResult, Lost, TechnologyResult,
     Done, SweepRead, SweepFails, vars
<1>2. sweep' = sweep \/ SweepRead \/ sweep' = {}
  BY DEF Next, Owner, Worker, Background, Generate, Finalise, AcknowledgeStale, Unlock,
     OverrideQualityGate, Edit, Rollback, UpdateProblemStatement, UpdateTargetAgent, SaveAnswers,
     ChangeInputs, Interrupted, PublishBlocked, Publish, CriticResult, Lost, TechnologyResult,
     Done, Hang, SweepWrite, SweepFails, vars
<1>3. ~SweepWrite /\ ~SweepRead /\ \A s \in STAGE_ORDER : ~Hang(s)
  BY DEF NoHang, SweepWrite, SweepRead, Hang
<1> QED
  BY <1>1, <1>2, <1>3 DEF NoHang

\* What a step adds to the blocked texts is the head of a stage, which its gate blocks and
\* which is not finalised.
LEMMA BlockedBefore ==
    ASSUME StageGateAssumption, Typed, Typed', Kinds, sweep = {},
           NEW s \in STAGE_ORDER, NEW v \in Versions, <<s, v>> \in unresolved'
    PROVE  \/ <<s, v>> \in unresolved
           \/ v = stage'[s].version /\ GateIs(s, "blocked")' /\ ~Finalised(s)'
<1>1. CASE Aside \/ Marks
  BY <1>1 DEF Aside, Marks, NoNote
<1>2. CASE Sweeps
  BY <1>2 DEF Sweeps
<1>3. ASSUME NEW r \in STAGE_ORDER, Finalises(r) \/ Unlocks(r)
      PROVE  <<s, v>> \in unresolved
  BY <1>3 DEF Finalises, Unlocks, NoNote
<1>4. ASSUME NEW r \in STAGE_ORDER, Overrides(r)
      PROVE  <<s, v>> \in unresolved
  BY <1>4 DEF Overrides
<1>5. ASSUME NEW r \in STAGE_ORDER, Grows(r), <<s, v>> \notin unresolved
      PROVE  v = stage'[s].version /\ GateIs(s, "blocked")' /\ ~Finalised(s)'
  <2>1. <<s, v>> = <<r, stage'[r].version>> /\ GateIs(r, "blocked")'
    BY <1>5 DEF Grows, NoteGate, GateIs
  <2> QED
    BY <1>5, <2>1 DEF Grows
<1>6. ASSUME NEW r \in STAGE_ORDER, Gates(r), <<s, v>> \notin unresolved
      PROVE  v = stage'[s].version /\ GateIs(s, "blocked")' /\ ~Finalised(s)'
  <2>1. <<s, v>> = <<r, stage[r].version>> /\ GateIs(r, "blocked")' /\ ~Finalised(r)
    BY <1>6 DEF Gates
  <2> QED
    BY <1>6, <2>1 DEF Gates, SameText, Finalised
<1> QED
  BY <1>1, <1>2, <1>3, <1>4, <1>5, <1>6 DEF Kinds

\* A version that stays blocked keeps the gate that blocks it.
LEMMA BlockKept ==
    ASSUME Typed, Kinds, sweep = {}, unlocks' = 0,
           NEW s \in STAGE_ORDER, GateIs(s, "blocked"), SameText(s),
           <<s, stage[s].version>> \in unresolved'
    PROVE  GateIs(s, "blocked")'
<1>1. CASE Aside \/ Marks
  BY <1>1 DEF Aside, Marks, Keeps, SameGate, SameText, GateIs
<1>2. CASE Sweeps
  BY <1>2 DEF Sweeps
<1>3. ASSUME NEW r \in STAGE_ORDER, Finalises(r)
      PROVE  GateIs(s, "blocked")'
  BY <1>3 DEF Finalises, SameGate, SameText, GateIs
<1>4. ASSUME NEW r \in STAGE_ORDER, Unlocks(r)
      PROVE  GateIs(s, "blocked")'
  BY <1>4, NoUnlock
<1>5. ASSUME NEW r \in STAGE_ORDER, Overrides(r)
      PROVE  GateIs(s, "blocked")'
  <2>1. s # r
    BY <1>5 DEF Overrides
  <2> QED
    BY <1>5, <2>1 DEF Overrides, SameGate, SameText, GateIs
<1>6. ASSUME NEW r \in STAGE_ORDER, Grows(r)
      PROVE  GateIs(s, "blocked")'
  <2>1. s # r
    <3>1. stage[r].version \in Nat
      BY Shapes DEF StageRow, Versions
    <3> QED
      BY <1>6, <3>1 DEF Grows, SameText
  <2> QED
    BY <1>6, <2>1 DEF Grows, Keeps, SameGate, SameText, GateIs
<1>7. ASSUME NEW r \in STAGE_ORDER, Gates(r)
      PROVE  GateIs(s, "blocked")'
  <2>1. CASE s = r
    BY <1>7, <2>1 DEF Gates
  <2>2. CASE s # r
    BY <1>7, <2>2 DEF Gates, SameGate, SameText, GateIs
  <2> QED
    BY <2>1, <2>2
<1> QED
  BY <1>1, <1>2, <1>3, <1>4, <1>5, <1>6, <1>7 DEF Kinds

\* Versions are only added.
LEMMA VersionsGrow ==
    ASSUME Typed, Kinds, NEW s \in STAGE_ORDER
    PROVE  SameText(s) \/ stage'[s].version = stage[s].version + 1
BY DEF Kinds, Aside, Marks, Sweeps, Finalises, Grows, Gates, Overrides, Unlocks, Keeps, SameText

\* The gate goes on blocking what it blocked, and only an override lets it be finalised.
LEMMA GateKept ==
    ASSUME StageGateAssumption, Typed, Typed', Kinds, sweep = {}, unlocks' = 0,
           BlockedStands, BlockedWritten, GateHonoured
    PROVE  BlockedStands' /\ BlockedWritten' /\ GateHonoured'
<1>1. \A s \in STAGE_ORDER : stage[s].version \in Versions /\ stage'[s].version \in Versions
  <2>1. \A s \in STAGE_ORDER : stage[s].version \in Versions
    BY DEF Typed, TypeOK
  <2>2. \A s \in STAGE_ORDER : stage'[s].version \in Versions
    BY DEF Typed, TypeOK
  <2> QED
    BY <2>1, <2>2
<1>2. Versions \subseteq Nat
  BY DEF Versions
<1>3. ASSUME NEW s \in STAGE_ORDER, <<s, stage'[s].version>> \in unresolved'
      PROVE  GateIs(s, "blocked")' /\ ~Finalised(s)'
  <2>1. CASE <<s, stage'[s].version>> \notin unresolved
    BY <1>1, <1>3, <2>1, BlockedBefore
  <2>2. CASE <<s, stage'[s].version>> \in unresolved
    <3>1. stage'[s].version <= stage[s].version
      BY <1>1, <2>2 DEF BlockedWritten
    <3>2. SameText(s)
      <4>1. stage[s].version \in Nat /\ stage'[s].version \in Nat
        BY <1>1, <1>2
      <4>2. stage'[s].version # stage[s].version + 1
        BY <3>1, <4>1
      <4> QED
        BY <4>2, VersionsGrow
    <3>3. <<s, stage[s].version>> \in unresolved /\ <<s, stage[s].version>> \in unresolved'
      BY <1>3, <2>2, <3>2 DEF SameText
    <3>4. GateIs(s, "blocked") /\ ~Finalised(s)
      BY <3>3 DEF BlockedStands, GateHonoured, Finalised
    <3>5. ~Finalises(s)
      BY <3>4 DEF Finalises, Settled
    <3> QED
      BY <3>2, <3>3, <3>4, <3>5, BlockKept, FinalisedBefore
  <2> QED
    BY <2>1, <2>2
<1>4. ASSUME NEW s \in STAGE_ORDER, NEW v \in Versions, <<s, v>> \in unresolved'
      PROVE  v <= stage'[s].version
  <2>1. <<s, v>> \in unresolved \/ v = stage'[s].version
    BY <1>4, BlockedBefore
  <2>2. stage[s].version \in Nat /\ stage'[s].version \in Nat /\ v \in Nat
    BY <1>1, <1>2
  <2>3. stage'[s].version = stage[s].version \/ stage'[s].version = stage[s].version + 1
    BY VersionsGrow DEF SameText
  <2>4. <<s, v>> \in unresolved => v <= stage[s].version
    BY DEF BlockedWritten
  <2> QED
    BY <2>1, <2>2, <2>3, <2>4
<1>5. BlockedStands' /\ GateHonoured'
  BY <1>3 DEF BlockedStands, GateHonoured, Finalised
<1>6. BlockedWritten'
  BY <1>4 DEF BlockedWritten, Versions
<1> QED
  BY <1>5, <1>6

(***************************************************************************)
(* Until a stage is unlocked, and where no check hangs, a version that any *)
(* gate has blocked is finalised only after its owner overrode the gate,   *)
(* whatever the checks of other versions answer, and in whatever order.    *)
(***************************************************************************)
THEOREM BlockedNeedsOverride ==
    ASSUME StageGateAssumption, ~Hangs
    PROVE  Spec => [](unlocks = 0 => GateHonoured)
<1>1. Init => Typed /\ NoHang /\ GateInv
  <2>1. Init => NoHang /\ unresolved = {}
    BY DEF Init, NoHang
  <2> QED
    BY <2>1, InitTyped DEF GateInv, BlockedStands, BlockedWritten, GateHonoured
<1>2. Typed /\ NoHang /\ GateInv /\ [Next]_vars => (Typed /\ NoHang /\ GateInv)'
  <2> SUFFICES ASSUME Typed, NoHang, GateInv, [Next]_vars
               PROVE  Typed' /\ NoHang' /\ GateInv'
    OBVIOUS
  <2>1. Typed' /\ Kinds
    BY StepKinds
  <2>2. NoHang'
    BY NoHangKept
  <2>3. unlocks' = 0 => unlocks = 0
    BY UnlocksGrow
  <2>4. GateInv'
    BY <2>1, <2>3, GateKept DEF GateInv, NoHang
  <2> QED
    BY <2>1, <2>2, <2>4
<1>3. GateInv => (unlocks = 0 => GateHonoured)
  BY DEF GateInv
<1> QED
  BY <1>1, <1>2, <1>3, PTL DEF Spec
=============================================================================
