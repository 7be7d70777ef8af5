------------------------------ MODULE StageGate ------------------------------
(***************************************************************************)
(* The stages of one workspace after their first generation: finalise,     *)
(* acknowledge, unlock, rollback, edit, override, edits of the workspace   *)
(* inputs, and what runs beside them: the background technology check and  *)
(* critic, and the recovery sweep that closes checks that hang.            *)
(*                                                                         *)
(* The operations of a user lock the workspace row together with the stage *)
(* row and are one step each.  A check locks the stage row only for its    *)
(* result.  The sweep reads without a lock and writes later: two steps.    *)
(* How a generation runs is GenerationRun's subject; here it starts, and   *)
(* ends in a new version, in a blocked one, or in nothing.                 *)
(***************************************************************************)
EXTENDS StageRows, FiniteSets

CONSTANTS
    Last,       \* the stages are 1..Last, in STAGE_ORDER
    Quality,    \* what there may be to say of a text, see AllQuality
    Critic,     \* is the critic on (disable_critic is false)?
    MaxVersion, \* bound: current_version
    MaxInputs,  \* bound: edits of the workspace inputs
    MaxUnlocks, \* bound: rollbacks to the current version
    Hangs       \* may a check outlive stage_technology_check_stale_seconds?

AllQuality ==
    {"good",
     "incomplete",   \* validate_readiness raises
     "local",        \* analyze_local_technology_safety finds a blocking finding
     "external"}     \* only the external technology lookup does

StageGateAssumption ==
    /\ Last \in Nat /\ MaxVersion \in Nat /\ MaxInputs \in Nat /\ MaxUnlocks \in Nat
    /\ Quality \subseteq AllQuality
    /\ Critic \in BOOLEAN /\ Hangs \in BOOLEAN

VARIABLES
    inputs,     \* identity of the workspace's INPUT_FIELDS
    run,        \* of a running generation: input_snapshot and previous_status
    jobs,       \* the background checks in flight
    hung,       \* the stages whose check started too long ago
    sweep,      \* what the recovery sweep has read and not yet written
    unresolved  \* ghost: the texts a gate blocked and no owner accepted

vars == <<stage, versions, inputs, run, jobs, hung, sweep, unlocks, unresolved, accepted>>

STAGE_ORDER == 1..Last
Versions == 0..MaxVersion
Source == {NoSource} \cup
          UNION {[inputs : 0..MaxInputs, up : [1..(s - 1) -> Versions]] : s \in STAGE_ORDER}
GateStatus == {"clear", "checking", "blocked", "advisory", "overridden"}
Job == [kind : {"technology", "critic"}, stage : STAGE_ORDER, version : Versions]

TypeOK ==
    /\ stage \in [STAGE_ORDER ->
         [status : {"locked", "draft", "in_progress", "finalised", "stale"},
          version : Versions, source : Source, gate : GateStatus,
          gateVersion : Versions]]
    /\ versions \in [STAGE_ORDER -> Seq([quality : AllQuality, source : Source])]
    /\ \A s \in STAGE_ORDER : Len(versions[s]) = stage[s].version
    /\ inputs \in 0..MaxInputs
    /\ run \in [STAGE_ORDER -> [source : Source, prev : {"draft", "stale"}]]
    /\ jobs \subseteq Job
    /\ hung \subseteq STAGE_ORDER
    /\ sweep \subseteq STAGE_ORDER \X {"blocked", "advisory"}
    /\ unlocks \in 0..MaxUnlocks
    /\ unresolved \subseteq STAGE_ORDER \X Versions
    /\ accepted \subseteq STAGE_ORDER \X Versions

NoRun == [source |-> NoSource, prev |-> "draft"]

Init ==
    /\ stage = [s \in STAGE_ORDER |->
         [status |-> IF s = 1 THEN "draft" ELSE "locked", version |-> 0, source |-> NoSource,
          gate |-> "clear", gateVersion |-> 0]]
    /\ versions = [s \in STAGE_ORDER |-> <<>>]
    /\ inputs = 0
    /\ run = [s \in STAGE_ORDER |-> NoRun]
    /\ jobs = {} /\ hung = {} /\ sweep = {}
    /\ unlocks = 0
    /\ unresolved = {} /\ accepted = {}

-----------------------------------------------------------------------------
(* What the operations share.                                              *)

\* source_identity: the inputs and the versions of every earlier stage.
Identity(s) == [inputs |-> inputs, up |-> [t \in 1..(s - 1) |-> stage[t].version]]

GateIs(s, status) == stage[s].gate = status /\ stage[s].gateVersion = stage[s].version

\* _mark_quality_gate_checking: local findings block at once.
Checking(row, q) ==
    [row EXCEPT !.gate = IF q = "local" THEN "blocked" ELSE "checking",
                !.gateVersion = row.version]

Clear(row) == [row EXCEPT !.gate = "clear", !.gateVersion = 0]

\* _mark_downstream_stale: a stage that is being generated is not marked.
MarkDownstreamStale(st, s) ==
    [t \in STAGE_ORDER |->
        IF t > s /\ st[t].status \in {"finalised", "draft"} /\ st[t].version > 0
          THEN [st[t] EXCEPT !.status = "stale"] ELSE st[t]]

\* A new stage_versions row, which becomes the head.
NewVersion(s, source, status) ==
    [stage[s] EXCEPT !.version = @ + 1, !.source = source, !.status = status]

Record(s, q, source) ==
    versions' = [versions EXCEPT ![s] = Append(@, [quality |-> q, source |-> source])]

Schedule(s, kinds) ==
    jobs' = jobs \cup [kind : kinds, stage : {s}, version : {stage[s].version + 1}]

\* The ghosts follow the gate that a step leaves behind.
NoteGate(s) ==
    /\ unresolved' = IF stage'[s].gate = "blocked" /\ stage'[s].gateVersion = stage'[s].version
                       THEN unresolved \cup {<<s, stage'[s].version>>} ELSE unresolved
    /\ UNCHANGED accepted

CanGrow(s) == stage[s].version < MaxVersion

-----------------------------------------------------------------------------
(* Generation.                                                             *)

Generate(s) ==
    /\ stage[s].status \in {"draft", "stale"}
    /\ DependenciesFinalised(s)
    /\ CanGrow(s)
    /\ stage' = [stage EXCEPT ![s].status = "in_progress"]
    /\ run' = [run EXCEPT ![s] = [source |-> Identity(s), prev |-> stage[s].status]]
    /\ UNCHANGED <<versions, inputs, jobs, hung, sweep, unlocks, unresolved, accepted>>

Publish(s, q) ==
    /\ stage[s].status = "in_progress"
    /\ q # "incomplete"
    /\ stage' = [stage EXCEPT ![s] = Checking(NewVersion(s, run[s].source, "draft"), q)]
    /\ Record(s, q, run[s].source)
    /\ Schedule(s, {"technology"} \cup (IF Critic THEN {"critic"} ELSE {}))
    /\ hung' = hung \ {s}
    /\ NoteGate(s)
    /\ run' = [run EXCEPT ![s] = NoRun]
    /\ UNCHANGED <<inputs, sweep, unlocks>>

\* Missing sections, or the safe part of an interrupted generation.
PublishBlocked(s) ==
    /\ stage[s].status = "in_progress"
    /\ "incomplete" \in Quality
    /\ LET row == NewVersion(s, run[s].source, "draft") IN
         stage' = [stage EXCEPT ![s] = [row EXCEPT !.gate = "blocked",
                                                   !.gateVersion = row.version]]
    /\ Record(s, "incomplete", run[s].source)
    /\ hung' = hung \ {s}
    /\ NoteGate(s)
    /\ run' = [run EXCEPT ![s] = NoRun]
    /\ UNCHANGED <<inputs, jobs, sweep, unlocks>>

Interrupted(s) ==
    /\ stage[s].status = "in_progress"
    /\ stage' = [stage EXCEPT ![s].status = run[s].prev]
    /\ run' = [run EXCEPT ![s] = NoRun]
    /\ UNCHANGED <<versions, inputs, jobs, hung, sweep, unlocks, unresolved, accepted>>

-----------------------------------------------------------------------------
(* The owner's operations.                                                 *)

\* Mutant: the overriding of an earlier version counts.
M_Overridden(s) == stage[s].gate = "overridden" \/ \E v \in Versions : <<s, v>> \in accepted

Overridden(s) == GateIs(s, "overridden")

\* _assert_finalisation_readiness.
Ready(s) == Overridden(s) \/ QualityOf(s) \notin {"incomplete", "local"}

\* Mutant: a blocked gate is only a warning.
M_Settled(s) == ~GateIs(s, "checking")

\* No verdict on the current version stands in the way.
Settled(s) == ~GateIs(s, "blocked") /\ ~GateIs(s, "checking")

Block(s) ==
    /\ stage' = [stage EXCEPT ![s].gate = "blocked", ![s].gateVersion = stage[s].version]
    /\ NoteGate(s)

\* Mutant: finalise does not compare the source identity.
M_SourceMoved(s) == FALSE

SourceMoved(s) == stage[s].source # NoSource /\ stage[s].source # Identity(s)

Finalise(s) ==
    /\ stage[s].status = "draft"
    /\ Settled(s)
    /\ DependenciesFinalised(s)
    /\ \/ /\ SourceMoved(s)
          /\ stage' = [stage EXCEPT ![s].status = "stale"]
          /\ UNCHANGED <<unresolved, accepted>>
       \/ ~SourceMoved(s) /\ ~Ready(s) /\ Block(s)
       \/ /\ ~SourceMoved(s) /\ Ready(s)
          /\ stage' = [t \in STAGE_ORDER |->
                CASE t = s -> [stage[t] EXCEPT !.status = "finalised"]
                  [] t = s + 1 /\ stage[t].status = "locked" ->
                       [stage[t] EXCEPT !.status = "draft"]
                  [] OTHER -> stage[t]]
          /\ UNCHANGED <<unresolved, accepted>>
    /\ UNCHANGED <<versions, inputs, run, jobs, hung, sweep, unlocks>>

\* The next stage is left as it is.
AcknowledgeStale(s) ==
    /\ stage[s].status = "stale"
    /\ DependenciesFinalised(s)
    /\ Settled(s)
    /\ \/ ~Ready(s) /\ Block(s)
       \/ /\ Ready(s)
          /\ stage' = [stage EXCEPT ![s].status = "finalised", ![s].source = Identity(s)]
          /\ UNCHANGED <<unresolved, accepted>>
    /\ UNCHANGED <<versions, inputs, run, jobs, hung, sweep, unlocks>>

\* handle_content_edit; a harness patch leaves the same state behind.
Edit(s, q) ==
    /\ stage[s].status # "in_progress"
    /\ CanGrow(s)
    /\ LET was == stage[s].status = "finalised"
           row == Checking(NewVersion(s, stage[s].source,
                                      IF was THEN "stale" ELSE "draft"), q)
           st == [stage EXCEPT ![s] = row]
       IN stage' = IF was THEN MarkDownstreamStale(st, s) ELSE st
    /\ Record(s, q, stage[s].source)
    /\ Schedule(s, {"technology"})
    /\ hung' = hung \ {s}
    /\ NoteGate(s)
    /\ UNCHANGED <<inputs, run, sweep, unlocks>>

\* Rollback to an earlier version: a copy of it becomes the new head.
Rollback(s, v) ==
    /\ stage[s].status # "in_progress"
    /\ CanGrow(s)
    /\ v \in 1..(stage[s].version - 1)
    /\ LET old == versions[s][v]
           row == Checking(NewVersion(s, old.source, "draft"), old.quality)
       IN /\ stage' = MarkDownstreamStale([stage EXCEPT ![s] = row], s)
          /\ Record(s, old.quality, old.source)
    /\ Schedule(s, {"technology"})
    /\ hung' = hung \ {s}
    /\ NoteGate(s)
    /\ UNCHANGED <<inputs, run, sweep, unlocks>>

\* Rollback to the current version: the text stays, the gate is cleared unless
\* it is advisory, and nothing downstream is told.
Unlock(s) ==
    /\ stage[s].status # "in_progress"
    /\ stage[s].version > 0
    /\ unlocks < MaxUnlocks
    /\ LET row == [stage[s] EXCEPT !.status = "draft",
                                   !.source = versions[s][stage[s].version].source]
       IN stage' = [stage EXCEPT ![s] = IF GateIs(s, "advisory") THEN row ELSE Clear(row)]
    /\ unlocks' = unlocks + 1
    /\ UNCHANGED <<versions, inputs, run, jobs, hung, sweep, unresolved, accepted>>

OverrideQualityGate(s) ==
    /\ stage[s].status = "draft"
    /\ GateIs(s, "blocked")
    /\ stage' = [stage EXCEPT ![s].gate = "overridden"]
    /\ accepted' = accepted \cup {<<s, stage[s].version>>}
    /\ unresolved' = unresolved \ {<<s, stage[s].version>>}
    /\ UNCHANGED <<versions, inputs, run, jobs, hung, sweep, unlocks>>

-----------------------------------------------------------------------------
(* Edits of what the stages are built from.                                *)

\* The workspace row changes and the stages of marked become stale.
ChangeInputs(marked) ==
    /\ inputs < MaxInputs
    /\ inputs' = inputs + 1
    /\ stage' = [s \in STAGE_ORDER |->
                   IF s \in marked THEN [stage[s] EXCEPT !.status = "stale"] ELSE stage[s]]
    /\ UNCHANGED <<versions, run, jobs, hung, sweep, unlocks, unresolved, accepted>>

\* WorkspaceService.update with a problem statement: drafts are left alone.
UpdateProblemStatement ==
    ChangeInputs({s \in STAGE_ORDER : /\ stage[s].status = "finalised"
                                      /\ s > 1 \/ stage[s].version > 0})

\* ... with a target agent: no stage is told.
UpdateTargetAgent == ChangeInputs({})

\* save_clarification_answers.
SaveAnswers ==
    ChangeInputs({s \in STAGE_ORDER : /\ stage[s].status \in {"draft", "finalised"}
                                      /\ stage[s].version > 0})

-----------------------------------------------------------------------------
(* What runs in the background.                                            *)

\* _merge_background_quality_findings: a blocked or overridden gate keeps its
\* status; otherwise one of these is its new one.
Merge(s, outcomes) ==
    IF stage[s].gate \in {"blocked", "overridden"} THEN UNCHANGED stage
    ELSE \E g \in outcomes : stage' = [stage EXCEPT ![s].gate = g,
                           ![s].gateVersion = IF g = "clear" THEN 0 ELSE stage[s].version]

Done(j) ==
    /\ jobs' = jobs \ {j}
    /\ UNCHANGED <<versions, inputs, run, sweep, unlocks>>

\* The lookup answers, or does not complete and only local findings count.
Outcomes(q, answered) ==
    IF q = "local" \/ (q = "external" /\ answered) THEN {"blocked"}
    ELSE IF answered THEN {"clear", "advisory"} ELSE {"advisory"}

Concerns(j) == stage[j.stage].version = j.version

TechnologyResult(j, answered) ==
    /\ j \in jobs /\ j.kind = "technology"
    /\ LET s == j.stage IN
         \/ /\ Concerns(j) /\ stage[s].status = "draft"
            /\ Merge(s, Outcomes(versions[s][j.version].quality, answered))
            /\ NoteGate(s)
            /\ hung' = hung \ {s}
         \/ /\ ~(Concerns(j) /\ stage[s].status = "draft")
            /\ UNCHANGED <<stage, hung, unresolved, accepted>>
    /\ Done(j)

\* The critic does not ask for the stage's status, and does not end a check.
CriticResult(j) ==
    /\ j \in jobs /\ j.kind = "critic"
    /\ LET s == j.stage IN
         \/ /\ Concerns(j)
            /\ Merge(s, {IF stage[s].gate = "checking" THEN "checking" ELSE "advisory"})
         \/ UNCHANGED stage
    /\ UNCHANGED <<hung, unresolved, accepted>>
    /\ Done(j)

\* A process ends and its detached tasks with it.
Lost(j) ==
    /\ j \in jobs
    /\ UNCHANGED <<stage, hung, unresolved, accepted>>
    /\ Done(j)

Hang(s) ==
    /\ stage[s].gate = "checking" /\ s \notin hung
    /\ Hangs
    /\ hung' = hung \cup {s}
    /\ UNCHANGED <<stage, versions, inputs, run, jobs, sweep, unlocks, unresolved, accepted>>

\* recover_stuck_stages, the stages whose check hangs: read ...
SweepRead ==
    /\ sweep = {}
    /\ sweep' = {<<s, IF QualityOf(s) = "local" THEN "blocked" ELSE "advisory">> :
                    s \in {t \in hung : stage[t].gate = "checking"}}
    /\ sweep' # {}
    /\ UNCHANGED <<stage, versions, inputs, run, jobs, hung, unlocks, unresolved, accepted>>

SweepVerdict(s) == {p[2] : p \in {q \in sweep : q[1] = s}}

\* ... and written, to whatever the row holds by then.
SweepWrite ==
    /\ sweep # {}
    /\ sweep' = {}
    /\ stage' = [s \in STAGE_ORDER |->
                   IF SweepVerdict(s) = {} THEN stage[s]
                   ELSE [stage[s] EXCEPT !.gate = CHOOSE g \in SweepVerdict(s) : TRUE]]
    /\ hung' = {s \in hung : stage'[s].gate = "checking"}
    /\ unresolved' = unresolved \cup
          {<<s, stage[s].version>> : s \in {t \in STAGE_ORDER : stage[t].gate # "blocked"
             /\ stage'[t].gate = "blocked" /\ stage[t].gateVersion = stage[t].version}}
    /\ UNCHANGED <<versions, inputs, run, jobs, unlocks, accepted>>

SweepFails ==
    /\ sweep # {}
    /\ sweep' = {}
    /\ UNCHANGED <<stage, versions, inputs, run, jobs, hung, unlocks, unresolved, accepted>>

-----------------------------------------------------------------------------
Owner ==
    \/ \E s \in STAGE_ORDER :
         \/ Generate(s) \/ Finalise(s) \/ AcknowledgeStale(s) \/ Unlock(s)
         \/ OverrideQualityGate(s)
         \/ \E q \in Quality : Edit(s, q)
         \/ \E v \in Versions : Rollback(s, v)
    \/ UpdateProblemStatement \/ UpdateTargetAgent \/ SaveAnswers

Worker == \E s \in STAGE_ORDER :
    Interrupted(s) \/ PublishBlocked(s) \/ \E q \in Quality : Publish(s, q)

Background ==
    \/ \E j \in jobs :
         CriticResult(j) \/ Lost(j) \/ \E answered \in BOOLEAN : TechnologyResult(j, answered)
    \/ \E s \in STAGE_ORDER : Hang(s)
    \/ SweepRead \/ SweepWrite \/ SweepFails

Next == Owner \/ Worker \/ Background

Spec == Init /\ [][Next]_vars

(***************************************************************************)
(* A check that nobody answers grows old, the recovery loop polls every    *)
(* ten seconds, and its commit is not refused for ever.                    *)
(***************************************************************************)
Fairness ==
    /\ \A s \in STAGE_ORDER : WF_vars(Hang(s))
    /\ WF_vars(SweepRead)
    /\ SF_vars(SweepWrite)

FairSpec == Spec /\ Fairness

-----------------------------------------------------------------------------
(***************************************************************************)
(* A version that any gate has blocked is finalised only after its owner   *)
(* overrode the gate (finalise: "finalisable only after the user overrides *)
(* it").                                                                   *)
(***************************************************************************)
GateHonoured ==
    \A s \in STAGE_ORDER :
        stage[s].status = "finalised" => <<s, stage[s].version>> \notin unresolved

(***************************************************************************)
(* No stage waits for ever on a check: if the task is lost, or refuses     *)
(* because the stage went stale under it, the recovery sweep closes it.    *)
(***************************************************************************)
CheckResolves ==
    \A s \in STAGE_ORDER : stage[s].gate = "checking" ~> stage[s].gate # "checking"

(***************************************************************************)
(* While a version stands, its blocked or overridden gate is not replaced  *)
(* by an advisory result: _merge_background_quality_findings holds that    *)
(* such a state must never be downgraded by a later advisory task.         *)
(***************************************************************************)
VerdictStands ==
    [][\A s \in STAGE_ORDER :
         (stage[s].gate \in {"blocked", "overridden"} /\ stage'[s].version = stage[s].version)
           => stage'[s].gate # "advisory"]_vars

(***************************************************************************)
(* A finalised stage has unlocked the stage after it.                      *)
(***************************************************************************)
FinalisedUnlocksNext ==
    \A s \in STAGE_ORDER \ {Last} :
        stage[s].status = "finalised" => stage[s + 1].status # "locked"

=============================================================================
