------------------------------ MODULE StageRows ------------------------------
(***************************************************************************)
(* The stages of one workspace as the database keeps them, and what the    *)
(* stage manager promises of the rows, whatever finalises, regenerates or  *)
(* checks them: StageGate says how they move.                              *)
(***************************************************************************)
EXTENDS Integers, Sequences

CONSTANT NoSource   \* source_identity is NULL

VARIABLES
    stage,      \* the stages rows
    versions,   \* the stage_versions rows
    unlocks,    \* rollbacks to the current version so far
    accepted    \* ghost: the texts an owner accepted

\* An empty stage has nothing that readiness could accept.
QualityOf(s) == IF stage[s].version = 0 THEN "incomplete"
                ELSE versions[s][stage[s].version].quality

DependenciesFinalised(s) == \A t \in 1..(s - 1) : stage[t].status = "finalised"

-----------------------------------------------------------------------------
(***************************************************************************)
(* A finalised text whose earlier stages are all finalised was built from, *)
(* or accepted against, exactly their current versions: edits,             *)
(* rollbacks and regenerations upstream reach it through the stale mark,   *)
(* through the snapshot of a generation that was under way, or through the *)
(* comparison in finalise.  A rollback to the current version is the       *)
(* exception: it reopens a stage and marks nothing below it.               *)
(***************************************************************************)
FinalisedMatchesUpstream ==
    unlocks = 0 =>
        \A s \in DOMAIN stage :
            /\ stage[s].status = "finalised" /\ stage[s].version > 0
            /\ DependenciesFinalised(s)
            /\ stage[s].source # NoSource
            => stage[s].source.up = [t \in 1..(s - 1) |-> stage[t].version]

(***************************************************************************)
(* Whatever overwrote the gate on the way, a finalised text passes         *)
(* readiness and has no blocking local finding, or its owner accepted that *)
(* very version: finalise and acknowledge_stale look at the text again.    *)
(***************************************************************************)
FinalisedIsReady ==
    \A s \in DOMAIN stage :
        stage[s].status = "finalised" =>
            \/ QualityOf(s) \notin {"incomplete", "local"}
            \/ <<s, stage[s].version>> \in accepted
=============================================================================
