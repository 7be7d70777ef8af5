---------------------------- MODULE Storyboards ----------------------------
(***************************************************************************)
(* The keynote decks of one workspace: a click reserves and pays a row, a  *)
(* background task of the API process calls the provider and turns the row *)
(* ready or failed, the recovery sweep fails rows that are 30 minutes old, *)
(* and ready rows are shared under a slug.                                 *)
(*                                                                         *)
(* The Redis reserve lock is left out: nothing but its own release depends *)
(* on it.  The slugs are drawn at random and collide with nothing.         *)
(***************************************************************************)
EXTENDS Naturals, Sequences, FiniteSets

CONSTANTS Click,        \* requests to generate or regenerate
          Rounds,       \* _MAX_REPAIR_ROUNDS
          Escalates,    \* the provider has a model at the fallback tier
          Slow,         \* a run may outlive STUCK_THRESHOLD_MINUTES
          MaxSources,   \* bound: source versions
          MaxFaults,    \* bound: crashes, failing transactions
          MaxSlugs      \* bound: slugs

VARIABLES deck,     \* storyboards by version
          run,      \* the background task of a version
          click,    \* the request handlers
          source,   \* what build_storyboard_source reads: the finalised versions
          slugs,    \* slugs drawn so far
          faults

vars == <<deck, run, click, source, slugs, faults>>

NewDeck(src) == [status |-> "generating", paid |-> TRUE, old |-> FALSE, source |-> src,
                 slug |-> 0, shared |-> FALSE]
NoRun == [pc |-> "gone", at |-> "primary", repairs |-> 0, doubled |-> FALSE]
NewRun == [NoRun EXCEPT !.pc = "call"]

Presentable(v) == deck[v].status \in {"ready", "stale"}
InFlight == {v \in DOMAIN deck : deck[v].status = "generating"}
Faulty == faults < MaxFaults /\ faults' = faults + 1

Init ==
    /\ deck = <<>> /\ run = <<>>
    /\ click = [c \in Click |-> [pc |-> "idle", source |-> 0]]
    /\ source = 1 /\ slugs = 0 /\ faults = 0

-----------------------------------------------------------------------------
(* Requests.                                                               *)

\* generate or regenerate: the sources are read before anything is charged.  A
\* section needs a presentable base.
ReadSource(c) ==
    /\ click[c].pc = "idle"
    /\ click' = [click EXCEPT ![c] = [pc |-> "reserve", source |-> source]]
    /\ UNCHANGED <<deck, run, source, slugs, faults>>

ReadSection(c) ==
    /\ \E v \in DOMAIN deck : Presentable(v)
    /\ ReadSource(c)

\* The fast path of _reserve.
FindInFlight(c) ==
    /\ click[c].pc = "reserve"
    /\ click' = [click EXCEPT ![c].pc = IF InFlight = {} THEN "lock" ELSE "done"]
    /\ UNCHANGED <<deck, run, source, slugs, faults>>

\* Mutant: the look before the workspace lock is trusted.
M_Recheck == TRUE

\* Under the workspace lock the winner of a race is visible.
Recheck == InFlight = {}

Reserve(c) ==
    /\ click[c].pc = "lock" /\ Recheck
    /\ deck' = Append(deck, NewDeck(click[c].source))
    /\ run' = Append(run, NewRun)
    /\ click' = [click EXCEPT ![c].pc = "done"]
    /\ UNCHANGED <<source, slugs, faults>>

\* A row in flight, no credits, or a workspace that is gone: nothing is written.
ReserveRefused(c) ==
    /\ click[c].pc = "lock"
    /\ click' = [click EXCEPT ![c].pc = "done"]
    /\ UNCHANGED <<deck, run, source, slugs, faults>>

-----------------------------------------------------------------------------
(* The provider calls of a run.                                            *)

Calling(v) == run[v].pc = "call"
Attempt(at) == [NewRun EXCEPT !.at = at]
Becomes(v, r) == /\ run' = [run EXCEPT ![v] = r]
                 /\ UNCHANGED <<deck, click, source, slugs, faults>>
Failing(v) == [run[v] EXCEPT !.pc = "fail"]

CallValid(v) == Calling(v) /\ Becomes(v, [run[v] EXCEPT !.pc = "finalise"])

\* A body that was cut off is asked for once more with a doubled budget.
CallTruncated(v) ==
    /\ Calling(v) /\ ~run[v].doubled /\ run[v].repairs = 0
    /\ Becomes(v, [run[v] EXCEPT !.doubled = TRUE])

\* Parse, schema, grounding or deck quality: repaired, then escalated once.
CallInvalid(v) ==
    /\ Calling(v)
    /\ Becomes(v, IF run[v].repairs < Rounds THEN [run[v] EXCEPT !.repairs = @ + 1]
                  ELSE IF run[v].at = "primary" /\ Escalates THEN Attempt("escalated")
                  ELSE Failing(v))

\* Timeout or provider error, in a repair too: another provider, if there is one.
CallBreaks(v) ==
    /\ Calling(v)
    /\ \/ run[v].at = "primary" /\ Becomes(v, Attempt("failover"))
       \/ Becomes(v, Failing(v))

-----------------------------------------------------------------------------
(* The second transaction of a run.                                        *)

Ready(d) == [d EXCEPT !.status = "ready"]

Refunded(d) == [d EXCEPT !.status = "failed", !.paid = FALSE]

\* _finalise_ready looks for the row, not at its status.
FinaliseReady(v) ==
    /\ run[v].pc = "finalise"
    /\ deck' = [deck EXCEPT ![v] = Ready(@)]
    /\ run' = [run EXCEPT ![v] = NoRun]
    /\ UNCHANGED <<click, source, slugs, faults>>

\* _fail_and_refund; the refund of a refunded debit is a no-op.
FailAndRefund(v) ==
    /\ run[v].pc = "fail"
    /\ deck' = [deck EXCEPT ![v] = Refunded(@)]
    /\ run' = [run EXCEPT ![v] = NoRun]
    /\ UNCHANGED <<click, source, slugs, faults>>

\* An unexpected error, a commit with an unknown outcome too: _background_run
\* fails the row in a fresh session.
RunRaises(v) ==
    /\ run[v].pc \in {"call", "finalise", "fail"} /\ Faulty
    /\ deck' \in {deck} \cup (IF run[v].pc = "finalise" THEN {[deck EXCEPT ![v] = Ready(@)]}
                              ELSE IF run[v].pc = "fail" THEN {[deck EXCEPT ![v] = Refunded(@)]}
                              ELSE {})
    /\ run' = [run EXCEPT ![v].pc = "force"]
    /\ UNCHANGED <<click, source, slugs>>

ForceFail(v) ==
    /\ run[v].pc = "force"
    /\ deck' = [deck EXCEPT ![v] = Refunded(@)]
    /\ run' = [run EXCEPT ![v] = NoRun]
    /\ UNCHANGED <<click, source, slugs, faults>>

\* ... and that fails too, or the API process ends: the sweep is the backstop.
RunDies(v) ==
    /\ run[v].pc # "gone" /\ Faulty
    /\ run' = [run EXCEPT ![v] = NoRun]
    /\ UNCHANGED <<deck, click, source, slugs>>

-----------------------------------------------------------------------------
(* Recovery, new sources.                                                  *)

\* Eight calls of nine minutes fit into a run; most runs are faster.
Ages(v) ==
    /\ deck[v].status = "generating" /\ ~deck[v].old
    /\ Slow \/ run[v].pc = "gone"
    /\ deck' = [deck EXCEPT ![v].old = TRUE]
    /\ UNCHANGED <<run, click, source, slugs, faults>>

\* recover_stuck_storyboards, one commit for all.
RecoverStuck ==
    LET stuck == {v \in InFlight : deck[v].old} IN
    /\ stuck # {}
    /\ deck' = [v \in DOMAIN deck |-> IF v \in stuck THEN Refunded(deck[v]) ELSE deck[v]]
    /\ UNCHANGED <<run, click, source, slugs, faults>>

\* A stage is finalised again: mark_workspace_storyboards_stale in its transaction.
Refinalise ==
    /\ source < MaxSources
    /\ source' = source + 1
    /\ deck' = [v \in DOMAIN deck |-> IF deck[v].status = "ready"
                                      THEN [deck[v] EXCEPT !.status = "stale"] ELSE deck[v]]
    /\ UNCHANGED <<run, click, slugs, faults>>

-----------------------------------------------------------------------------
(* Sharing.                                                                *)

\* The slug a row keeps when it is shared again.
SlugOf(v) == IF deck[v].slug # 0 THEN deck[v].slug ELSE slugs + 1

EnableShare(v) ==
    /\ Presentable(v) /\ SlugOf(v) <= MaxSlugs
    /\ deck' = [deck EXCEPT ![v].slug = SlugOf(v), ![v].shared = TRUE]
    /\ slugs' = IF SlugOf(v) > slugs THEN SlugOf(v) ELSE slugs
    /\ UNCHANGED <<run, click, source, faults>>

DisableShare(v) ==
    /\ deck[v].shared
    /\ deck' = [deck EXCEPT ![v].shared = FALSE]
    /\ UNCHANGED <<run, click, source, slugs, faults>>

RotateShare(v) ==
    /\ Presentable(v) /\ slugs < MaxSlugs
    /\ deck' = [deck EXCEPT ![v].slug = slugs + 1, ![v].shared = TRUE]
    /\ slugs' = slugs + 1
    /\ UNCHANGED <<run, click, source, faults>>

\* lookup_shareable, for anyone who has the slug.
Lookup(slug) == {v \in DOMAIN deck : deck[v].slug = slug /\ deck[v].shared /\ Presentable(v)}

-----------------------------------------------------------------------------
Step(v) ==
    \/ CallValid(v) \/ CallTruncated(v) \/ CallInvalid(v) \/ CallBreaks(v)
    \/ FinaliseReady(v) \/ FailAndRefund(v) \/ RunRaises(v) \/ ForceFail(v) \/ RunDies(v)
    \/ Ages(v) \/ EnableShare(v) \/ DisableShare(v) \/ RotateShare(v)

Next ==
    \/ \E c \in Click : ReadSource(c) \/ ReadSection(c) \/ FindInFlight(c)
                        \/ Reserve(c) \/ ReserveRefused(c)
    \/ \E v \in DOMAIN deck : Step(v)
    \/ RecoverStuck \/ Refinalise

Spec == Init /\ [][Next]_vars

-----------------------------------------------------------------------------
\* One deck is generated and charged at a time.
OneInFlight == Cardinality(InFlight) <= 1

\* A deck that can be shown is paid, one that failed is not.
DeckPaid == \A v \in DOMAIN deck :
    /\ deck[v].status # "failed" => deck[v].paid
    /\ deck[v].status = "failed" => ~deck[v].paid

\* What the user is charged for is one deck that is being made, or one to show.
ChargedIffServed == OneInFlight /\ DeckPaid
=============================================================================
