----------------------------- MODULE Refinement -----------------------------
(***************************************************************************)
(* Paid changes to a stage that exists: refine proposes a replacement for  *)
(* a selection (accept-diff applies it later), the harness patch adds the  *)
(* test files that are missing.  Both call a provider without holding a    *)
(* row, so the stage may change under them.  They charge on opposite sides *)
(* of the call: a refinement is debited and committed before it, and every *)
(* failure gives the debit back from a fresh session, in at most three     *)
(* attempts; a patch is debited in the transaction that saves it.          *)
(***************************************************************************)
EXTENDS Integers, FiniteSets

CONSTANTS
    Refine,         \* requests to /refine with one selection and one instruction
    Regenerate,     \* requests to /regenerate-gaps
    MaxVersion,     \* bound: current_version
    MaxFails,       \* bound: refund attempts that raise
    MaxCrashes      \* bound: processes that end in the middle of a request

Request == Refine \cup Regenerate

\* What the proofs assume of the constants; MCStages checks it of its values.
RefinementAssumption ==
    /\ Refine \cap Regenerate = {}
    /\ MaxVersion \in Nat \ {0}
    /\ MaxFails \in Nat
    /\ MaxCrashes \in Nat

VARIABLES
    head,       \* the stage row: status (stale counts as draft) and current_version
    cache,      \* the versions whose replacement the generation cache holds
    req,        \* the requests
    fails,      \* failed refund attempts so far
    crashes     \* crashes so far

vars == <<head, cache, req, fails, crashes>>

Attempts == 3       \* _refund_refine_deduction: range(3)

TypeOK ==
    /\ head \in [status : {"draft", "in_progress", "finalised"}, version : 1..MaxVersion]
    /\ cache \subseteq 1..MaxVersion
    /\ req \in [Request ->
         [at : {"none", "read", "calling", "compensate", "gaveUp", "failed", "proposed",
                "crashed", "written"},
          base : 0..MaxVersion, ledger : {"none", "charged", "refunded"},
          free : BOOLEAN, tries : 0..Attempts, wrote : 0..MaxVersion]]
    /\ fails \in 0..MaxFails
    /\ crashes \in 0..MaxCrashes

Init ==
    /\ head = [status |-> "draft", version |-> 1]
    /\ cache = {}
    /\ req = [r \in Request |-> [at |-> "none", base |-> 0, ledger |-> "none",
                                 free |-> FALSE, tries |-> 0, wrote |-> 0]]
    /\ fails = 0 /\ crashes = 0

Go(r, where) == req' = [req EXCEPT ![r].at = where]

-----------------------------------------------------------------------------
(* refine                                                                  *)

\* The text and its version are read; a cached replacement costs nothing.
RefineRead(r) ==
    /\ req[r].at = "none"
    /\ LET hit == head.version \in cache IN
         req' = [req EXCEPT ![r].base = head.version, ![r].free = hit,
                            ![r].at = IF hit THEN "proposed" ELSE "read"]
    /\ UNCHANGED <<head, cache, fails, crashes>>

\* The debit is committed before the call ...
Charge(r) ==
    /\ req[r].at = "read"
    /\ req' = [req EXCEPT ![r].ledger = "charged", ![r].at = "calling"]
    /\ UNCHANGED <<head, cache, fails, crashes>>

\* ... or there is no credit, or the commit fails, applied or not.
ChargeFails(r) ==
    /\ req[r].at = "read"
    /\ \/ Go(r, "failed")
       \/ \E ledger \in {"none", "charged"} :
            req' = [req EXCEPT ![r].ledger = ledger, ![r].at = "compensate"]
    /\ UNCHANGED <<head, cache, fails, crashes>>

\* The replacement is validated; the cache write is best effort.
Propose(r) ==
    /\ req[r].at = "calling"
    /\ Go(r, "proposed")
    /\ cache' \in {cache, cache \cup {req[r].base}}
    /\ UNCHANGED <<head, fails, crashes>>

\* Mutant: only the errors of the provider are compensated.
M_CallFails(r) ==
    /\ req[r].at = "calling"
    /\ \E to \in {"compensate", "failed"} : Go(r, to)
    /\ cache' \in {cache, cache \cup {req[r].base}}
    /\ UNCHANGED <<head, fails, crashes>>

\* Timeout, unsafe output, a client that is gone, any other exception; the last
\* may come after the cache was written.
CallFails(r) ==
    /\ req[r].at = "calling"
    /\ Go(r, "compensate")
    /\ cache' \in {cache, cache \cup {req[r].base}}
    /\ UNCHANGED <<head, fails, crashes>>

\* credit_service.refund: idempotent by ledger id, and nothing if the row is absent.
Returned(r) == IF req[r].ledger = "charged" THEN "refunded" ELSE req[r].ledger

Compensate(r) ==
    /\ req[r].at = "compensate"
    /\ req' = [req EXCEPT ![r].ledger = Returned(r), ![r].at = "failed"]
    /\ UNCHANGED <<head, cache, fails, crashes>>

NextTry(r) == IF req[r].tries + 1 < Attempts THEN "compensate" ELSE "gaveUp"

\* An attempt raises, before or after its commit.
CompensateFails(r) ==
    /\ req[r].at = "compensate"
    /\ fails < MaxFails
    /\ fails' = fails + 1
    /\ \E ledger \in {req[r].ledger, Returned(r)} :
         req' = [req EXCEPT ![r].ledger = ledger, ![r].tries = @ + 1, ![r].at = NextTry(r)]
    /\ UNCHANGED <<head, cache, crashes>>

Crash(r) ==
    /\ req[r].at \in {"read", "calling", "compensate"}
    /\ crashes < MaxCrashes
    /\ crashes' = crashes + 1
    /\ Go(r, "crashed")
    /\ UNCHANGED <<head, cache, fails>>

\* handle_content_edit with expected_version.
Acceptable(r) == head.status # "in_progress" /\ head.version = req[r].base

AcceptDiff(r) ==
    /\ req[r].at = "proposed" /\ req[r].wrote = 0
    /\ head.version < MaxVersion
    /\ Acceptable(r)
    /\ head' = [status |-> "draft", version |-> head.version + 1]
    /\ req' = [req EXCEPT ![r].wrote = head.version + 1]
    /\ UNCHANGED <<cache, fails, crashes>>

-----------------------------------------------------------------------------
(* generate_harness_patch                                                  *)

PatchRead(p) ==
    /\ req[p].at = "none"
    /\ head.status = "draft"
    /\ req' = [req EXCEPT ![p].base = head.version, ![p].at = "calling"]
    /\ UNCHANGED <<head, cache, fails, crashes>>

\* Mutant: the status is checked again, the version is not.
M_PatchFits(p) == head.status = "draft"

PatchFits(p) == head.status = "draft" /\ head.version = req[p].base

\* Debit, merge and save in one transaction.
PatchSave(p) ==
    /\ req[p].at = "calling"
    /\ PatchFits(p)
    /\ head.version < MaxVersion
    /\ head' = [head EXCEPT !.version = @ + 1]
    /\ req' = [req EXCEPT ![p].ledger = "charged", ![p].at = "written",
                          ![p].wrote = head.version + 1]
    /\ UNCHANGED <<cache, fails, crashes>>

\* The stage moved, the balance is short, nothing new was merged, the text is
\* unsafe, the stream broke: everything is rolled back.
PatchFails(p) ==
    /\ req[p].at = "calling"
    /\ Go(p, "failed")
    /\ UNCHANGED <<head, cache, fails, crashes>>

-----------------------------------------------------------------------------
(* What else happens to the stage.                                         *)

HeadMoves ==
    /\ \/ head.status = "draft" /\ head' = [head EXCEPT !.status = "in_progress"]
       \/ head.status = "draft" /\ head' = [head EXCEPT !.status = "finalised"]
       \/ head.status # "draft" /\ head' = [head EXCEPT !.status = "draft"]
       \/ /\ head.version < MaxVersion
          /\ head' = [status |-> "draft", version |-> head.version + 1]
    /\ UNCHANGED <<cache, req, fails, crashes>>

RefineStep(r) ==
    \/ RefineRead(r) \/ Charge(r) \/ ChargeFails(r) \/ Propose(r) \/ CallFails(r)
    \/ Compensate(r) \/ CompensateFails(r)

Next ==
    \/ \E r \in Refine : RefineStep(r) \/ Crash(r) \/ AcceptDiff(r)
    \/ \E p \in Regenerate : PatchRead(p) \/ PatchSave(p) \/ PatchFails(p)
    \/ HeadMoves

Spec == Init /\ [][Next]_vars

\* A request that is at work goes on: its provider call is bounded by a timeout.
FairSpec == Spec /\ \A r \in Refine : WF_vars(RefineStep(r))

-----------------------------------------------------------------------------
(***************************************************************************)
(* No edit is lost: a proposal or a patch that became the new version was  *)
(* computed from the version it replaces, although both spend minutes in a *)
(* provider call, and a proposal minutes more with its reader.             *)
(***************************************************************************)
NoLostEdit ==
    \A r \in Request : req[r].wrote # 0 => req[r].wrote = req[r].base + 1

(***************************************************************************)
(* Nobody pays for nothing and nobody is served for nothing: a request     *)
(* that ended holds a debit exactly if it delivered, unless its process    *)
(* died or three attempts to return the debit failed, and a proposal is    *)
(* free only if the cache answered.                                        *)
(***************************************************************************)
PaidIffServed ==
    \A r \in Request :
        /\ req[r].at = "failed" => req[r].ledger # "charged"
        /\ req[r].at \in {"proposed", "written"} =>
              (req[r].ledger = "charged") = ~req[r].free
        /\ req[r].at = "gaveUp" => req[r].tries = Attempts

(***************************************************************************)
(* A debit does not stay open: as long as its process lives and fewer than *)
(* three attempts fail, it ends as a proposal or is returned.              *)
(***************************************************************************)
DebitSettles ==
    \A r \in Refine :
        (req[r].ledger = "charged") ~> (req[r].at = "proposed" \/ req[r].ledger = "refunded")

=============================================================================
