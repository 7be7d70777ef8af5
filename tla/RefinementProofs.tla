-------------------------- MODULE RefinementProofs --------------------------
(***************************************************************************)
(* Proofs about Refinement, for any number of requests and any bounds: the *)
(* type invariant, that no accepted proposal or patch loses an edit, and   *)
(* that a request that ended holds a debit exactly if it delivered.        *)
(***************************************************************************)
EXTENDS Refinement, TLAPS

-----------------------------------------------------------------------------
(* The inductive invariant.  What a request may hold depends on where it   *)
(* is, and the two kinds charge on opposite sides of the provider call.    *)

Untouched(r) ==
    req[r].at = "none" =>
        /\ req[r].ledger = "none" /\ req[r].free = FALSE /\ req[r].wrote = 0

Based(r) == req[r].at # "none" => req[r].base \in 1..MaxVersion

BeforeCharge(r) ==
    req[r].at = "read" => req[r].ledger = "none" /\ req[r].free = FALSE

\* During the call a refinement is already charged and a patch is not.
DuringCall(r) ==
    req[r].at = "calling" =>
        /\ req[r].free = FALSE
        /\ r \in Refine => req[r].ledger = "charged"
        /\ r \in Regenerate => req[r].ledger = "none" /\ req[r].wrote = 0

Delivered(r) ==
    /\ req[r].at = "failed" => req[r].ledger # "charged"
    /\ req[r].at \in {"proposed", "written"} => (req[r].ledger = "charged") = ~req[r].free

Attempted(r) ==
    IF req[r].at = "gaveUp" THEN req[r].tries = Attempts ELSE req[r].tries < Attempts

Consecutive(r) == req[r].wrote # 0 => req[r].wrote = req[r].base + 1

Held(r) ==
    /\ Untouched(r) /\ Based(r) /\ BeforeCharge(r) /\ DuringCall(r)
    /\ Delivered(r) /\ Attempted(r) /\ Consecutive(r)

Inv == TypeOK /\ \A r \in Request : Held(r)

-----------------------------------------------------------------------------

(***************************************************************************)
(* The initial state satisfies the invariant: no request has begun.        *)
(***************************************************************************)
LEMMA InitInv == ASSUME RefinementAssumption PROVE Init => Inv
<1> SUFFICES ASSUME Init PROVE Inv
  OBVIOUS
<1>1. TypeOK
  BY DEF RefinementAssumption, Init, TypeOK, Attempts
<1>2. ASSUME NEW r \in Request PROVE Held(r)
  BY DEF Init, Held, Untouched, Based, BeforeCharge, DuringCall, Delivered, Attempted,
         Consecutive, Attempts
<1> QED
  BY <1>1, <1>2 DEF Inv

\* What a request record is.
RequestRecord ==
    [at : {"none", "read", "calling", "compensate", "gaveUp", "failed", "proposed",
           "crashed", "written"},
     base : 0..MaxVersion, ledger : {"none", "charged", "refunded"},
     free : BOOLEAN, tries : 0..Attempts, wrote : 0..MaxVersion]

(***************************************************************************)
(* A step of one request leaves the others alone: to show the invariant    *)
(* after it, the types and what is held by that request are enough.        *)
(***************************************************************************)
LEMMA OneRequestMoves ==
    ASSUME Inv, NEW r \in Request,
           \E new \in RequestRecord : req' = [req EXCEPT ![r] = new],
           Held(r)',
           head' \in [status : {"draft", "in_progress", "finalised"}, version : 1..MaxVersion],
           cache' \subseteq 1..MaxVersion, fails' \in 0..MaxFails, crashes' \in 0..MaxCrashes
    PROVE  Inv'
<1>1. TypeOK'
  BY DEF Inv, TypeOK, RequestRecord
<1>2. ASSUME NEW s \in Request, s # r PROVE Held(s)'
  <2>1. req'[s] = req[s]
    BY <1>2 DEF Inv, TypeOK
  <2>2. Held(s)
    BY DEF Inv
  <2> QED
    BY <2>1, <2>2 DEF Held, Untouched, Based, BeforeCharge, DuringCall, Delivered,
                      Attempted, Consecutive
<1> QED
  BY <1>1, <1>2 DEF Inv

(***************************************************************************)
(* Every step keeps the invariant: what a request does ...                 *)
(***************************************************************************)
LEMMA RefinementMoves ==
    ASSUME RefinementAssumption, Inv, NEW r \in Refine,
           RefineStep(r) \/ Crash(r) \/ AcceptDiff(r)
    PROVE  Inv'
<1> USE RefinementAssumption DEF RefinementAssumption, Attempts
<1>1. r \in Request /\ r \notin Regenerate /\ Held(r) /\ TypeOK /\ req[r] \in RequestRecord
  BY DEF Inv, TypeOK, Request, RequestRecord
<1>0. head.version \in 0..MaxVersion
  BY DEF Inv, TypeOK
<1> USE DEF Held, Untouched, Based, BeforeCharge, DuringCall, Delivered, Attempted,
            Consecutive, TypeOK, RequestRecord
<1>2. CASE RefineRead(r)
  <2>1. \E new \in RequestRecord : req' = [req EXCEPT ![r] = new]
    <3>1. CASE head.version \in cache
      <4>1. [req[r] EXCEPT !.base = head.version, !.free = TRUE, !.at = "proposed"]
              \in RequestRecord
        BY <1>0, <1>1
      <4> QED
        BY <1>1, <1>2, <3>1, <4>1 DEF RefineRead
    <3>2. CASE head.version \notin cache
      <4>1. [req[r] EXCEPT !.base = head.version, !.free = FALSE, !.at = "read"]
              \in RequestRecord
        BY <1>0, <1>1
      <4>2. (head.version \in cache) = FALSE
        BY <3>2
      <4>3. req' = [req EXCEPT ![r] =
                      [req[r] EXCEPT !.base = head.version, !.free = FALSE, !.at = "read"]]
        BY ONLY <1>2, <4>2, <3>2 DEF RefineRead
      <4> QED
        BY <4>1, <4>3
    <3> QED
      BY <3>1, <3>2
  <2>2. Held(r)'
    BY <1>1, <1>2 DEF RefineRead, Go
  <2>3. TypeOK'
    BY <1>1, <1>2 DEF RefineRead, Go
  <2> QED
    BY <1>1, <2>1, <2>2, <2>3, OneRequestMoves
<1>3. CASE Charge(r)
  <2>1. \E new \in RequestRecord : req' = [req EXCEPT ![r] = new]
    BY <1>1, <1>3 DEF Charge, Go
  <2>2. Held(r)'
    BY <1>1, <1>3 DEF Charge, Go
  <2>3. TypeOK'
    BY <1>1, <1>3 DEF Charge, Go
  <2> QED
    BY <1>1, <2>1, <2>2, <2>3, OneRequestMoves
<1>4. CASE ChargeFails(r)
  <2>1. \E new \in RequestRecord : req' = [req EXCEPT ![r] = new]
    BY <1>1, <1>4 DEF ChargeFails, Go
  <2>2. Held(r)'
    BY <1>1, <1>4 DEF ChargeFails, Go
  <2>3. TypeOK'
    BY <1>1, <1>4 DEF ChargeFails, Go
  <2> QED
    BY <1>1, <2>1, <2>2, <2>3, OneRequestMoves
<1>5. CASE Propose(r)
  <2>1. \E new \in RequestRecord : req' = [req EXCEPT ![r] = new]
    BY <1>1, <1>5 DEF Propose, Go
  <2>2. Held(r)'
    BY <1>1, <1>5 DEF Propose, Go
  <2>3. TypeOK'
    BY <1>1, <1>5 DEF Propose, Go
  <2> QED
    BY <1>1, <2>1, <2>2, <2>3, OneRequestMoves
<1>6. CASE CallFails(r)
  <2>1. \E new \in RequestRecord : req' = [req EXCEPT ![r] = new]
    BY <1>1, <1>6 DEF CallFails, Go
  <2>2. Held(r)'
    BY <1>1, <1>6 DEF CallFails, Go
  <2>3. TypeOK'
    BY <1>1, <1>6 DEF CallFails, Go
  <2> QED
    BY <1>1, <2>1, <2>2, <2>3, OneRequestMoves
<1>7. CASE Compensate(r)
  <2>1. \E new \in RequestRecord : req' = [req EXCEPT ![r] = new]
    BY <1>1, <1>7 DEF Compensate, Go, Returned
  <2>2. Held(r)'
    BY <1>1, <1>7 DEF Compensate, Go, Returned
  <2>3. TypeOK'
    BY <1>1, <1>7 DEF Compensate, Go, Returned
  <2> QED
    BY <1>1, <2>1, <2>2, <2>3, OneRequestMoves
<1>8. CASE CompensateFails(r)
  <2>1. \E new \in RequestRecord : req' = [req EXCEPT ![r] = new]
    BY <1>1, <1>8 DEF CompensateFails, Go, Returned, NextTry
  <2>2. Held(r)'
    BY <1>1, <1>8 DEF CompensateFails, Go, Returned, NextTry
  <2>3. TypeOK'
    BY <1>1, <1>8 DEF CompensateFails, Go, Returned, NextTry
  <2> QED
    BY <1>1, <2>1, <2>2, <2>3, OneRequestMoves
<1>9. CASE Crash(r)
  <2>1. \E new \in RequestRecord : req' = [req EXCEPT ![r] = new]
    BY <1>1, <1>9 DEF Crash, Go
  <2>2. Held(r)'
    BY <1>1, <1>9 DEF Crash, Go
  <2>3. TypeOK'
    BY <1>1, <1>9 DEF Crash, Go
  <2> QED
    BY <1>1, <2>1, <2>2, <2>3, OneRequestMoves
<1>10. CASE AcceptDiff(r)
  <2>1. \E new \in RequestRecord : req' = [req EXCEPT ![r] = new]
    <3>1. [req[r] EXCEPT !.wrote = head.version + 1] \in RequestRecord
      BY <1>1, <1>10 DEF AcceptDiff
    <3> QED
      BY <1>1, <1>10, <3>1 DEF AcceptDiff
  <2>2. Held(r)'
    BY <1>1, <1>10 DEF AcceptDiff, Go, Acceptable
  <2>3. TypeOK'
    BY <1>1, <1>10 DEF AcceptDiff, Go, Acceptable
  <2> QED
    BY <1>1, <2>1, <2>2, <2>3, OneRequestMoves
<1> QED
  BY <1>2, <1>3, <1>4, <1>5, <1>6, <1>7, <1>8, <1>9, <1>10 DEF RefineStep

(***************************************************************************)
(* ... what a patch does, ...                                              *)
(***************************************************************************)
LEMMA PatchMoves ==
    ASSUME RefinementAssumption, Inv, NEW p \in Regenerate,
           PatchRead(p) \/ PatchSave(p) \/ PatchFails(p)
    PROVE  Inv'
<1> USE RefinementAssumption DEF RefinementAssumption, Attempts
<1>1. p \in Request /\ p \notin Refine /\ Held(p) /\ TypeOK /\ req[p] \in RequestRecord
  BY DEF Inv, TypeOK, Request, RequestRecord
<1>0. head.version \in 0..MaxVersion
  BY DEF Inv, TypeOK
<1> USE DEF Held, Untouched, Based, BeforeCharge, DuringCall, Delivered, Attempted,
            Consecutive, TypeOK, RequestRecord
<1>2. CASE PatchRead(p)
  <2>1. \E new \in RequestRecord : req' = [req EXCEPT ![p] = new]
    <3>1. [req[p] EXCEPT !.base = head.version, !.at = "calling"] \in RequestRecord
      BY <1>0, <1>1
    <3> QED
      BY <1>1, <1>2, <3>1 DEF PatchRead
  <2>2. Held(p)'
    BY <1>1, <1>2 DEF PatchRead
  <2>3. TypeOK'
    BY <1>1, <1>2 DEF PatchRead
  <2> QED
    BY <1>1, <2>1, <2>2, <2>3, OneRequestMoves
<1>3. CASE PatchSave(p)
  <2>1. \E new \in RequestRecord : req' = [req EXCEPT ![p] = new]
    <3>1. [req[p] EXCEPT !.ledger = "charged", !.at = "written", !.wrote = head.version + 1]
            \in RequestRecord
      BY <1>1, <1>3 DEF PatchSave
    <3> QED
      BY <1>1, <1>3, <3>1 DEF PatchSave
  <2>2. Held(p)'
    BY <1>1, <1>3 DEF PatchSave, PatchFits
  <2>3. TypeOK'
    BY <1>1, <1>3 DEF PatchSave, PatchFits
  <2> QED
    BY <1>1, <2>1, <2>2, <2>3, OneRequestMoves
<1>4. CASE PatchFails(p)
  <2>1. \E new \in RequestRecord : req' = [req EXCEPT ![p] = new]
    BY <1>1, <1>4 DEF PatchFails, Go
  <2>2. Held(p)'
    BY <1>1, <1>4 DEF PatchFails, Go
  <2>3. TypeOK'
    BY <1>1, <1>4 DEF PatchFails, Go
  <2> QED
    BY <1>1, <2>1, <2>2, <2>3, OneRequestMoves
<1> QED
  BY <1>2, <1>3, <1>4

(***************************************************************************)
(* ... and what happens to the stage meanwhile.                            *)
(***************************************************************************)
LEMMA StepInv == ASSUME RefinementAssumption PROVE Inv /\ [Next]_vars => Inv'
<1> SUFFICES ASSUME Inv, [Next]_vars PROVE Inv'
  OBVIOUS
<1>1. CASE UNCHANGED vars
  BY <1>1 DEF vars, Inv, TypeOK, Held, Untouched, Based, BeforeCharge, DuringCall,
              Delivered, Attempted, Consecutive
<1>2. CASE HeadMoves
  <2>1. UNCHANGED <<cache, req, fails, crashes>>
    BY <1>2 DEF HeadMoves
  <2>2. TypeOK'
    BY <1>2, <2>1, RefinementAssumption DEF Inv, TypeOK, HeadMoves, RefinementAssumption
  <2> QED
    BY <2>1, <2>2 DEF Inv, Held, Untouched, Based, BeforeCharge, DuringCall, Delivered,
                      Attempted, Consecutive
<1> QED
  BY <1>1, <1>2, RefinementMoves, PatchMoves, RefinementAssumption DEF Next

-----------------------------------------------------------------------------
(***************************************************************************)
(* Requests, stage and counters have their shapes, and the bounds hold.    *)
(***************************************************************************)
THEOREM RefinementTypes == ASSUME RefinementAssumption PROVE Spec => []TypeOK
<1>1. Inv => TypeOK
  BY DEF Inv
<1> QED
  BY <1>1, InitInv, StepInv, RefinementAssumption, PTL DEF Spec

(***************************************************************************)
(* Whatever refinements, patches and other writers do to one stage at the  *)
(* same time, a proposal or patch that became the new version was computed *)
(* from the version it replaced (handle_content_edit with expected_version *)
(* and the second look of generate_harness_patch).                         *)
(***************************************************************************)
THEOREM EditsKept == ASSUME RefinementAssumption PROVE Spec => []NoLostEdit
<1>1. Inv => NoLostEdit
  BY DEF Inv, NoLostEdit, Held, Consecutive
<1> QED
  BY <1>1, InitInv, StepInv, RefinementAssumption, PTL DEF Spec

(***************************************************************************)
(* A request that ended holds a debit exactly if it delivered, unless its  *)
(* process died or three attempts to return the debit failed (refine with  *)
(* _refund_refine_deduction, and the single transaction of the patch).     *)
(***************************************************************************)
THEOREM RequestsPaid == ASSUME RefinementAssumption PROVE Spec => []PaidIffServed
<1>1. Inv => PaidIffServed
  BY DEF Inv, PaidIffServed, Held, Delivered, Attempted
<1> QED
  BY <1>1, InitInv, StepInv, RefinementAssumption, PTL DEF Spec

=============================================================================
