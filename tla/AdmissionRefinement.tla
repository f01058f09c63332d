------------------------- MODULE AdmissionRefinement ------------------------
(***************************************************************************)
(* AdmissionAuthority implements AdmissionModel.                           *)
(*                                                                         *)
(* A new child is admitted when its ledger row becomes durable, a resumed  *)
(* one when its lease is inserted.  Closing takes effect when no           *)
(* acquisition that passed assertOpen is in the section any more: those    *)
(* still complete.  A crash is a restart.                                  *)
(***************************************************************************)
EXTENDS AdmissionAuthority

(* Past assertOpen and not yet over.                                       *)
InFlight ==
  \/ stage \in {"guard", "resolve", "reserve", "put", "committed"}
  \/ result = "permit"

(* The durable reservation that has no lease yet.                          *)
Reserved == IF stage = "committed" THEN {Head(serial).call} ELSE {}

AbstractPermit(id, call, child) ==
  [permitId |-> issuedBefore + id, rootId |-> RootOfCall(call),
   parentId |-> ParentOf[call], operation |-> Operation[call], childId |-> child]

AbstractPermits ==
  {AbstractPermit(l.permitId, l.call,
     IF status[l.call] = "granted" THEN l.childSessionId ELSE NoChild) : l \in leases}
  \cup {AbstractPermit(permitCounter, call, NoChild) : call \in Reserved}

Model == INSTANCE AdmissionModel WITH
  SeedTotals <- Nat,
  MaxPermits <- Cardinality(Calls) * (MaxCrashes + 1),
  lifecycle <- IF admissionClosed /\ ~InFlight THEN "draining" ELSE "open",
  globalActive <- Cardinality(leases) + Cardinality(Reserved),
  rootActive <- [root \in Roots |-> activeByRoot[root]
                   + Cardinality({call \in Reserved : RootOfCall(call) = root})],
  rootAdmittedTotal <- [root \in Roots |-> ledger[root].admittedTotal],
  parentChildren <- [parent \in Parents |->
                       ledger[RootOf[parent]].admittedChildrenByParent[parent]],
  permits <- AbstractPermits,
  permitCounter <- issuedBefore + permitCounter + Cardinality(Reserved)

(* Every step of the authority is one transition of the state model, or    *)
(* changes nothing the model speaks of: admissions are charged once, on    *)
(* the durable write; denials, aborts, failed reads and failed writes are  *)
(* invisible; a crash loses the permits and nothing else                   *)
(* (docs/architecture.md:184).                                             *)
ImplementsModel == Model!Spec

(* Whenever the row could be read, what an operation ends with is what the *)
(* state model would have answered in that very state, code for code: the  *)
(* checks split between the ledger and the registry keep the order total,  *)
(* parent, root, global (state-model.ts:213-278 against ledger.ts:145-160  *)
(* and leases.ts:101), and a write that fails is the model's failed write, *)
(* for the checks before it would all still pass.  A row that cannot be    *)
(* read (ledger.ts:205-211) is outside the model: ADMISSION_STATE_IO comes *)
(* before any limit, where the model might name one.                       *)
VerdictsAgree ==
  [][\A call \in Calls :
       /\ At("acquire", call, "reserve") /\ stage' = "put" =>
            Model!NewAdmissionVerdict(RootOfCall(call), ParentOf[call], FALSE) = "accepted"
       /\ At("acquire", call, "reserve") /\ result' \in LimitCodes =>
            Model!NewAdmissionVerdict(RootOfCall(call), ParentOf[call], FALSE) = result'
       /\ At("acquire", call, "put") /\ stage' = "finished" =>
            Model!NewAdmissionVerdict(RootOfCall(call), ParentOf[call], TRUE) = result'
       /\ At("acquire", call, "resolve") /\ result' \in LimitCodes =>
            Model!ColdResumeVerdict(RootOfCall(call)) = result']_vars
=============================================================================
