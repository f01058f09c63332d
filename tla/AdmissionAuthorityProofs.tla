----------------------- MODULE AdmissionAuthorityProofs -----------------------
(***************************************************************************)
(* The admission authority, for any number of calls, roots and children:   *)
(* its registry is coherent and within the active limits, no lease is left *)
(* without an owner, and a drained authority is quiet.  The inductive      *)
(* invariant ties the section's queue to the state of the calls, and the   *)
(* leases to both; leases are counted by the calls that hold them.         *)
(*                                                                         *)
(* And it implements AdmissionModel, step by step, where the id of a new   *)
(* child is its own.                                                       *)
(***************************************************************************)
EXTENDS AdmissionRefinement, FunctionTheorems, FiniteSetTheorems, SequenceTheorems, TLAPS

HasLease(call) == \E l \in leases : l.call = call

(* The running operation is over, and is about to leave the section.       *)
Over(i) == i = 1 /\ stage = "settled"

(* What a job in the section tells of its call.                            *)
JobState(i) ==
  /\ serial[i].kind = "acquire" =>
       IF Over(i) THEN status[serial[i].call] \notin {"idle", "queued"}
                  ELSE status[serial[i].call] = "queued"
  /\ serial[i].kind = "release" =>
       /\ status[serial[i].call] = "granted" /\ releaseStarted[serial[i].call]
       /\ ~Over(i) => HasLease(serial[i].call)

QueueState ==
  /\ \A i \in 1..Len(serial) : JobState(i)
  /\ \A i, j \in 1..Len(serial) : serial[i] = serial[j] => i = j
  /\ stage # "start" => serial # <<>>
  /\ stage \notin {"start", "settled"} => serial[1].kind = "acquire"
  /\ stage \notin {"finished", "settled"} => result = "none"
  /\ stage = "finished" => result # "none"
  /\ stage = "finished" /\ result = "permit" => HasLease(serial[1].call)

CallState(call) ==
  /\ status[call] = "granted" /\ ~releaseStarted[call] => HasLease(call)
  /\ releaseStarted[call] => status[call] = "granted"

(* A lease is of one call, which was granted it or is about to be.         *)
Delivering(call) ==
  /\ status[call] = "queued" /\ serial # <<>>
  /\ serial[1] = [kind |-> "acquire", call |-> call]
  /\ stage = "finished" /\ result = "permit"

LeaseState ==
  /\ \A l, m \in leases : l.call = m.call => l = m
  /\ \A l \in leases : status[l.call] = "granted" \/ Delivering(l.call)
  /\ \A l \in leases : l.phase = "draining" <=> admissionClosed

ClaimState ==
  \A child \in Children, call \in Calls :
    childClaims[child] = call <=> \E l \in leases : l.call = call /\ child \in OwnedBy(l)

Holders == {call \in Calls : HasLease(call)}
HoldersOf(root) == {call \in Holders : RootOfCall(call) = root}

(* What was decided before the write of the ledger still holds after it.   *)
CountState ==
  /\ \A root \in Roots : activeByRoot[root] = Cardinality(HoldersOf(root))
  /\ \A root \in Roots : activeByRoot[root] <= Limits.perRootActive
  /\ Cardinality(Holders) <= Limits.globalActive
  /\ stage \in {"put", "committed"} =>
       /\ activeByRoot[RootOfCall(serial[1].call)] < Limits.perRootActive
       /\ Cardinality(Holders) < Limits.globalActive

DrainState ==
  /\ drain # "none" => admissionClosed
  /\ drain = "idling" =>
       \A i \in 1..Len(serial) : i > barrier => serial[i].kind = "release"
  /\ drain \in {"emptying", "drained"} =>
       \A i \in 1..Len(serial) : serial[i].kind = "release"
  /\ drain = "drained" => leases = {}

IInv ==
  /\ TypeOK /\ QueueState /\ (\A call \in Calls : CallState(call))
  /\ LeaseState /\ ClaimState /\ CountState /\ DrainState

-----------------------------------------------------------------------------
(* Types.                                                                  *)
LEMMA RunningJob ==
  ASSUME TypeOK, NEW kind, NEW call, NEW where, At(kind, call, where)
  PROVE  /\ stage = where /\ Len(serial) \in Nat \ {0}
         /\ serial[1] = [kind |-> kind, call |-> call]
         /\ serial[1].kind = kind /\ serial[1].call = call
         /\ Tail(serial) \in Seq(Jobs)
<1>1. serial \in Seq(Jobs) /\ serial # <<>> /\ Head(serial) = [kind |-> kind, call |-> call]
  BY DEF At, TypeOK
<1>2. Len(serial) \in Nat \ {0} /\ Head(serial) = serial[1] /\ Tail(serial) \in Seq(Jobs)
  BY <1>1
<1> QED
  BY <1>1, <1>2 DEF At

LEMMA JobTypes ==
  ASSUME TypeOK, NEW i \in 1..Len(serial)
  PROVE  serial[i] \in Jobs /\ serial[i].call \in Calls
         /\ serial[i].kind \in {"acquire", "release"}
         /\ serial[i] = [kind |-> serial[i].kind, call |-> serial[i].call]
<1>1. serial[i] \in Jobs
  BY DEF TypeOK
<1> QED
  BY <1>1 DEF Jobs

LEMMA CallTypes ==
  ASSUME TypeOK, NEW call \in Calls,
         AcquireClosed(call) \/ Acquire(call) \/ Abort(call) \/ Release(call)
  PROVE  TypeOK'
<1> USE DEF TypeOK, callVars, sectionVars, drainVars, registryVars, durableVars, Codes
<1>1. CASE AcquireClosed(call)
  BY <1>1 DEF AcquireClosed
<1>2. CASE Acquire(call)
  BY <1>2 DEF Acquire, Jobs
<1>3. CASE Abort(call)
  BY <1>3 DEF Abort
<1>4. CASE Release(call)
  BY <1>4 DEF Release, Jobs
<1> QED
  BY <1>1, <1>2, <1>3, <1>4

LEMMA DrainingTypes ==
  ASSUME leases \subseteq Lease
  PROVE  Draining(leases) \subseteq Lease
BY DEF Draining, Lease

LEMMA ClosingTypes ==
  ASSUME TypeOK, CloseAdmission \/ Drain \/ SectionIdle
  PROVE  TypeOK'
<1> USE DEF TypeOK, callVars, sectionVars, drainVars, registryVars, durableVars
<1>1. CASE CloseAdmission
  BY <1>1, DrainingTypes DEF CloseAdmission
<1>2. CASE Drain
  BY <1>2, DrainingTypes DEF Drain, ChainTail
<1>3. CASE SectionIdle
  BY <1>3 DEF SectionIdle
<1> QED
  BY <1>1, <1>2, <1>3

LEMMA BindTypes ==
  ASSUME TypeOK, NEW call \in Calls, NEW child \in Children, BindChild(call, child)
  PROVE  TypeOK'
<1> USE DEF TypeOK, callVars, sectionVars, drainVars, durableVars
<1>1. leases' \subseteq Lease
  BY DEF BindChild, Lease
<1>2. /\ lineage' \in [Children -> Parents \cup {Nobody}]
      /\ childClaims' \in [Children -> Calls \cup {Nobody}]
  BY CallsAssumption DEF BindChild
<1> QED
  BY <1>1, <1>2 DEF BindChild

LEMMA InsertTypes ==
  ASSUME TypeOK, NEW call \in Calls, Insert(call)
  PROVE  /\ leases' \subseteq Lease /\ activeByRoot' \in [Roots -> Nat]
         /\ childClaims' \in [Children -> Calls \cup {Nobody}] /\ permitCounter' \in Nat
<1>1. RootOfCall(call) \in Roots /\ ChildOf[call] \in Children \cup {NoChild}
  BY CallsAssumption DEF RootOfCall
<1> QED
  BY <1>1 DEF Insert, TypeOK, Lease

LEMMA ChargeTypes ==
  ASSUME TypeOK, NEW call \in Calls, Charge(call)
  PROVE  ledger' \in [Roots -> LedgerRow] /\ charged' \subseteq Calls
<1>1. RootOfCall(call) \in Roots /\ ParentOf[call] \in Parents
  BY CallsAssumption DEF RootOfCall
<1>2. ledger[RootOfCall(call)] \in LedgerRow
  BY <1>1 DEF TypeOK
<1> DEFINE row == ledger[RootOfCall(call)]
           children == [row.admittedChildrenByParent EXCEPT ![ParentOf[call]] = @ + 1]
           charge == [row EXCEPT !.admittedTotal = @ + 1, !.admittedChildrenByParent = children]
<1>3. children \in [Parents -> Nat] /\ row.admittedTotal + 1 \in Nat
  BY <1>1, <1>2 DEF LedgerRow
<1>4. charge \in LedgerRow
  BY <1>2, <1>3 DEF LedgerRow
<1>5. ledger' = [ledger EXCEPT ![RootOfCall(call)] = charge]
  BY <1>1, <1>2 DEF Charge, LedgerRow
<1> QED
  BY <1>1, <1>4, <1>5 DEF Charge, TypeOK

LEMMA SectionTypes ==
  ASSUME TypeOK, NEW call \in Calls,
         \/ EnterSection(call) \/ GuardAnswers(call) \/ ResolveFails(call)
         \/ ResolveMeetsClaim(call) \/ ResolveAnswersNew(call) \/ ReserveNew(call)
         \/ PutFails(call) \/ Deliver(call),
         stage = "finished" => result # "none"
  PROVE  TypeOK'
<1> USE DEF TypeOK, callVars, sectionVars, drainVars, registryVars, durableVars,
            Elsewhere, NoEffect, Goto, Finish, Stages, Outcomes, Codes, LimitCodes
<1>1. CASE EnterSection(call)
  BY <1>1 DEF EnterSection, EntryVerdict
<1>2. CASE GuardAnswers(call) \/ ResolveFails(call) \/ ResolveMeetsClaim(call)
  BY <1>2 DEF GuardAnswers, ResolveFails, ResolveMeetsClaim
<1>3. CASE ResolveAnswersNew(call) \/ PutFails(call)
  BY <1>3 DEF ResolveAnswersNew, PutFails
<1>4. CASE ReserveNew(call)
  BY <1>4 DEF ReserveNew, ReserveVerdict, ActiveCapacity
<1>5. CASE Deliver(call)
  <2>1. result # "none" => Settlement(call) \in {"granted", "aborted"} \cup Codes
    BY DEF Settlement
  <2> QED
    BY <1>5, <2>1, RunningJob DEF Deliver
<1> QED
  BY <1>1, <1>2, <1>3, <1>4, <1>5

LEMMA RegistryTypes ==
  ASSUME TypeOK, NEW call \in Calls,
         \/ ResolveAnswersResume(call) \/ PutCommits(call) \/ InsertCommitted(call)
         \/ InsertConflicts(call)
  PROVE  TypeOK'
<1> USE DEF TypeOK, callVars, sectionVars, drainVars, registryVars, durableVars,
            Elsewhere, Goto, Finish, Stages, Outcomes, Codes, LimitCodes
<1>1. CASE ResolveAnswersResume(call)
  <2>1. CASE Insert(call) /\ Finish("permit")
    BY <1>1, <2>1, InsertTypes DEF ResolveAnswersResume
  <2>2. CASE /\ ActiveCapacity(RootOfCall(call)) # "accepted"
             /\ Finish(ActiveCapacity(RootOfCall(call))) /\ UNCHANGED registryVars
    BY <1>1, <2>2 DEF ResolveAnswersResume, ActiveCapacity
  <2> QED
    BY <1>1, <2>1, <2>2 DEF ResolveAnswersResume
<1>2. CASE PutCommits(call)
  BY <1>2, ChargeTypes DEF PutCommits
<1>3. CASE InsertCommitted(call)
  BY <1>3, InsertTypes DEF InsertCommitted
<1>4. CASE InsertConflicts(call)
  BY <1>4, DrainingTypes DEF InsertConflicts
<1> QED
  BY <1>1, <1>2, <1>3, <1>4

LEMMA AdvanceTypes ==
  ASSUME TypeOK, serial # <<>>, Advance
  PROVE  TypeOK'
<1>1. Tail(serial) \in Seq(Jobs)
  BY DEF TypeOK
<1>2. CountDown(barrier) \in Nat
  BY DEF TypeOK, CountDown
<1> QED
  BY <1>1, <1>2 DEF Advance, Pop, TypeOK, callVars, drainVars, registryVars, durableVars,
              Stages, Outcomes

LEMMA CrashTypes ==
  ASSUME TypeOK, Crash
  PROVE  TypeOK'
<1>1. issuedBefore' \in Nat /\ crashes' \in Nat
  BY DEF Crash, TypeOK
<1>2. serial' \in Seq(Jobs) /\ stage' \in Stages /\ result' \in Outcomes
  BY DEF Crash, Stages, Outcomes
<1> QED
  BY <1>1, <1>2 DEF Crash, TypeOK, OnCalls, NoOwner, Recovered

-----------------------------------------------------------------------------
(* Counting the leases by the calls that hold them.                        *)
LEMMA HoldersFinite ==
  /\ IsFiniteSet(Holders)
  /\ \A root : IsFiniteSet(HoldersOf(root)) /\ HoldersOf(root) \subseteq Holders
BY CallsAssumption, FS_Subset DEF Holders, HoldersOf

LEMMA HoldersCount ==
  ASSUME NEW some \in SUBSET leases, leases \subseteq Lease,
         \A l, m \in leases : l.call = m.call => l = m
  PROVE  /\ IsFiniteSet(some)
         /\ Cardinality(some) = Cardinality({c \in Calls : \E l \in some : l.call = c})
<1> DEFINE held == {c \in Calls : \E l \in some : l.call = c}
           f == [l \in some |-> l.call]
<1>1. IsFiniteSet(held)
  BY CallsAssumption, FS_Subset
<1>2. f \in Bijection(some, held)
  <2>1. \A l \in some : l.call \in Calls
    BY DEF Lease
  <2>2. f \in [some -> held]
    BY <2>1
  <2>3. \A c \in held : \E l \in some : f[l] = c
    OBVIOUS
  <2>4. \A l, m \in some : f[l] = f[m] => l = m
    OBVIOUS
  <2> QED
    BY <2>2, <2>3, <2>4 DEF Bijection, Injection, Surjection, IsInjective
<1>3. ExistsBijection(some, held) /\ ExistsBijection(held, some)
  BY <1>2, Fun_ExistsBijSymmetric DEF ExistsBijection
<1> QED
  BY <1>1, <1>3, FS_Bijection

LEMMA CountedLeases ==
  ASSUME TypeOK, LeaseState
  PROVE  /\ IsFiniteSet(leases) /\ Cardinality(leases) = Cardinality(Holders)
         /\ \A root \in Roots : Cardinality(LeasesOf(root)) = Cardinality(HoldersOf(root))
<1>1. leases \subseteq Lease /\ \A l, m \in leases : l.call = m.call => l = m
  BY DEF TypeOK, LeaseState
<1>2. Holders = {c \in Calls : \E l \in leases : l.call = c}
  BY DEF Holders, HasLease
<1>3. IsFiniteSet(leases) /\ Cardinality(leases) = Cardinality(Holders)
  BY <1>1, <1>2, HoldersCount
<1>4. ASSUME NEW root \in Roots
      PROVE  Cardinality(LeasesOf(root)) = Cardinality(HoldersOf(root))
  <2>1. LeasesOf(root) \in SUBSET leases
    BY DEF LeasesOf
  <2>2. HoldersOf(root) = {c \in Calls : \E l \in LeasesOf(root) : l.call = c}
    BY DEF HoldersOf, Holders, HasLease, LeasesOf
  <2> QED
    BY <1>1, <2>1, <2>2, HoldersCount
<1> QED
  BY <1>3, <1>4

LEMMA Capacity ==
  ASSUME IInv, NEW root \in Roots, ActiveCapacity(root) = "accepted"
  PROVE  activeByRoot[root] < Limits.perRootActive /\ Cardinality(Holders) < Limits.globalActive
<1>1. ~(activeByRoot[root] >= Limits.perRootActive) /\ ~(Cardinality(leases) >= Limits.globalActive)
  BY DEF ActiveCapacity
<1>2. Cardinality(leases) = Cardinality(Holders) /\ Cardinality(Holders) \in Nat
  BY CountedLeases, HoldersFinite, FS_CardinalityType DEF IInv
<1>3. activeByRoot[root] \in Nat /\ Limits.perRootActive \in Nat /\ Limits.globalActive \in Nat
  BY LimitsAssumption DEF LimitsCoherent, IInv, TypeOK
<1> QED
  BY <1>1, <1>2, <1>3

-----------------------------------------------------------------------------
(* A step of an acquisition that has no effect but where it goes.          *)
Moves(call) ==
  /\ serial # <<>> /\ serial[1] = [kind |-> "acquire", call |-> call]
  /\ stage \notin {"finished", "settled"}
  /\ UNCHANGED <<callVars, serial, drainVars, registryVars>>
  /\ \/ stage' \in {"guard", "resolve", "reserve", "put", "committed"} /\ UNCHANGED result
     \/ stage' = "finished" /\ result' \notin {"none", "permit"}
  /\ stage' \in {"put", "committed"} =>
       stage = "put" \/ ActiveCapacity(RootOfCall(call)) = "accepted"

LEMMA MovesKeep ==
  ASSUME IInv, NEW call \in Calls, Moves(call), TypeOK'
  PROVE  IInv'
<1> USE DEF callVars, drainVars, registryVars
<1>1. \A c : HasLease(c)' = HasLease(c)
  BY DEF Moves, HasLease
<1>2. QueueState'
  <2>1. \A i \in 1..Len(serial) : JobState(i)'
    BY <1>1 DEF Moves, IInv, QueueState, JobState, Over
  <2> QED
    BY <2>1 DEF Moves, IInv, QueueState
<1>3. \A c \in Calls : CallState(c)'
  BY <1>1 DEF Moves, IInv, CallState
<1>4. LeaseState' /\ ClaimState'
  BY DEF Moves, IInv, LeaseState, Delivering, ClaimState, OwnedBy
<1>5. CountState'
  <2>1. Holders' = Holders /\ \A root : HoldersOf(root)' = HoldersOf(root)
    BY <1>1 DEF Holders, HoldersOf
  <2>2. stage' \in {"put", "committed"} =>
          /\ activeByRoot[RootOfCall(call)] < Limits.perRootActive
          /\ Cardinality(Holders) < Limits.globalActive
    BY Capacity, CallsAssumption DEF Moves, IInv, CountState, RootOfCall
  <2> QED
    BY <2>1, <2>2 DEF Moves, IInv, CountState
<1>6. DrainState'
  BY DEF Moves, IInv, DrainState
<1> QED
  BY <1>2, <1>3, <1>4, <1>5, <1>6 DEF IInv

LEMMA QuietSteps ==
  ASSUME IInv, NEW call \in Calls,
         \/ EnterSection(call) \/ GuardAnswers(call) \/ ResolveFails(call)
         \/ ResolveMeetsClaim(call) \/ ResolveAnswersNew(call) \/ ReserveNew(call)
         \/ PutFails(call) \/ PutCommits(call)
  PROVE  IInv'
<1> USE DEF Elsewhere, NoEffect, Goto, Finish, callVars, drainVars, registryVars
<1>1. TypeOK /\ TypeOK'
  BY SectionTypes, RegistryTypes DEF IInv, QueueState
<1> SUFFICES Moves(call)
  BY <1>1, MovesKeep
<1>2. CASE EnterSection(call)
  BY <1>1, <1>2, RunningJob DEF EnterSection, EntryVerdict, Moves
<1>3. CASE GuardAnswers(call) \/ ResolveFails(call) \/ ResolveMeetsClaim(call)
  BY <1>1, <1>3, RunningJob DEF GuardAnswers, ResolveFails, ResolveMeetsClaim, Moves
<1>4. CASE ResolveAnswersNew(call) \/ PutFails(call) \/ PutCommits(call)
  BY <1>1, <1>4, RunningJob DEF ResolveAnswersNew, PutFails, PutCommits, Moves
<1>5. CASE ReserveNew(call)
  <2>1. /\ stage = "reserve" /\ serial # <<>> /\ serial[1] = [kind |-> "acquire", call |-> call]
        /\ UNCHANGED <<callVars, serial, drainVars, registryVars>>
    BY <1>1, <1>5, RunningJob DEF ReserveNew
  <2>2. CASE ReserveVerdict(call) = "accepted"
    BY <1>5, <2>1, <2>2 DEF ReserveNew, ReserveVerdict, Moves
  <2>3. CASE ReserveVerdict(call) # "accepted"
    <3>1. ReserveVerdict(call) \notin {"none", "permit"}
      BY DEF ReserveVerdict, ActiveCapacity
    <3> QED
      BY <1>5, <2>1, <2>3, <3>1 DEF ReserveNew, Moves
  <2> QED
    BY <2>2, <2>3
<1> QED
  BY <1>2, <1>3, <1>4, <1>5

-----------------------------------------------------------------------------
(* A permit is inserted: a lease more, of a call that held none.           *)
Inserts(call) ==
  /\ serial # <<>> /\ serial[1] = [kind |-> "acquire", call |-> call]
  /\ stage \notin {"finished", "settled"}
  /\ ChildAvailable(call) /\ Insert(call) /\ Finish("permit")
  /\ activeByRoot[RootOfCall(call)] < Limits.perRootActive
  /\ Cardinality(Holders) < Limits.globalActive
  /\ UNCHANGED <<callVars, serial, drainVars>>

LEMMA InsertedLease ==
  ASSUME IInv, NEW call \in Calls, Inserts(call)
  PROVE  \E new : /\ leases' = leases \cup {new} /\ new.call = call
                  /\ OwnedBy(new) = {ChildOf[call]} \ {NoChild}
                  /\ new.phase = (IF admissionClosed THEN "draining" ELSE "active")
<1> DEFINE new == [permitId |-> permitCounter, call |-> call,
                   childSessionId |-> IF IsNew(call) THEN NoChild ELSE ChildOf[call],
                   phase |-> IF admissionClosed THEN "draining" ELSE "active"]
<1>1. leases' = leases \cup {new}
  BY DEF Inserts, Insert
<1>2. OwnedBy(new) = {ChildOf[call]} \ {NoChild}
  BY DEF OwnedBy
<1> QED
  BY <1>1, <1>2

LEMMA NoLeaseYet ==
  ASSUME IInv, NEW call \in Calls,
         serial # <<>>, serial[1] = [kind |-> "acquire", call |-> call],
         stage \notin {"finished", "settled"}
  PROVE  status[call] = "queued" /\ ~HasLease(call)
<1>1. 1 \in 1..Len(serial) /\ serial[1].kind = "acquire" /\ serial[1].call = call
  BY DEF IInv, TypeOK
<1>2. status[call] = "queued"
  BY <1>1 DEF IInv, QueueState, JobState, Over
<1> QED
  BY <1>2 DEF IInv, LeaseState, Delivering, HasLease

LEMMA InsertKeepsCounts ==
  ASSUME IInv, NEW call \in Calls, Inserts(call)
  PROVE  CountState'
<1> DEFINE home == RootOfCall(call)
<1>1. PICK new : leases' = leases \cup {new} /\ new.call = call
  BY InsertedLease
<1>2. ~HasLease(call)
  BY NoLeaseYet DEF Inserts
<1>3. \A c : HasLease(c)' <=> HasLease(c) \/ c = call
  BY <1>1 DEF HasLease
<1>4. Holders' = Holders \cup {call} /\ call \notin Holders
  BY <1>2, <1>3 DEF Holders
<1>5. HoldersOf(home)' = HoldersOf(home) \cup {call} /\ call \notin HoldersOf(home)
  BY <1>4 DEF HoldersOf
<1>6. \A root \in Roots \ {home} : HoldersOf(root)' = HoldersOf(root)
  BY <1>4 DEF HoldersOf
<1>7. /\ Cardinality(Holders)' = Cardinality(Holders) + 1
      /\ Cardinality(HoldersOf(home))' = Cardinality(HoldersOf(home)) + 1
  BY <1>4, <1>5, HoldersFinite, FS_AddElement
<1>8. Cardinality(Holders) \in Nat /\ Limits.globalActive \in Nat /\ Limits.perRootActive \in Nat
  BY HoldersFinite, FS_CardinalityType, LimitsAssumption DEF LimitsCoherent
<1>9. /\ home \in Roots /\ activeByRoot \in [Roots -> Nat]
      /\ activeByRoot' = [activeByRoot EXCEPT ![home] = @ + 1]
  BY CallsAssumption DEF IInv, TypeOK, RootOfCall, Inserts, Insert
<1>10. \A root \in Roots : /\ activeByRoot'[root] = Cardinality(HoldersOf(root))'
                           /\ activeByRoot'[root] <= Limits.perRootActive
  BY <1>6, <1>7, <1>8, <1>9 DEF IInv, CountState, Inserts
<1>11. Cardinality(Holders)' <= Limits.globalActive
  BY <1>7, <1>8 DEF Inserts
<1> QED
  BY <1>10, <1>11 DEF CountState, Inserts, Finish

LEMMA InsertKeepsClaims ==
  ASSUME IInv, NEW call \in Calls, Inserts(call)
  PROVE  ClaimState'
<1>1. PICK new : /\ leases' = leases \cup {new} /\ new.call = call
                 /\ OwnedBy(new) = {ChildOf[call]} \ {NoChild}
  BY InsertedLease
<1>2. \A l \in leases : l.call # call
  BY NoLeaseYet DEF Inserts, HasLease
<1>3. ChildOf[call] \in Children \cup {NoChild} /\ childClaims \in [Children -> Calls \cup {Nobody}]
  BY CallsAssumption DEF IInv, TypeOK
<1>4. SUFFICES ASSUME NEW child \in Children, NEW c \in Calls
               PROVE  childClaims'[child] = c <=>
                        \E l \in leases' : l.call = c /\ child \in OwnedBy(l)
  BY DEF ClaimState, OwnedBy
<1>5. childClaims[child] = c <=> \E l \in leases : l.call = c /\ child \in OwnedBy(l)
  BY DEF IInv, ClaimState
<1>6. childClaims'[child] = IF child = ChildOf[call] THEN call ELSE childClaims[child]
  BY <1>3, NullAssumption DEF Inserts, Insert
<1>7. child = ChildOf[call] => childClaims[child] = Nobody
  BY NullAssumption DEF Inserts, ChildAvailable
<1>8. CASE c = call
  BY <1>1, <1>2, <1>5, <1>6, <1>8, NullAssumption
<1>9. CASE c # call
  BY <1>1, <1>5, <1>6, <1>7, <1>9, NullAssumption
<1> QED
  BY <1>8, <1>9

LEMMA InsertKeeps ==
  ASSUME IInv, NEW call \in Calls, Inserts(call), TypeOK'
  PROVE  IInv'
<1> USE DEF callVars, drainVars
<1>1. PICK new : /\ leases' = leases \cup {new} /\ new.call = call
                 /\ new.phase = (IF admissionClosed THEN "draining" ELSE "active")
  BY InsertedLease
<1>2. status[call] = "queued" /\ ~HasLease(call)
  BY NoLeaseYet DEF Inserts
<1>3. \A c : HasLease(c)' <=> HasLease(c) \/ c = call
  BY <1>1 DEF HasLease
<1>4. stage' = "finished" /\ result' = "permit"
  BY DEF Inserts, Finish
<1>5. 1 \in 1..Len(serial) /\ serial[1].kind = "acquire" /\ serial[1].call = call
  BY DEF Inserts, IInv, TypeOK
<1>6. QueueState'
  <2>1. \A i \in 1..Len(serial) : JobState(i)'
    BY <1>3, <1>4 DEF Inserts, IInv, QueueState, JobState, Over
  <2> QED
    BY <2>1, <1>3, <1>4, <1>5 DEF Inserts, IInv, QueueState
<1>7. \A c \in Calls : CallState(c)'
  BY <1>3 DEF Inserts, IInv, CallState
<1>8. LeaseState'
  <2>1. \A l, m \in leases' : l.call = m.call => l = m
    BY <1>1, <1>2 DEF IInv, LeaseState, HasLease
  <2>2. \A l \in leases' : status'[l.call] = "granted" \/ Delivering(l.call)'
    <3>1. Delivering(call)'
      BY <1>2, <1>4 DEF Inserts, Delivering
    <3>2. \A l \in leases : status[l.call] = "granted"
      BY DEF Inserts, IInv, LeaseState, Delivering
    <3> QED
      BY <1>1, <3>1, <3>2 DEF Inserts
  <2>3. \A l \in leases' : l.phase = "draining" <=> admissionClosed'
    BY <1>1 DEF Inserts, IInv, LeaseState
  <2> QED
    BY <2>1, <2>2, <2>3 DEF LeaseState
<1>9. DrainState'
  BY <1>5 DEF Inserts, IInv, DrainState
<1> QED
  BY <1>6, <1>7, <1>8, <1>9, InsertKeepsCounts, InsertKeepsClaims DEF IInv

LEMMA InsertSteps ==
  ASSUME IInv, NEW call \in Calls, ResolveAnswersResume(call) \/ InsertCommitted(call)
  PROVE  IInv'
<1> USE DEF Elsewhere, callVars, drainVars
<1>1. TypeOK /\ TypeOK'
  BY RegistryTypes DEF IInv
<1>2. RootOfCall(call) \in Roots
  BY CallsAssumption DEF RootOfCall
<1>3. CASE InsertCommitted(call)
  <2>1. Inserts(call)
    BY <1>1, <1>3, RunningJob DEF InsertCommitted, Inserts, IInv, CountState
  <2> QED
    BY <1>1, <2>1, InsertKeeps
<1>4. CASE ResolveAnswersResume(call)
  <2>1. CASE ActiveCapacity(RootOfCall(call)) = "accepted"
    <3>1. Inserts(call)
      BY <1>1, <1>2, <1>4, <2>1, RunningJob, Capacity DEF ResolveAnswersResume, Inserts
    <3> QED
      BY <1>1, <3>1, InsertKeeps
  <2>2. CASE ActiveCapacity(RootOfCall(call)) # "accepted"
    <3>1. ActiveCapacity(RootOfCall(call)) \notin {"none", "permit"}
      BY DEF ActiveCapacity
    <3>2. Moves(call)
      BY <1>1, <1>4, <2>2, <3>1, RunningJob DEF ResolveAnswersResume, Moves, Finish
    <3> QED
      BY <1>1, <3>2, MovesKeep
  <2> QED
    BY <2>1, <2>2
<1> QED
  BY <1>3, <1>4

-----------------------------------------------------------------------------
(* Closing and draining: the leases change phase, and nothing else.        *)
LEMMA DrainedLeases ==
  ASSUME IInv, leases' = Draining(leases)
  PROVE  /\ \A c : HasLease(c)' <=> HasLease(c)
         /\ \A l \in leases' : l.phase = "draining"
         /\ \A l \in leases' : \E m \in leases : m.call = l.call
         /\ \A l, m \in leases' : l.call = m.call => l = m
         /\ \A c, child : (\E l \in leases' : l.call = c /\ child \in OwnedBy(l))
                            <=> \E l \in leases : l.call = c /\ child \in OwnedBy(l)
         /\ leases = {} => leases' = {}
<1> DEFINE drained(l) == [l EXCEPT !.phase = "draining"]
<1>1. leases' = {drained(l) : l \in leases}
  BY DEF Draining
<1>2. \A l \in leases : /\ drained(l).call = l.call /\ drained(l).phase = "draining"
                        /\ OwnedBy(drained(l)) = OwnedBy(l)
  BY DEF IInv, TypeOK, Lease, OwnedBy
<1> HIDE DEF drained
<1>3. \A c : HasLease(c)' <=> HasLease(c)
  BY <1>1, <1>2 DEF HasLease
<1>4. \A l, m \in leases' : l.call = m.call => l = m
  BY <1>1, <1>2 DEF IInv, LeaseState
<1>5. \A c, child : (\E l \in leases' : l.call = c /\ child \in OwnedBy(l))
                      <=> \E l \in leases : l.call = c /\ child \in OwnedBy(l)
  BY <1>1, <1>2
<1> QED
  BY <1>1, <1>2, <1>3, <1>4, <1>5

(* What closing has in common: the calls and the queue stay.               *)
Closes ==
  /\ leases' = Draining(leases) /\ admissionClosed' = TRUE
  /\ UNCHANGED <<callVars, serial, activeByRoot, childClaims>>
  /\ \/ UNCHANGED <<stage, result>>
     \/ /\ stage = "committed" /\ stage' = "finished"
        /\ result' \notin {"none", "permit"}

LEMMA ClosesKeeps ==
  ASSUME IInv, Closes, TypeOK', DrainState'
  PROVE  IInv'
<1> USE DEF callVars
<1>1. \A c : HasLease(c)' <=> HasLease(c)
  BY DrainedLeases DEF Closes
<1>2. QueueState'
  <2>1. \A i \in 1..Len(serial) : JobState(i)'
    BY <1>1 DEF Closes, IInv, QueueState, JobState, Over
  <2> QED
    BY <2>1, <1>1 DEF Closes, IInv, QueueState
<1>3. \A c \in Calls : CallState(c)'
  BY <1>1 DEF Closes, IInv, CallState
<1>4. LeaseState'
  <2>1. \A l \in leases' : \E m \in leases : m.call = l.call
    BY DrainedLeases DEF Closes
  <2>2. \A l \in leases' : status'[l.call] = "granted" \/ Delivering(l.call)'
    <3> TAKE l \in leases'
    <3>1. PICK m \in leases : m.call = l.call
      BY <2>1
    <3>2. status[l.call] = "granted" \/ Delivering(l.call)
      BY <3>1 DEF IInv, LeaseState
    <3>3. CASE status[l.call] = "granted"
      BY <3>3 DEF Closes
    <3>4. CASE Delivering(l.call)
      BY <3>4 DEF Closes, Delivering
    <3> QED
      BY <3>2, <3>3, <3>4
  <2> QED
    BY <2>2, DrainedLeases DEF Closes, LeaseState
<1>5. ClaimState'
  <2> SUFFICES ASSUME NEW child \in Children, NEW c \in Calls
               PROVE  childClaims'[child] = c <=>
                        \E l \in leases' : l.call = c /\ child \in OwnedBy(l)
    BY DEF ClaimState, OwnedBy
  <2>1. childClaims[child] = c <=> \E l \in leases : l.call = c /\ child \in OwnedBy(l)
    BY DEF IInv, ClaimState
  <2>2. (\E l \in leases' : l.call = c /\ child \in OwnedBy(l))
          <=> \E l \in leases : l.call = c /\ child \in OwnedBy(l)
    BY DrainedLeases DEF Closes
  <2> QED
    BY <2>1, <2>2 DEF Closes
<1>6. CountState'
  <2>1. Holders' = Holders /\ \A root : HoldersOf(root)' = HoldersOf(root)
    BY <1>1 DEF Holders, HoldersOf
  <2> QED
    BY <2>1 DEF Closes, IInv, CountState
<1> QED
  BY <1>2, <1>3, <1>4, <1>5, <1>6 DEF IInv

LEMMA ClosingSteps ==
  ASSUME IInv, \/ CloseAdmission \/ Drain \/ \E call \in Calls : InsertConflicts(call)
  PROVE  IInv'
<1> USE DEF callVars, sectionVars
<1>1. TypeOK /\ TypeOK'
  BY ClosingTypes, RegistryTypes DEF IInv
<1>2. leases = {} /\ leases' = Draining(leases) => leases' = {}
  BY DrainedLeases
<1>3. CASE CloseAdmission
  BY <1>1, <1>2, <1>3, ClosesKeeps DEF CloseAdmission, Closes, IInv, DrainState
<1>4. CASE Drain
  BY <1>1, <1>4, ClosesKeeps DEF Drain, Closes, ChainTail, DrainState
<1>5. CASE \E call \in Calls : InsertConflicts(call)
  <2>1. PICK call \in Calls : InsertConflicts(call)
    BY <1>5
  <2>2. DrainState'
    BY <1>1, <1>2, <2>1 DEF InsertConflicts, Elsewhere, IInv, DrainState
  <2>3. Closes
    BY <1>1, <2>1, RunningJob DEF InsertConflicts, Elsewhere, Finish, Closes
  <2> QED
    BY <1>1, <2>2, <2>3, ClosesKeeps
<1> QED
  BY <1>3, <1>4, <1>5

-----------------------------------------------------------------------------
(* Steps that leave the registry alone.                                    *)
LEMMA RegistryKept ==
  ASSUME IInv, UNCHANGED <<leases, activeByRoot, childClaims>>
  PROVE  /\ \A c : HasLease(c)' = HasLease(c)
         /\ Holders' = Holders /\ \A root : HoldersOf(root)' = HoldersOf(root)
         /\ ClaimState'
<1>1. \A c : HasLease(c)' = HasLease(c)
  BY DEF HasLease
<1>2. Holders' = Holders /\ \A root : HoldersOf(root)' = HoldersOf(root)
  BY <1>1 DEF Holders, HoldersOf
<1> QED
  BY <1>1, <1>2 DEF IInv, ClaimState, OwnedBy

(* No job of the section is of a call that has not been made, and only one *)
(* that was released has a release there.                                  *)
LEMMA JobsOf ==
  ASSUME IInv, NEW i \in 1..Len(serial)
  PROVE  /\ status[serial[i].call] # "idle"
         /\ serial[i].kind = "release" => releaseStarted[serial[i].call]
BY JobTypes DEF IInv, QueueState, JobState, Over

LEMMA Appended ==
  ASSUME TypeOK, NEW job \in Jobs, serial' = Append(serial, job)
  PROVE  /\ Len(serial') = Len(serial) + 1 /\ serial' # <<>>
         /\ \A i \in 1..Len(serial) : serial'[i] = serial[i]
         /\ serial'[Len(serial) + 1] = job
         /\ serial # <<>> => serial'[1] = serial[1]
BY DEF TypeOK

LEMMA AcquireKeeps ==
  ASSUME IInv, NEW call \in Calls, Acquire(call)
  PROVE  IInv'
<1> USE DEF sectionVars, drainVars, registryVars
<1>1. TypeOK /\ TypeOK'
  BY CallTypes DEF IInv
<1> DEFINE job == [kind |-> "acquire", call |-> call]
<1>2. job \in Jobs /\ serial' = Append(serial, job)
  BY DEF Acquire, Jobs
<1>3. PICK n \in Nat :
        /\ n = Len(serial) /\ Len(serial') = n + 1 /\ serial' # <<>>
        /\ \A i \in 1..n : serial'[i] = serial[i]
        /\ serial'[n + 1] = job
        /\ serial # <<>> => serial'[1] = serial[1]
  BY <1>1, <1>2, Appended DEF TypeOK
<1>4. \A i \in 1..Len(serial) : serial[i].call # call
  BY JobsOf DEF Acquire
<1>5. \A c \in Calls : status'[c] = IF c = call THEN "queued" ELSE status[c]
  BY <1>1 DEF Acquire, TypeOK
<1>6. /\ status[call] = "idle" /\ ~admissionClosed
      /\ UNCHANGED <<signal, releaseStarted, stage, result, leases, activeByRoot, childClaims,
                     admissionClosed, drain, barrier>>
  BY DEF Acquire
<1>7. \A c : HasLease(c)' = HasLease(c)
  BY <1>6, RegistryKept
<1>8. QueueState'
  <2>1. \A i \in 1..Len(serial) : JobState(i)'
    <3> TAKE i \in 1..Len(serial)
    <3>1. JobState(i) /\ serial'[i] = serial[i] /\ serial[i].call \in Calls \ {call}
      BY <1>1, <1>3, <1>4, JobTypes DEF IInv, QueueState
    <3>2. status'[serial[i].call] = status[serial[i].call]
      BY <1>5, <3>1
    <3> QED
      BY <1>6, <3>1, <3>2 DEF JobState, Over, HasLease
  <2>2. \A i : i = n + 1 => JobState(i)'
    BY <1>3, <1>5, <1>6 DEF JobState, Over, IInv, QueueState
  <2>3. \A i \in 1..Len(serial') : JobState(i)'
    BY <1>3, <2>1, <2>2
  <2>4. \A i, j \in 1..Len(serial') : serial'[i] = serial'[j] => i = j
    BY <1>3, <1>4 DEF IInv, QueueState
  <2> QED
    BY <1>3, <1>6, <1>7, <2>3, <2>4 DEF IInv, QueueState
<1>9. \A c \in Calls : CallState(c)'
  BY <1>5, <1>6, <1>7 DEF IInv, CallState
<1>10. LeaseState'
  <2>1. \A l \in leases : l.call \in Calls /\ l.call # call
    BY <1>1, <1>6 DEF IInv, LeaseState, Delivering, TypeOK, Lease
  <2> QED
    BY <1>3, <1>5, <1>6, <2>1 DEF IInv, LeaseState, Delivering
<1>11. CountState'
  BY <1>3, <1>6, RegistryKept DEF IInv, CountState, QueueState
<1>12. DrainState'
  BY <1>6 DEF IInv, DrainState
<1> QED
  BY <1>1, <1>6, <1>8, <1>9, <1>10, <1>11, <1>12, RegistryKept DEF IInv

LEMMA ReleaseKeeps ==
  ASSUME IInv, NEW call \in Calls, Release(call)
  PROVE  IInv'
<1> USE DEF sectionVars, drainVars, registryVars
<1>1. TypeOK /\ TypeOK'
  BY CallTypes DEF IInv
<1> DEFINE job == [kind |-> "release", call |-> call]
<1>2. job \in Jobs /\ serial' = Append(serial, job)
  BY DEF Release, Jobs
<1>3. PICK n \in Nat :
        /\ n = Len(serial) /\ Len(serial') = n + 1 /\ serial' # <<>>
        /\ \A i \in 1..n : serial'[i] = serial[i]
        /\ serial'[n + 1] = job
        /\ serial # <<>> => serial'[1] = serial[1]
  BY <1>1, <1>2, Appended DEF TypeOK
<1>4. \A i \in 1..Len(serial) : serial[i] # job
  BY JobsOf DEF Release
<1>5. \A c \in Calls : releaseStarted'[c] <=> c = call \/ releaseStarted[c]
  BY <1>1 DEF Release, TypeOK
<1>6. /\ status[call] = "granted" /\ ~releaseStarted[call] /\ HasLease(call)
      /\ UNCHANGED <<status, signal, stage, result, leases, activeByRoot, childClaims,
                     admissionClosed, drain, barrier>>
  BY DEF Release, IInv, CallState
<1>7. \A c : HasLease(c)' = HasLease(c)
  BY <1>6, RegistryKept
<1>8. QueueState'
  <2>1. \A i \in 1..Len(serial) : JobState(i)'
    BY <1>1, <1>3, <1>5, <1>6, <1>7, JobTypes DEF IInv, QueueState, JobState, Over
  <2>2. \A i : i = n + 1 => JobState(i)'
    <3>1. /\ serial'[n + 1].kind = "release" /\ serial'[n + 1].call = call
          /\ status'[call] = "granted" /\ releaseStarted'[call] /\ \E l \in leases' : l.call = call
      BY <1>3, <1>5, <1>6 DEF HasLease
    <3> QED
      BY <3>1 DEF JobState, HasLease
  <2>3. \A i \in 1..Len(serial') : JobState(i)'
    BY <1>3, <2>1, <2>2
  <2>4. \A i, j \in 1..Len(serial') : serial'[i] = serial'[j] => i = j
    BY <1>3, <1>4 DEF IInv, QueueState
  <2> QED
    BY <1>3, <1>6, <1>7, <2>3, <2>4 DEF IInv, QueueState
<1>9. \A c \in Calls : CallState(c)'
  BY <1>5, <1>6, <1>7 DEF IInv, CallState
<1>10. LeaseState'
  BY <1>3, <1>6 DEF IInv, LeaseState, Delivering
<1>11. CountState'
  BY <1>3, <1>6, RegistryKept DEF IInv, CountState, QueueState
<1>12. DrainState'
  BY <1>3, <1>6 DEF IInv, DrainState
<1> QED
  BY <1>1, <1>6, <1>8, <1>9, <1>10, <1>11, <1>12, RegistryKept DEF IInv

LEMMA OutsideSteps ==
  ASSUME IInv, \/ SectionIdle
               \/ \E call \in Calls : AcquireClosed(call) \/ Abort(call)
  PROVE  IInv'
<1> USE DEF callVars, sectionVars, drainVars, registryVars
<1>1. TypeOK /\ TypeOK'
  BY ClosingTypes, CallTypes DEF IInv
<1>2. CASE SectionIdle
  <2>1. /\ UNCHANGED <<status, signal, releaseStarted, serial, stage, result, admissionClosed,
                       barrier, leases, activeByRoot, childClaims>>
        /\ drain = "idling" /\ barrier = 0
        /\ drain' = IF leases = {} THEN "drained" ELSE "emptying"
    BY <1>2 DEF SectionIdle
  <2>2. \A i \in 1..Len(serial) : JobState(i)'
    BY <2>1 DEF IInv, QueueState, JobState, Over, HasLease
  <2>3. QueueState' /\ \A c \in Calls : CallState(c)'
    BY <2>1, <2>2 DEF IInv, QueueState, CallState, HasLease
  <2>4. LeaseState' /\ CountState'
    BY <2>1, RegistryKept DEF IInv, LeaseState, Delivering, CountState
  <2>5. DrainState'
    BY <2>1 DEF IInv, DrainState
  <2> QED
    BY <1>1, <2>1, <2>3, <2>4, <2>5, RegistryKept DEF IInv
<1>3. CASE \E call \in Calls : AcquireClosed(call) \/ Abort(call)
  <2>1. PICK call \in Calls : AcquireClosed(call) \/ Abort(call)
    BY <1>3
  <2>2. UNCHANGED <<releaseStarted, serial, stage, result, admissionClosed, drain, barrier,
                    leases, activeByRoot, childClaims>>
    BY <2>1 DEF AcquireClosed, Abort
  <2>3. \A c \in Calls : \/ status'[c] = status[c]
                         \/ status[c] = "idle" /\ status'[c] = "ADMISSION_CLOSED"
    BY <1>1, <2>1 DEF AcquireClosed, Abort, TypeOK
  <2>4. \A i \in 1..Len(serial) : JobState(i)'
    <3> TAKE i \in 1..Len(serial)
    <3>1. JobState(i) /\ serial[i].call \in Calls /\ status[serial[i].call] # "idle"
      BY <1>1, JobTypes, JobsOf DEF IInv, QueueState
    <3>2. status'[serial[i].call] = status[serial[i].call]
      BY <2>3, <3>1
    <3> QED
      BY <2>2, <3>1, <3>2 DEF JobState, Over, HasLease
  <2>5. QueueState' /\ \A c \in Calls : CallState(c)'
    BY <2>2, <2>3, <2>4 DEF IInv, QueueState, CallState, HasLease
  <2>6. LeaseState'
    <3>1. \A l \in leases : status'[l.call] = "granted" \/ Delivering(l.call)'
      <4> TAKE l \in leases
      <4>1. l.call \in Calls /\ (status[l.call] = "granted" \/ Delivering(l.call))
        BY <1>1 DEF IInv, LeaseState, TypeOK, Lease
      <4>2. status'[l.call] = status[l.call]
        BY <2>3, <4>1 DEF Delivering
      <4> QED
        BY <2>2, <4>1, <4>2 DEF Delivering
    <3> QED
      BY <2>2, <3>1 DEF IInv, LeaseState
  <2>7. CountState' /\ DrainState'
    BY <2>2, RegistryKept DEF IInv, CountState, DrainState
  <2> QED
    BY <1>1, <2>2, <2>5, <2>6, <2>7, RegistryKept DEF IInv
<1> QED
  BY <1>2, <1>3

LEMMA DeliverKeeps ==
  ASSUME IInv, NEW call \in Calls, Deliver(call)
  PROVE  IInv'
<1> USE DEF drainVars, registryVars
<1>1. TypeOK /\ TypeOK'
  BY SectionTypes DEF IInv, QueueState
<1>2. /\ stage = "finished" /\ serial # <<>> /\ 1 \in 1..Len(serial)
      /\ serial[1] = [kind |-> "acquire", call |-> call]
      /\ serial[1].kind = "acquire" /\ serial[1].call = call
  BY <1>1, RunningJob DEF Deliver, TypeOK
<1>3. /\ UNCHANGED <<releaseStarted, serial, result, admissionClosed, drain, barrier,
                     leases, activeByRoot, childClaims>>
      /\ stage' = "settled"
  BY DEF Deliver
<1>4. status[call] = "queued"
  BY <1>2 DEF IInv, QueueState, JobState, Over
<1>5. /\ status'[call] \notin {"idle", "queued"}
      /\ status'[call] = "granted" <=> result = "permit"
      /\ \A c \in Calls \ {call} : status'[c] = status[c]
  <2>1. result \in Outcomes \ {"none"}
    BY <1>1, <1>2 DEF IInv, QueueState, TypeOK
  <2>2. status' = [status EXCEPT ![call] = Settlement(call)]
    BY DEF Deliver
  <2> QED
    BY <1>1, <2>1, <2>2 DEF Settlement, TypeOK, Outcomes, Codes, LimitCodes
<1>6. result = "permit" <=> HasLease(call)
  <2>1. result = "permit" => HasLease(call)
    BY <1>2 DEF IInv, QueueState
  <2>2. HasLease(call) => result = "permit"
    BY <1>4 DEF HasLease, IInv, LeaseState, Delivering
  <2> QED
    BY <2>1, <2>2
<1>7. \A i \in 1..Len(serial) : JobState(i)'
  <2> TAKE i \in 1..Len(serial)
  <2>1. JobState(i) /\ serial[i].call \in Calls
    BY <1>1, JobTypes DEF IInv, QueueState
  <2>2. CASE i = 1
    BY <1>2, <1>3, <1>5, <2>2 DEF JobState, Over
  <2>3. CASE i # 1
    <3>1. serial[i].call # call
      <4>1. serial[i].kind = "release" => serial[i].call # call
        BY <1>4, <2>1 DEF JobState
      <4>2. serial[i].kind = "acquire" => serial[i].call # call
        BY <1>1, <1>2, <2>3, JobTypes DEF IInv, QueueState
      <4> QED
        BY <1>1, <4>1, <4>2, JobTypes
    <3>2. status'[serial[i].call] = status[serial[i].call]
      BY <1>5, <2>1, <3>1
    <3> QED
      BY <1>3, <2>1, <2>3, <3>2 DEF JobState, Over, HasLease
  <2> QED
    BY <2>2, <2>3
<1>8. QueueState'
  BY <1>2, <1>3, <1>7 DEF IInv, QueueState
<1>9. \A c \in Calls : CallState(c)'
  <2> TAKE c \in Calls
  <2>1. CallState(c) /\ (c # call => status'[c] = status[c])
    BY <1>5 DEF IInv
  <2> QED
    BY <1>3, <1>4, <1>5, <1>6, <2>1 DEF CallState, HasLease
<1>10. LeaseState'
  <2>1. \A l \in leases : status'[l.call] = "granted"
    <3> TAKE l \in leases
    <3>1. l.call \in Calls /\ (status[l.call] = "granted" \/ Delivering(l.call))
      BY <1>1 DEF IInv, LeaseState, TypeOK, Lease
    <3>2. CASE l.call = call
      BY <1>5, <1>6, <3>2 DEF HasLease
    <3>3. CASE l.call # call
      BY <1>2, <1>5, <3>1, <3>3 DEF Delivering
    <3> QED
      BY <3>2, <3>3
  <2> QED
    BY <1>3, <2>1 DEF IInv, LeaseState
<1>11. CountState' /\ DrainState'
  BY <1>3, RegistryKept DEF IInv, CountState, DrainState
<1> QED
  BY <1>1, <1>3, <1>8, <1>9, <1>10, <1>11, RegistryKept DEF IInv

LEMMA BindKeeps ==
  ASSUME IInv, NEW call \in Calls, NEW child \in Children, BindChild(call, child)
  PROVE  IInv'
<1> USE DEF callVars, sectionVars, drainVars
<1>1. TypeOK /\ TypeOK'
  BY BindTypes DEF IInv
<1> DEFINE bound(l) == IF l.call = call THEN [l EXCEPT !.childSessionId = child] ELSE l
<1>2. /\ UNCHANGED <<status, releaseStarted, serial, stage, result, admissionClosed, drain,
                     barrier, activeByRoot>>
      /\ leases' = {bound(l) : l \in leases}
      /\ childClaims' = [childClaims EXCEPT ![child] = call]
      /\ ChildOf[call] \in {NoChild, child} /\ childClaims[child] \in {Nobody, call}
  BY DEF BindChild, Bindable
<1>3. PICK mine \in leases : mine.call = call /\ LeaseOf(call) = mine
  BY DEF BindChild, IInv, CallState, HasLease, LeaseOf, LeaseState
<1>4. mine.childSessionId = NoChild
  BY <1>3 DEF BindChild, Bindable
<1>5. /\ \A l \in leases : bound(l).call = l.call /\ bound(l).phase = l.phase
      /\ \A l \in leases : l.call # call => bound(l) = l
      /\ bound(mine).childSessionId = child
  BY <1>1, <1>3 DEF TypeOK, Lease
<1>6. /\ OwnedBy(bound(mine)) = {child}
      /\ OwnedBy(mine) \subseteq {child}
  BY <1>2, <1>3, <1>4, <1>5, NullAssumption DEF OwnedBy
<1> HIDE DEF bound
<1>7. \A c : HasLease(c)' <=> HasLease(c)
  BY <1>2, <1>5 DEF HasLease
<1>8. QueueState' /\ \A c \in Calls : CallState(c)'
  <2>1. \A i \in 1..Len(serial) : JobState(i)'
    BY <1>2, <1>7 DEF IInv, QueueState, JobState, Over
  <2> QED
    BY <1>2, <1>7, <2>1 DEF IInv, QueueState, CallState
<1>9. LeaseState'
  <2>1. \A l, m \in leases' : l.call = m.call => l = m
    BY <1>2, <1>5 DEF IInv, LeaseState
  <2>2. \A l \in leases' : status'[l.call] = "granted" \/ Delivering(l.call)'
    <3> TAKE l \in leases'
    <3>1. PICK m \in leases : l = bound(m)
      BY <1>2
    <3>2. status[m.call] = "granted" \/ Delivering(m.call)
      BY DEF IInv, LeaseState
    <3> QED
      BY <1>2, <1>5, <3>1, <3>2 DEF Delivering
  <2>3. \A l \in leases' : l.phase = "draining" <=> admissionClosed'
    BY <1>2, <1>5 DEF IInv, LeaseState
  <2> QED
    BY <2>1, <2>2, <2>3 DEF LeaseState
<1>10. ClaimState'
  <2> SUFFICES ASSUME NEW some \in Children, NEW c \in Calls
               PROVE  childClaims'[some] = c <=>
                        \E l \in leases' : l.call = c /\ some \in OwnedBy(l)
    BY DEF ClaimState, OwnedBy
  <2>1. childClaims[some] = c <=> \E l \in leases : l.call = c /\ some \in OwnedBy(l)
    BY DEF IInv, ClaimState
  <2>2. childClaims'[some] = IF some = child THEN call ELSE childClaims[some]
    BY <1>1, <1>2 DEF TypeOK
  <2>3. CASE c = call
    <3>1. \A l \in leases : l.call = call => l = mine
      BY <1>3 DEF IInv, LeaseState
    <3>2. (\E l \in leases' : l.call = c /\ some \in OwnedBy(l)) <=> some = child
      BY <1>2, <1>3, <1>5, <1>6, <2>3, <3>1
    <3>3. childClaims[some] = call => some = child
      BY <1>6, <2>1, <2>3, <3>1
    <3> QED
      BY <2>2, <2>3, <3>2, <3>3
  <2>4. CASE c # call
    <3>1. (\E l \in leases' : l.call = c /\ some \in OwnedBy(l))
            <=> \E l \in leases : l.call = c /\ some \in OwnedBy(l)
      BY <1>2, <1>5, <2>4
    <3> QED
      BY <1>2, <2>1, <2>2, <2>4, <3>1, NullAssumption
  <2> QED
    BY <2>3, <2>4
<1>11. CountState'
  <2>1. Holders' = Holders /\ \A root : HoldersOf(root)' = HoldersOf(root)
    BY <1>7 DEF Holders, HoldersOf
  <2> QED
    BY <1>2, <2>1 DEF IInv, CountState
<1>12. DrainState'
  BY <1>2 DEF IInv, DrainState
<1> QED
  BY <1>1, <1>8, <1>9, <1>10, <1>11, <1>12 DEF IInv

LEMMA RemovedLease ==
  ASSUME IInv, NEW call \in Calls, RemoveLease(call)
  PROVE  /\ HasLease(call) /\ status[call] = "granted" /\ releaseStarted[call]
         /\ leases' = {l \in leases : l.call # call}
         /\ stage = "start" /\ serial # <<>> /\ serial[1] = [kind |-> "release", call |-> call]
<1>1. /\ stage = "start" /\ serial # <<>> /\ serial[1] = [kind |-> "release", call |-> call]
      /\ serial[1].kind = "release" /\ serial[1].call = call /\ 1 \in 1..Len(serial)
  BY RunningJob DEF IInv, RemoveLease
<1>2. HasLease(call) /\ status[call] = "granted" /\ releaseStarted[call]
  BY <1>1 DEF IInv, QueueState, JobState, Over
<1>3. PICK mine \in leases : mine.call = call /\ LeaseOf(call) = mine
  BY <1>2 DEF HasLease, LeaseOf
<1>4. \A l \in leases : l.call = call <=> l = mine
  BY <1>3 DEF IInv, LeaseState
<1> QED
  BY <1>1, <1>2, <1>3, <1>4 DEF RemoveLease

LEMMA RemoveKeepsCounts ==
  ASSUME IInv, NEW call \in Calls, RemoveLease(call)
  PROVE  CountState' /\ activeByRoot' \in [Roots -> Nat]
<1> DEFINE home == RootOfCall(call)
<1>1. HasLease(call) /\ leases' = {l \in leases : l.call # call}
  BY RemovedLease
<1>2. Holders' = Holders \ {call} /\ call \in Holders
  BY <1>1 DEF Holders, HasLease
<1>3. HoldersOf(home)' = HoldersOf(home) \ {call} /\ call \in HoldersOf(home)
  BY <1>2 DEF HoldersOf
<1>4. \A root \in Roots \ {home} : HoldersOf(root)' = HoldersOf(root)
  BY <1>2 DEF HoldersOf
<1>5. /\ Cardinality(Holders)' = Cardinality(Holders) - 1
      /\ Cardinality(HoldersOf(home))' = Cardinality(HoldersOf(home)) - 1
      /\ Cardinality(Holders) \in Nat /\ Cardinality(HoldersOf(home))' \in Nat
  BY <1>2, <1>3, HoldersFinite, FS_RemoveElement, FS_CardinalityType
<1>6. /\ home \in Roots /\ activeByRoot \in [Roots -> Nat]
      /\ activeByRoot' = [activeByRoot EXCEPT ![home] = @ - 1]
      /\ Limits.globalActive \in Nat /\ Limits.perRootActive \in Nat
  BY CallsAssumption, LimitsAssumption DEF IInv, TypeOK, RootOfCall, RemoveLease, LimitsCoherent
<1>7. \A root \in Roots : /\ activeByRoot'[root] = Cardinality(HoldersOf(root))'
                          /\ activeByRoot'[root] <= Limits.perRootActive
                          /\ activeByRoot'[root] \in Nat
  BY <1>4, <1>5, <1>6 DEF IInv, CountState
<1>8. Cardinality(Holders)' <= Limits.globalActive
  BY <1>5, <1>6 DEF IInv, CountState
<1> QED
  BY <1>6, <1>7, <1>8 DEF CountState, RemoveLease

LEMMA RemoveKeeps ==
  ASSUME IInv, NEW call \in Calls, RemoveLease(call)
  PROVE  IInv'
<1> USE DEF callVars
<1>1. /\ HasLease(call) /\ status[call] = "granted" /\ releaseStarted[call]
      /\ leases' = {l \in leases : l.call # call}
      /\ stage = "start" /\ serial # <<>> /\ serial[1] = [kind |-> "release", call |-> call]
  BY RemovedLease
<1>2. /\ UNCHANGED <<status, signal, releaseStarted, serial, result, admissionClosed, barrier>>
      /\ stage' = "settled" /\ childClaims' = ClaimsWithout(call) /\ drain' = Waking(leases')
  BY DEF RemoveLease
<1>3. \A c : HasLease(c)' <=> HasLease(c) /\ c # call
  BY <1>1 DEF HasLease
<1>4. TypeOK'
  <2>1. leases' \subseteq Lease /\ stage' \in Stages
    BY <1>1, <1>2 DEF IInv, TypeOK, Stages
  <2>2. childClaims' \in [Children -> Calls \cup {Nobody}]
    BY <1>2 DEF ClaimsWithout, IInv, TypeOK
  <2>3. drain' \in {"none", "idling", "emptying", "drained"}
    BY <1>2 DEF Waking, IInv, TypeOK
  <2> QED
    BY <1>2, <2>1, <2>2, <2>3, RemoveKeepsCounts DEF RemoveLease, IInv, TypeOK, durableVars
<1>5. \A i \in 1..Len(serial) : JobState(i)'
  <2> TAKE i \in 1..Len(serial)
  <2>1. JobState(i) /\ serial[i].call \in Calls
    BY JobTypes DEF IInv, QueueState
  <2>2. CASE i = 1
    BY <1>1, <1>2, <2>2 DEF JobState, Over
  <2>3. CASE i # 1
    <3>1. serial[i].kind = "release" => serial[i].call # call
      <4>1. TypeOK /\ 1 \in 1..Len(serial) /\ serial[i] # serial[1]
        BY <1>1, <2>3 DEF IInv, QueueState, TypeOK
      <4> QED
        BY <1>1, <4>1, JobTypes
    <3> QED
      BY <1>1, <1>2, <1>3, <2>1, <2>3, <3>1 DEF JobState, Over, HasLease
  <2> QED
    BY <2>2, <2>3
<1>6. QueueState'
  BY <1>1, <1>2, <1>5 DEF IInv, QueueState
<1>7. \A c \in Calls : CallState(c)'
  BY <1>1, <1>2, <1>3 DEF IInv, CallState
<1>8. LeaseState'
  BY <1>1, <1>2 DEF IInv, LeaseState, Delivering
<1>9. ClaimState'
  <2> SUFFICES ASSUME NEW child \in Children, NEW c \in Calls
               PROVE  childClaims'[child] = c <=>
                        \E l \in leases' : l.call = c /\ child \in OwnedBy(l)
    BY DEF ClaimState, OwnedBy
  <2>1. childClaims[child] = c <=> \E l \in leases : l.call = c /\ child \in OwnedBy(l)
    BY DEF IInv, ClaimState
  <2>2. childClaims'[child] = IF childClaims[child] = call THEN Nobody ELSE childClaims[child]
    BY <1>2 DEF ClaimsWithout
  <2> QED
    BY <1>1, <2>1, <2>2, NullAssumption
<1>10. DrainState'
  BY <1>1, <1>2 DEF IInv, DrainState, Waking
<1> QED
  BY <1>4, <1>6, <1>7, <1>8, <1>9, <1>10, RemoveKeepsCounts DEF IInv

LEMMA AdvanceKeeps ==
  ASSUME IInv, Advance
  PROVE  IInv'
<1> USE DEF callVars, registryVars
<1>1. stage = "settled" /\ serial # <<>>
  BY DEF Advance, IInv, QueueState
<1>2. TypeOK /\ TypeOK'
  BY <1>1, AdvanceTypes DEF IInv
<1>3. PICK n \in Nat : /\ Len(serial) = n + 1 /\ Len(serial') = n
                       /\ \A i \in 1..n : serial'[i] = serial[i + 1] /\ i + 1 \in 1..Len(serial)
  <2>1. serial \in Seq(Jobs) /\ serial # <<>> /\ serial' = Tail(serial)
    BY <1>1, <1>2 DEF Advance, Pop, TypeOK
  <2>2. /\ Len(serial) - 1 \in Nat /\ Len(Tail(serial)) = Len(serial) - 1
        /\ \A i \in 1..Len(serial) - 1 : Tail(serial)[i] = serial[i + 1]
    BY <2>1
  <2> DEFINE n == Len(serial) - 1
  <2>3. Len(serial) = n + 1
    BY <2>2
  <2>4. \A i \in 1..n : i + 1 \in 1..Len(serial)
    BY <2>2, <2>3
  <2> HIDE DEF n
  <2>5. n \in Nat /\ Len(serial') = n /\ \A i \in 1..n : serial'[i] = serial[i + 1]
    BY <2>1, <2>2 DEF n
  <2> QED
    BY <2>3, <2>4, <2>5
<1>4. /\ UNCHANGED <<status, releaseStarted, admissionClosed, drain, leases, activeByRoot,
                     childClaims>>
      /\ stage' = "start" /\ result' = "none" /\ barrier' = CountDown(barrier)
  BY DEF Advance, Pop
<1>5. \A i \in 1..n : JobState(i)'
  <2> TAKE i \in 1..n
  <2>1. PICK k \in 1..Len(serial) : k = i + 1 /\ serial'[i] = serial[k] /\ JobState(k)
    BY <1>3 DEF IInv, QueueState
  <2>2. ~Over(k)
    BY <2>1 DEF Over
  <2> QED
    BY <1>4, <2>1, <2>2 DEF JobState, Over, HasLease
<1>6. QueueState'
  <2>1. \A i, j \in 1..n : serial'[i] = serial'[j] => i = j
    BY <1>3 DEF IInv, QueueState
  <2> QED
    BY <1>3, <1>4, <1>5, <2>1 DEF QueueState
<1>7. \A c \in Calls : CallState(c)'
  BY <1>4 DEF IInv, CallState, HasLease
<1>8. LeaseState'
  BY <1>1, <1>4 DEF IInv, LeaseState, Delivering
<1>9. CountState'
  BY <1>4, RegistryKept DEF IInv, CountState
<1>10. DrainState'
  <2>1. \A i \in 1..n : i > CountDown(barrier) => i + 1 > barrier
    BY <1>2 DEF CountDown, TypeOK
  <2> QED
    BY <1>3, <1>4, <2>1 DEF IInv, DrainState
<1> QED
  BY <1>2, <1>4, <1>6, <1>7, <1>8, <1>9, <1>10, RegistryKept DEF IInv

LEMMA CountsOfNone ==
  ASSUME leases = {}
  PROVE  Cardinality(Holders) = 0 /\ \A root : Cardinality(HoldersOf(root)) = 0
<1>1. Holders = {} /\ \A root : HoldersOf(root) = {}
  BY DEF Holders, HoldersOf, HasLease
<1> QED
  BY <1>1, FS_EmptySet

LEMMA Fresh ==
  ASSUME FreshProcess, TypeOK
  PROVE  IInv
<1> USE DEF FreshProcess
<1>1. QueueState /\ \A call \in Calls : CallState(call)
  BY DEF QueueState, JobState, CallState, OnCalls
<1>2. LeaseState /\ ClaimState
  BY NullAssumption DEF LeaseState, ClaimState, NoOwner
<1>3. CountState
  BY CountsOfNone, LimitsAssumption DEF CountState, LimitsCoherent
<1>4. DrainState
  BY DEF DrainState
<1> QED
  BY <1>1, <1>2, <1>3, <1>4 DEF IInv

LEMMA InitialState == Init => IInv
<1> SUFFICES ASSUME Init PROVE IInv
  OBVIOUS
<1>1. /\ serial \in Seq(Jobs) /\ stage \in Stages /\ result \in Outcomes
      /\ ledger \in [Roots -> LedgerRow]
  BY BoundAssumption DEF Init, FreshProcess, Stages, Outcomes
<1>2. TypeOK
  BY <1>1 DEF Init, FreshProcess, TypeOK, OnCalls, NoOwner
<1> QED
  BY <1>2, Fresh DEF Init

LEMMA CrashKeeps ==
  ASSUME IInv, Crash
  PROVE  IInv'
<1>1. TypeOK'
  BY CrashTypes DEF IInv
<1>2. FreshProcess'
  BY DEF Crash, FreshProcess, OnCalls, NoOwner
<1>3. FreshProcess' /\ TypeOK' => IInv'
  BY Fresh, PTL
<1> QED
  BY <1>1, <1>2, <1>3

LEMMA StutterKeeps ==
  ASSUME IInv, UNCHANGED vars
  PROVE  IInv'
<1> USE DEF vars, callVars, sectionVars, drainVars, registryVars, durableVars
<1>1. TypeOK'
  BY DEF IInv, TypeOK
<1>2. QueueState' /\ \A call \in Calls : CallState(call)'
  BY DEF IInv, QueueState, JobState, Over, CallState, HasLease
<1>3. LeaseState' /\ CountState' /\ DrainState'
  BY RegistryKept DEF IInv, LeaseState, Delivering, CountState, DrainState
<1> QED
  BY <1>1, <1>2, <1>3, RegistryKept DEF IInv

LEMMA Inductive == IInv /\ [Next]_vars => IInv'
<1> SUFFICES ASSUME IInv, [Next]_vars PROVE IInv'
  OBVIOUS
<1>1. ASSUME NEW call \in Calls,
             AcquireClosed(call) \/ Acquire(call) \/ Abort(call) \/ Release(call)
      PROVE  IInv'
  BY <1>1, OutsideSteps, AcquireKeeps, ReleaseKeeps
<1>2. ASSUME NEW call \in Calls, NEW child \in RunIds[call], BindChild(call, child)
      PROVE  IInv'
  <2>1. child \in Children
    BY CallsAssumption
  <2> QED
    BY <1>2, <2>1, BindKeeps
<1>3. CASE CloseAdmission \/ Drain
  BY <1>3, ClosingSteps
<1>4. CASE SectionIdle
  BY <1>4, OutsideSteps
<1>5. CASE SectionStep
  <2>1. ASSUME NEW call \in Calls,
               \/ EnterSection(call) \/ GuardAnswers(call) \/ ResolveFails(call)
               \/ ResolveMeetsClaim(call) \/ ResolveAnswersNew(call) \/ ReserveNew(call)
               \/ PutFails(call) \/ PutCommits(call)
        PROVE  IInv'
    BY <2>1, QuietSteps
  <2>2. ASSUME NEW call \in Calls, ResolveAnswersResume(call) \/ InsertCommitted(call)
        PROVE  IInv'
    BY <2>2, InsertSteps
  <2>3. ASSUME NEW call \in Calls, InsertConflicts(call)
        PROVE  IInv'
    BY <2>3, ClosingSteps
  <2>4. ASSUME NEW call \in Calls, Deliver(call) \/ RemoveLease(call)
        PROVE  IInv'
    BY <2>4, DeliverKeeps, RemoveKeeps
  <2>5. CASE Advance
    BY <2>5, AdvanceKeeps
  <2> QED
    BY <1>5, <2>1, <2>2, <2>3, <2>4, <2>5 DEF SectionStep
<1>6. CASE Crash
  BY <1>6, CrashKeeps
<1>7. CASE UNCHANGED vars
  BY <1>7, StutterKeeps
<1> QED
  BY <1>1, <1>2, <1>3, <1>4, <1>5, <1>6, <1>7 DEF Next

-----------------------------------------------------------------------------
(* The inductive invariant holds in every reachable state, whatever is     *)
(* interleaved with the awaits of the section and wherever a crash falls.  *)
THEOREM Invariance == Spec => []IInv
<1>1. Init => IInv
  BY InitialState
<1>2. IInv /\ [Next]_vars => IInv'
  BY Inductive
<1> QED
  BY <1>1, <1>2, PTL DEF Spec

(* Every state has the declared shape; a per-root count never goes below   *)
(* zero (leases.ts decrements it without a check).                         *)
THEOREM TypeCorrect == Spec => []TypeOK
<1>1. IInv => TypeOK
  BY DEF IInv
<1> QED
  BY <1>1, Invariance, PTL

(* The leases of each root and of the process stay within the active       *)
(* limits, though a new child is checked before the write of the ledger    *)
(* and its lease inserted after it.                                        *)
THEOREM LimitsHold == Spec => []ActiveWithinLimits
<1>1. IInv => ActiveWithinLimits
  BY CountedLeases DEF IInv, CountState, ActiveWithinLimits
<1> QED
  BY <1>1, Invariance, PTL

(* The registry's per-root counts and child claims describe exactly the    *)
(* leases there are.                                                       *)
THEOREM RegistryStaysCoherent == Spec => []RegistryCoherent
<1>1. IInv => RegistryCoherent
  BY CountedLeases DEF IInv, CountState, ClaimState, LeaseState, RegistryCoherent
<1> QED
  BY <1>1, Invariance, PTL

(* No lease is without a caller that can release it.                       *)
THEOREM LeasesAreOwned == Spec => []NoOrphanLease
<1>1. IInv => NoOrphanLease
  <2> SUFFICES ASSUME IInv, NEW l \in leases
               PROVE  \/ status[l.call] = "granted"
                      \/ status[l.call] = "queued" /\ At("acquire", l.call, "finished")
                           /\ result = "permit"
    BY DEF NoOrphanLease
  <2>1. status[l.call] = "granted" \/ Delivering(l.call)
    BY DEF IInv, LeaseState
  <2>2. serial # <<>> => Head(serial) = serial[1]
    BY DEF IInv, TypeOK
  <2> QED
    BY <2>1, <2>2 DEF Delivering, At
<1> QED
  BY <1>1, Invariance, PTL

(* Once drain() has resolved there is no lease, and no acquisition is in   *)
(* the section that could still write the ledger.                          *)
THEOREM DrainedStaysQuiet == Spec => []DrainedIsQuiet
<1>1. IInv => DrainedIsQuiet
  BY DEF IInv, DrainState, DrainedIsQuiet, TypeOK
<1> QED
  BY <1>1, Invariance, PTL

-----------------------------------------------------------------------------
(* The refinement: every step of the authority is a step of AdmissionModel *)
(* or none.                                                                *)

(* No other call asks for the id of a new child, or is bound to it.        *)
FreshIds ==
  \A c, d \in Calls : IsNew(c) /\ c # d /\ ChildOf[c] # NoChild =>
    ChildOf[c] \notin {ChildOf[d]} \cup RunIds[d]

(* Permits are told apart by their ids, and bound to children of theirs.   *)
PermitState ==
  /\ \A l \in leases : l.permitId < permitCounter
  /\ \A l, m \in leases : l.permitId = m.permitId => l = m
  /\ \A l \in leases : l.childSessionId \in {NoChild, ChildOf[l.call]} \cup RunIds[l.call]

(* Each call of a process life is issued one permit at most.               *)
Served == {call \in Calls : status[call] = "granted" \/ Delivering(call)}
IssueState ==
  /\ permitCounter <= Cardinality(Served)
  /\ issuedBefore <= crashes * Cardinality(Calls)
  /\ crashes <= MaxCrashes

(* What reserveNewLocked() decided on the ledger stays so until its write. *)
RowHasRoom(call) ==
  LET row == ledger[RootOfCall(call)]
  IN  /\ row.admittedTotal < Limits.perRootAdmittedTotal
      /\ row.admittedChildrenByParent[ParentOf[call]] < Limits.perParentChildren
ReservationState ==
  /\ stage \in {"reserve", "put", "committed"} => IsNew(serial[1].call)
  /\ stage = "put" => RowHasRoom(serial[1].call)

ChargeState ==
  \A call \in charged : \/ call \in Served
                        \/ stage = "committed" /\ serial[1].call = call

RInv == IInv /\ PermitState /\ IssueState /\ ReservationState /\ ChargeState

-----------------------------------------------------------------------------
(* The state of the model, variable by variable.                           *)
ALifecycle == IF admissionClosed /\ ~InFlight THEN "draining" ELSE "open"
AGlobal == Cardinality(leases) + Cardinality(Reserved)
ARoot == [root \in Roots |-> activeByRoot[root]
                   + Cardinality({call \in Reserved : RootOfCall(call) = root})]
ATotal == [root \in Roots |-> ledger[root].admittedTotal]
AChildren == [parent \in Parents |->
                       ledger[RootOf[parent]].admittedChildrenByParent[parent]]
ACounter == issuedBefore + permitCounter + Cardinality(Reserved)
AState == <<ALifecycle, AGlobal, ARoot, ATotal, AChildren, AbstractPermits, ACounter>>

LEMMA ModelState == Model!vars = AState /\ Model!vars' = AState'
BY DEF AState, ALifecycle, AGlobal, ARoot, ATotal, AChildren, ACounter, Model!vars

LEMMA NoneReserved ==
  ASSUME stage # "committed"
  PROVE  /\ Reserved = {} /\ Cardinality(Reserved) = 0
         /\ \A root : {call \in Reserved : RootOfCall(call) = root} = {}
         /\ \A root : Cardinality({call \in Reserved : RootOfCall(call) = root}) = 0
<1>1. Reserved = {} /\ \A root : {call \in Reserved : RootOfCall(call) = root} = {}
  BY DEF Reserved
<1> QED
  BY <1>1, FS_EmptySet

LEMMA InitRefines == Init => Model!Init
<1> SUFFICES ASSUME Init PROVE Model!Init
  OBVIOUS
<1>1. /\ stage = "start" /\ admissionClosed = FALSE /\ leases = {} /\ permitCounter = 0
      /\ issuedBefore = 0 /\ activeByRoot = [r \in Roots |-> 0]
      /\ ledger \in [Roots -> LedgerRow]
  BY BoundAssumption DEF Init, FreshProcess
<1>2. Cardinality(leases) = 0
  BY <1>1, FS_EmptySet
<1>3. ALifecycle = "open" /\ AGlobal = 0 /\ ACounter = 0 /\ AbstractPermits = {}
  BY <1>1, <1>2, NoneReserved DEF ALifecycle, AGlobal, ACounter, AbstractPermits
<1>4. ARoot = [r \in Roots |-> 0]
  BY <1>1, NoneReserved DEF ARoot
<1>5. ATotal \in [Roots -> Nat] /\ AChildren \in [Parents -> Nat]
  BY <1>1, CallsAssumption DEF ATotal, AChildren, LedgerRow
<1> QED
  BY <1>3, <1>4, <1>5 DEF Model!Init, ALifecycle, AGlobal, ARoot, ATotal, AChildren, ACounter

-----------------------------------------------------------------------------
(* The four parts of the invariant.                                        *)
LEMMA ServedFinite ==
  /\ IsFiniteSet(Served) /\ Served \subseteq Calls
  /\ Cardinality(Served) \in Nat /\ Cardinality(Calls) \in Nat
  /\ Cardinality(Served) <= Cardinality(Calls)
BY CallsAssumption, FS_Subset, FS_CardinalityType DEF Served

LEMMA RoomToIssue ==
  ASSUME RInv, NEW call \in Calls, stage \notin {"finished", "settled"},
         serial # <<>>, serial[1] = [kind |-> "acquire", call |-> call]
  PROVE  permitCounter + 1 <= Cardinality(Calls)
<1>1. call \notin Served
  BY NoLeaseYet DEF RInv, Served, Delivering
<1>2. Cardinality(Served \cup {call}) = Cardinality(Served) + 1
  BY <1>1, ServedFinite, FS_AddElement
<1>3. Cardinality(Served \cup {call}) <= Cardinality(Calls)
  BY ServedFinite, CallsAssumption, FS_Subset
<1> QED
  BY <1>2, <1>3, ServedFinite DEF RInv, IssueState, IInv, TypeOK

LEMMA NoConflict ==
  ASSUME RInv, FreshIds, NEW call \in Calls, InsertConflicts(call)
  PROVE  FALSE
<1>1. /\ stage = "committed" /\ serial # <<>>
      /\ serial[1] = [kind |-> "acquire", call |-> call] /\ serial[1].call = call
  BY RunningJob DEF InsertConflicts, RInv, IInv
<1>2. IsNew(call) /\ ~HasLease(call)
  BY <1>1, NoLeaseYet DEF RInv, ReservationState
<1> DEFINE child == ChildOf[call]
<1>3. child \in Children /\ childClaims[child] \in Calls /\ child # NoChild
  BY CallsAssumption, NullAssumption DEF InsertConflicts, ChildAvailable, RInv, IInv, TypeOK
<1>4. PICK l \in leases : l.call = childClaims[child] /\ child \in OwnedBy(l)
  BY <1>3 DEF RInv, IInv, ClaimState
<1>5. child \in {ChildOf[l.call]} \cup RunIds[l.call]
  BY <1>3, <1>4 DEF OwnedBy, RInv, PermitState
<1>6. l.call \in Calls /\ l.call # call
  BY <1>2, <1>3, <1>4 DEF HasLease
<1> QED
  BY <1>2, <1>3, <1>5, <1>6 DEF FreshIds

(* A call into the authority changes nothing of what was issued.           *)
Outside(call) == AcquireClosed(call) \/ Acquire(call) \/ Abort(call) \/ Release(call)

LEMMA OutsideEffects ==
  ASSUME RInv, NEW call \in Calls, Outside(call)
  PROVE  /\ UNCHANGED <<stage, result, admissionClosed, leases, activeByRoot, permitCounter,
                        ledger, charged, issuedBefore, crashes>>
         /\ \A c \in Calls : status[c] \in {"queued", "granted"} => status'[c] = status[c]
         /\ \A c \in Calls : status'[c] = "granted" => status[c] = "granted"
         /\ stage # "start" => serial' # <<>> /\ serial'[1] = serial[1]
<1> USE DEF registryVars, durableVars, sectionVars, drainVars
<1>1. \A c \in Calls : \/ status'[c] = status[c]
                       \/ status[c] = "idle" /\ status'[c] \in {"queued", "ADMISSION_CLOSED"}
  BY DEF Outside, AcquireClosed, Acquire, Abort, Release, RInv, IInv, TypeOK
<1>2. ASSUME NEW job \in Jobs, serial' = Append(serial, job)
      PROVE  stage # "start" => serial' # <<>> /\ serial'[1] = serial[1]
  BY <1>2, Appended DEF RInv, IInv, QueueState
<1>3. stage # "start" => serial' # <<>> /\ serial'[1] = serial[1]
  BY <1>2 DEF Outside, AcquireClosed, Acquire, Abort, Release, RInv, IInv, QueueState, Jobs
<1>4. UNCHANGED <<stage, result, admissionClosed, leases, activeByRoot, permitCounter,
                  ledger, charged, issuedBefore, crashes>>
  BY DEF Outside, AcquireClosed, Acquire, Abort, Release
<1> QED
  BY <1>1, <1>3, <1>4

(* Whoever is served stays so.                                             *)
LEMMA ServedGrows ==
  ASSUME RInv, IInv', Served \subseteq Served',
         permitCounter' <= permitCounter, permitCounter' \in Nat,
         UNCHANGED <<issuedBefore, crashes>>
  PROVE  IssueState'
<1>1. Cardinality(Served) <= Cardinality(Served')
  BY FS_Subset, ServedFinite, CallsAssumption DEF Served
<1>2. Cardinality(Served') \in Nat
  BY CallsAssumption, FS_Subset, FS_CardinalityType DEF Served
<1> QED
  BY <1>1, <1>2, ServedFinite DEF RInv, IssueState, IInv, TypeOK

LEMMA OutsideKeeps ==
  ASSUME RInv, NEW call \in Calls, Outside(call)
  PROVE  RInv'
<1>1. IInv'
  BY OutsideSteps, AcquireKeeps, ReleaseKeeps DEF Outside, RInv
<1>2. PermitState'
  BY OutsideEffects DEF RInv, PermitState
<1>3. Served \subseteq Served'
  BY OutsideEffects DEF Served, Delivering
<1>4. IssueState'
  BY <1>1, <1>3, OutsideEffects, ServedGrows DEF RInv, IInv, TypeOK
<1>5. ReservationState'
  BY OutsideEffects DEF RInv, ReservationState, RowHasRoom
<1>6. ChargeState'
  BY <1>3, OutsideEffects DEF RInv, ChargeState
<1> QED
  BY <1>1, <1>2, <1>4, <1>5, <1>6 DEF RInv

LEMMA ClosingKeepsR ==
  ASSUME RInv, CloseAdmission \/ Drain \/ SectionIdle
  PROVE  RInv'
<1> USE DEF callVars, sectionVars, drainVars, registryVars, durableVars
<1>1. IInv'
  BY ClosingSteps, OutsideSteps DEF RInv
<1>2. /\ UNCHANGED <<status, serial, stage, result, permitCounter, ledger, charged,
                     issuedBefore, crashes>>
      /\ leases' = leases \/ leases' = Draining(leases)
  BY DEF CloseAdmission, Drain, SectionIdle
<1>3. PermitState'
  <2>1. CASE leases' = leases
    BY <1>2, <2>1 DEF RInv, PermitState
  <2>2. CASE leases' = Draining(leases)
    <3>1. \A l \in leases' : \E m \in leases :
            /\ l.permitId = m.permitId /\ l.call = m.call
            /\ l.childSessionId = m.childSessionId /\ l = [m EXCEPT !.phase = "draining"]
      BY <2>2 DEF Draining, RInv, IInv, TypeOK, Lease
    <3> QED
      BY <1>2, <3>1 DEF RInv, PermitState
  <2> QED
    BY <1>2, <2>1, <2>2
<1>4. Served' = Served
  BY <1>2 DEF Served, Delivering
<1>5. IssueState' /\ ReservationState' /\ ChargeState'
  BY <1>2, <1>4 DEF RInv, IssueState, ReservationState, RowHasRoom, ChargeState
<1> QED
  BY <1>1, <1>3, <1>5 DEF RInv

LEMMA BindKeepsR ==
  ASSUME RInv, NEW call \in Calls, NEW child \in RunIds[call], BindChild(call, child)
  PROVE  RInv'
<1> USE DEF callVars, sectionVars, drainVars, durableVars
<1>1. child \in Children
  BY CallsAssumption
<1>2. IInv'
  BY <1>1, BindKeeps DEF RInv
<1>3. /\ UNCHANGED <<status, serial, stage, result, permitCounter, ledger, charged,
                     issuedBefore, crashes>>
      /\ leases' = {IF l.call = call THEN [l EXCEPT !.childSessionId = child] ELSE l : l \in leases}
  BY DEF BindChild
<1>4. \A l \in leases' : \E m \in leases :
        /\ l.permitId = m.permitId /\ l.call = m.call
        /\ \/ l.childSessionId = m.childSessionId
           \/ l.call = call /\ l.childSessionId = child
        /\ l = IF m.call = call THEN [m EXCEPT !.childSessionId = child] ELSE m
  BY <1>3 DEF RInv, IInv, TypeOK, Lease
<1>5. PermitState'
  BY <1>3, <1>4 DEF RInv, PermitState
<1>6. Served' = Served
  BY <1>3 DEF Served, Delivering
<1>7. IssueState' /\ ReservationState' /\ ChargeState'
  BY <1>3, <1>6 DEF RInv, IssueState, ReservationState, RowHasRoom, ChargeState
<1> QED
  BY <1>2, <1>5, <1>7 DEF RInv

(* The steps of an acquisition that neither write nor insert.              *)
QuietStep(call) ==
  \/ EnterSection(call) \/ GuardAnswers(call) \/ ResolveFails(call)
  \/ ResolveMeetsClaim(call) \/ ResolveAnswersNew(call) \/ ReserveNew(call)
  \/ PutFails(call)
  \/ ResolveAnswersResume(call) /\ ActiveCapacity(RootOfCall(call)) # "accepted"

LEMMA QuietEffects ==
  ASSUME RInv, NEW call \in Calls, QuietStep(call)
  PROVE  /\ UNCHANGED <<status, serial, admissionClosed, leases, activeByRoot, permitCounter,
                        ledger, charged, issuedBefore, crashes>>
         /\ serial # <<>> /\ serial[1] = [kind |-> "acquire", call |-> call]
         /\ serial[1].call = call
         /\ stage \in {"start", "guard", "resolve", "reserve", "put"}
         /\ stage' \notin {"committed", "settled"}
         /\ stage' = "finished" => result' # "permit"
         /\ stage' = "reserve" => IsNew(call)
         /\ stage' = "put" => IsNew(call) /\ RowHasRoom(call)
         /\ stage' # "finished" => result' = result
         /\ stage = "start" /\ admissionClosed => stage' = "finished"
<1> USE DEF Elsewhere, NoEffect, Goto, Finish, callVars, registryVars
<1>0. TypeOK
  BY DEF RInv, IInv
<1>1. CASE EnterSection(call) \/ GuardAnswers(call) \/ ResolveFails(call)
  BY <1>0, <1>1, RunningJob DEF EnterSection, EntryVerdict, GuardAnswers, ResolveFails
<1>2. CASE ResolveMeetsClaim(call) \/ ResolveAnswersNew(call) \/ PutFails(call)
  BY <1>0, <1>2, RunningJob DEF ResolveMeetsClaim, ResolveAnswersNew, PutFails
<1>3. CASE ReserveNew(call)
  <2>1. /\ stage = "reserve" /\ serial # <<>> /\ serial[1] = [kind |-> "acquire", call |-> call]
        /\ serial[1].call = call
    BY <1>0, <1>3, RunningJob DEF ReserveNew
  <2>2. IsNew(call)
    BY <2>1 DEF RInv, ReservationState
  <2>3. CASE ReserveVerdict(call) = "accepted"
    <3>1. RootOfCall(call) \in Roots /\ ParentOf[call] \in Parents
      BY CallsAssumption DEF RootOfCall
    <3>2. ledger[RootOfCall(call)] \in LedgerRow
      BY <1>0, <3>1 DEF TypeOK
    <3>3. RowHasRoom(call)
      BY <2>3, <3>1, <3>2, LimitsAssumption DEF ReserveVerdict, RowHasRoom, LedgerRow, LimitsCoherent
    <3> QED
      BY <1>3, <2>1, <2>2, <2>3, <3>3 DEF ReserveNew
  <2>4. CASE ReserveVerdict(call) # "accepted"
    <3>1. ReserveVerdict(call) # "permit"
      BY DEF ReserveVerdict, ActiveCapacity
    <3> QED
      BY <1>3, <2>1, <2>4, <3>1 DEF ReserveNew
  <2> QED
    BY <2>3, <2>4
<1>4. CASE ResolveAnswersResume(call) /\ ActiveCapacity(RootOfCall(call)) # "accepted"
  <2>1. ActiveCapacity(RootOfCall(call)) # "permit"
    BY DEF ActiveCapacity
  <2> QED
    BY <1>0, <1>4, <2>1, RunningJob DEF ResolveAnswersResume
<1> QED
  BY <1>1, <1>2, <1>3, <1>4 DEF QuietStep

LEMMA QuietKeeps ==
  ASSUME RInv, NEW call \in Calls, QuietStep(call)
  PROVE  RInv'
<1>1. IInv'
  BY QuietSteps, InsertSteps DEF QuietStep, RInv
<1>2. PermitState' /\ ReservationState'
  BY QuietEffects DEF RInv, PermitState, ReservationState, RowHasRoom
<1>3. Served' = Served
  BY QuietEffects DEF Served, Delivering
<1>4. IssueState' /\ ChargeState'
  BY <1>3, QuietEffects DEF RInv, IssueState, ChargeState
<1> QED
  BY <1>1, <1>2, <1>4 DEF RInv

LEMMA PutKeeps ==
  ASSUME RInv, NEW call \in Calls, PutCommits(call)
  PROVE  RInv'
<1> USE DEF Elsewhere, Goto, callVars, registryVars
<1>1. IInv'
  BY QuietSteps DEF RInv
<1>2. /\ stage = "put" /\ serial # <<>> /\ serial[1] = [kind |-> "acquire", call |-> call]
      /\ serial[1].call = call
  BY RunningJob DEF PutCommits, RInv, IInv
<1>3. /\ UNCHANGED <<status, serial, result, leases, permitCounter, issuedBefore, crashes>>
      /\ stage' = "committed" /\ charged' = charged \cup {call}
  BY DEF PutCommits, Charge
<1>4. Served' = Served
  BY <1>2, <1>3 DEF Served, Delivering
<1>5. PermitState' /\ IssueState' /\ ReservationState' /\ ChargeState'
  BY <1>2, <1>3, <1>4 DEF RInv, PermitState, IssueState, ReservationState, ChargeState
<1> QED
  BY <1>1, <1>5 DEF RInv

(* An insertion, of a new child or a resumed one.                          *)
InsertStep(call) ==
  \/ InsertCommitted(call)
  \/ ResolveAnswersResume(call) /\ ActiveCapacity(RootOfCall(call)) = "accepted"

LEMMA InsertEffects ==
  ASSUME RInv, NEW call \in Calls, InsertStep(call)
  PROVE  /\ UNCHANGED <<status, serial, admissionClosed, ledger, charged, issuedBefore, crashes>>
         /\ serial # <<>> /\ serial[1] = [kind |-> "acquire", call |-> call]
         /\ serial[1].call = call
         /\ stage \in {"resolve", "committed"} /\ stage' = "finished" /\ result' = "permit"
         /\ status[call] = "queued" /\ ~HasLease(call)
         /\ \E new : /\ leases' = leases \cup {new} /\ new.call = call
                     /\ new.permitId = permitCounter
                     /\ new.childSessionId \in {NoChild, ChildOf[call]}
         /\ activeByRoot' = [activeByRoot EXCEPT ![RootOfCall(call)] = @ + 1]
         /\ permitCounter' = permitCounter + 1
<1> USE DEF Elsewhere, Finish, callVars
<1>1. /\ serial # <<>> /\ serial[1] = [kind |-> "acquire", call |-> call]
      /\ serial[1].call = call /\ stage \in {"resolve", "committed"}
  BY RunningJob DEF InsertStep, InsertCommitted, ResolveAnswersResume, RInv, IInv
<1>2. Insert(call) /\ stage' = "finished" /\ result' = "permit"
  BY DEF InsertStep, InsertCommitted, ResolveAnswersResume
<1> DEFINE new == [permitId |-> permitCounter, call |-> call,
                   childSessionId |-> IF IsNew(call) THEN NoChild ELSE ChildOf[call],
                   phase |-> IF admissionClosed THEN "draining" ELSE "active"]
<1>3. /\ leases' = leases \cup {new} /\ new.call = call /\ new.permitId = permitCounter
      /\ new.childSessionId \in {NoChild, ChildOf[call]}
  BY <1>2 DEF Insert
<1>4. status[call] = "queued" /\ ~HasLease(call)
  BY <1>1, NoLeaseYet DEF RInv
<1>5. UNCHANGED <<status, serial, admissionClosed, ledger, charged, issuedBefore, crashes>>
  BY DEF InsertStep, InsertCommitted, ResolveAnswersResume
<1> HIDE DEF new
<1> QED
  BY <1>1, <1>2, <1>3, <1>4, <1>5 DEF Insert

LEMMA InsertKeepsR ==
  ASSUME RInv, NEW call \in Calls, InsertStep(call)
  PROVE  RInv'
<1>1. IInv'
  BY InsertSteps DEF InsertStep, RInv
<1>2. PICK new : /\ leases' = leases \cup {new} /\ new.call = call
                 /\ new.permitId = permitCounter
                 /\ new.childSessionId \in {NoChild, ChildOf[call]}
  BY InsertEffects
<1>3. permitCounter' = permitCounter + 1 /\ permitCounter \in Nat
  BY InsertEffects DEF RInv, IInv, TypeOK
<1>4. \A l \in leases : l.permitId \in Nat
  BY DEF RInv, IInv, TypeOK, Lease
<1>5. PermitState'
  BY <1>2, <1>3, <1>4 DEF RInv, PermitState
<1>6. Served' = Served \cup {call} /\ call \notin Served
  BY InsertEffects DEF Served, Delivering
<1>7. IssueState'
  <2>1. Cardinality(Served') = Cardinality(Served) + 1
    BY <1>6, ServedFinite, FS_AddElement
  <2>2. permitCounter' <= Cardinality(Served')
    BY <1>3, <2>1, ServedFinite DEF RInv, IssueState
  <2>3. issuedBefore' <= crashes' * Cardinality(Calls) /\ crashes' <= MaxCrashes
    <3>1. issuedBefore' = issuedBefore /\ crashes' = crashes
      BY InsertEffects
    <3> QED
      BY <3>1 DEF RInv, IssueState
  <2> QED
    BY <2>2, <2>3 DEF IssueState
<1>8. ReservationState' /\ ChargeState'
  BY <1>6, InsertEffects DEF RInv, ReservationState, ChargeState
<1> QED
  BY <1>1, <1>5, <1>7, <1>8 DEF RInv

LEMMA DeliverKeepsR ==
  ASSUME RInv, NEW call \in Calls, Deliver(call)
  PROVE  RInv'
<1>1. IInv'
  BY DeliverKeeps DEF RInv
<1>2. /\ stage = "finished" /\ stage' = "settled" /\ serial # <<>>
      /\ serial[1] = [kind |-> "acquire", call |-> call] /\ serial[1].call = call
      /\ status' = [status EXCEPT ![call] = Settlement(call)]
      /\ UNCHANGED <<serial, leases, permitCounter, ledger, charged, issuedBefore, crashes>>
  BY RunningJob DEF Deliver, RInv, IInv, registryVars, durableVars
<1>3. PermitState' /\ ReservationState'
  BY <1>2 DEF RInv, PermitState, ReservationState
<1>4. Served \subseteq Served'
  <2> SUFFICES ASSUME NEW c \in Calls, status[c] = "granted" \/ Delivering(c)
               PROVE  status'[c] = "granted"
    BY DEF Served
  <2>1. CASE c = call
    <3>1. status[call] = "queued"
      BY <1>2 DEF RInv, IInv, QueueState, JobState, Over, TypeOK
    <3>2. result = "permit"
      BY <2>1, <3>1 DEF Delivering
    <3> QED
      BY <1>2, <2>1, <3>2 DEF Settlement, RInv, IInv, TypeOK
  <2>2. CASE c # call
    BY <1>2, <2>2 DEF Delivering, RInv, IInv, TypeOK
  <2> QED
    BY <2>1, <2>2
<1>5. permitCounter' \in Nat /\ permitCounter' <= permitCounter
  BY <1>2 DEF RInv, IInv, TypeOK
<1>6. IssueState'
  BY <1>1, <1>2, <1>4, <1>5, ServedGrows
<1>7. ChargeState'
  BY <1>2, <1>4 DEF RInv, ChargeState
<1> QED
  BY <1>1, <1>3, <1>6, <1>7 DEF RInv

LEMMA RemoveKeepsR ==
  ASSUME RInv, NEW call \in Calls, RemoveLease(call)
  PROVE  RInv'
<1>1. IInv'
  BY RemoveKeeps DEF RInv
<1>2. /\ stage = "start" /\ stage' = "settled" /\ leases' \subseteq leases
      /\ UNCHANGED <<status, serial, permitCounter, ledger, charged, issuedBefore, crashes>>
  BY RemovedLease DEF RemoveLease, RInv, callVars, durableVars
<1>3. PermitState' /\ ReservationState'
  BY <1>2 DEF RInv, PermitState, ReservationState
<1>4. Served' = Served
  BY <1>2 DEF Served, Delivering
<1>5. IssueState' /\ ChargeState'
  BY <1>2, <1>4 DEF RInv, IssueState, ChargeState
<1> QED
  BY <1>1, <1>3, <1>5 DEF RInv

LEMMA AdvanceKeepsR ==
  ASSUME RInv, Advance
  PROVE  RInv'
<1>1. IInv'
  BY AdvanceKeeps DEF RInv
<1>2. /\ stage = "settled" /\ stage' = "start"
      /\ UNCHANGED <<status, leases, permitCounter, ledger, charged, issuedBefore, crashes>>
  BY DEF Advance, Pop, callVars, registryVars, durableVars
<1>3. PermitState' /\ ReservationState'
  BY <1>2 DEF RInv, PermitState, ReservationState
<1>4. Served' = Served
  BY <1>2 DEF Served, Delivering
<1>5. IssueState' /\ ChargeState'
  BY <1>2, <1>4 DEF RInv, IssueState, ChargeState
<1> QED
  BY <1>1, <1>3, <1>5 DEF RInv

LEMMA CrashKeepsR ==
  ASSUME RInv, Crash
  PROVE  RInv'
<1>1. IInv'
  BY CrashKeeps DEF RInv
<1>2. /\ leases' = {} /\ charged' = {} /\ stage' = "start" /\ permitCounter' = 0
      /\ crashes' = crashes + 1 /\ crashes < MaxCrashes
      /\ issuedBefore' = issuedBefore + permitCounter + (IF stage = "committed" THEN 1 ELSE 0)
  BY DEF Crash
<1>3. PermitState' /\ ReservationState' /\ ChargeState'
  BY <1>2 DEF PermitState, ReservationState, ChargeState
<1>4. permitCounter + (IF stage = "committed" THEN 1 ELSE 0) <= Cardinality(Calls)
  <2>1. CASE stage = "committed"
    <3>1. serial # <<>> /\ serial[1].kind = "acquire" /\ 1 \in 1..Len(serial)
      BY <2>1 DEF RInv, IInv, QueueState, TypeOK
    <3>2. serial[1].call \in Calls /\ serial[1] = [kind |-> "acquire", call |-> serial[1].call]
      BY <3>1, JobTypes DEF RInv, IInv
    <3> QED
      BY <2>1, <3>1, <3>2, RoomToIssue DEF RInv, IInv, TypeOK
  <2>2. CASE stage # "committed"
    BY <2>2, ServedFinite DEF RInv, IssueState, IInv, TypeOK
  <2> QED
    BY <2>1, <2>2
<1>5. IssueState'
  <2>1. /\ issuedBefore \in Nat /\ permitCounter \in Nat /\ crashes \in Nat
        /\ MaxCrashes \in Nat /\ Cardinality(Calls) \in Nat
        /\ issuedBefore <= crashes * Cardinality(Calls)
    BY BoundAssumption, ServedFinite DEF RInv, IssueState, IInv, TypeOK
  <2>2. PICK all \in Nat, n \in Nat : all = Cardinality(Calls) /\ n = crashes
    BY <2>1
  <2>3. (n + 1) * all = n * all + all
    BY <2>2
  <2>4. issuedBefore' <= n * all + all
    BY <1>2, <1>4, <2>1, <2>2
  <2>5. permitCounter' <= Cardinality(Served')
    <3>1. IsFiniteSet(Served')
      BY CallsAssumption, FS_Subset DEF Served
    <3> QED
      BY <1>2, <3>1, FS_CardinalityType
  <2>6. crashes' <= MaxCrashes
    BY <1>2, <2>1
  <2> QED
    BY <1>2, <2>2, <2>3, <2>4, <2>5, <2>6 DEF IssueState
<1> QED
  BY <1>1, <1>3, <1>5 DEF RInv

LEMMA StepCases ==
  ASSUME [Next]_vars
  PROVE  \/ \E call \in Calls : \/ Outside(call) \/ QuietStep(call) \/ PutCommits(call)
                                \/ InsertStep(call) \/ InsertConflicts(call) \/ Deliver(call)
                                \/ RemoveLease(call)
         \/ \E call \in Calls : \E child \in RunIds[call] : BindChild(call, child)
         \/ CloseAdmission \/ Drain \/ SectionIdle \/ Advance \/ Crash \/ UNCHANGED vars
BY DEF Next, SectionStep, Outside, QuietStep, InsertStep

LEMMA StutterKeepsR ==
  ASSUME RInv, UNCHANGED vars
  PROVE  RInv'
<1> USE DEF vars, callVars, sectionVars, drainVars, registryVars, durableVars
<1>1. IInv'
  BY StutterKeeps DEF RInv
<1>2. Served' = Served
  BY DEF Served, Delivering
<1> QED
  BY <1>1, <1>2 DEF RInv, PermitState, IssueState, ReservationState, RowHasRoom, ChargeState

LEMMA RefinementInductive ==
  ASSUME FreshIds
  PROVE  RInv /\ [Next]_vars => RInv'
<1> SUFFICES ASSUME RInv, [Next]_vars PROVE RInv'
  OBVIOUS
<1>1. ASSUME NEW call \in Calls,
             \/ Outside(call) \/ QuietStep(call) \/ PutCommits(call)
             \/ InsertStep(call) \/ InsertConflicts(call) \/ Deliver(call)
             \/ RemoveLease(call)
      PROVE  RInv'
  BY <1>1, OutsideKeeps, QuietKeeps, PutKeeps, InsertKeepsR, NoConflict, DeliverKeepsR,
     RemoveKeepsR
<1>2. ASSUME NEW call \in Calls, NEW child \in RunIds[call], BindChild(call, child)
      PROVE  RInv'
  BY <1>2, BindKeepsR
<1>3. CASE CloseAdmission \/ Drain \/ SectionIdle
  BY <1>3, ClosingKeepsR
<1>4. CASE Advance \/ Crash \/ UNCHANGED vars
  BY <1>4, AdvanceKeepsR, CrashKeepsR, StutterKeepsR
<1> QED
  BY <1>1, <1>2, <1>3, <1>4, StepCases

LEMMA RefinementInit == Init => RInv
<1> SUFFICES ASSUME Init PROVE RInv
  OBVIOUS
<1>1. /\ leases = {} /\ charged = {} /\ stage = "start" /\ permitCounter = 0
      /\ issuedBefore = 0 /\ crashes = 0
  BY DEF Init, FreshProcess
<1>2. IssueState
  BY <1>1, ServedFinite, BoundAssumption DEF IssueState
<1> QED
  BY <1>1, <1>2, InitialState DEF RInv, PermitState, ReservationState, ChargeState

-----------------------------------------------------------------------------
(* Each step is a step of the model or leaves it as it is.                 *)
View(l) == AbstractPermit(l.permitId, l.call,
             IF status[l.call] = "granted" THEN l.childSessionId ELSE NoChild)

LEMMA ViewsDiffer ==
  ASSUME RInv
  PROVE  /\ AbstractPermits = {View(l) : l \in leases}
                                \cup {AbstractPermit(permitCounter, c, NoChild) : c \in Reserved}
         /\ \A l \in leases : View(l).permitId = issuedBefore + l.permitId
         /\ \A l, m \in leases : View(l).permitId = View(m).permitId => l = m
<1>1. AbstractPermits = {View(l) : l \in leases}
                          \cup {AbstractPermit(permitCounter, c, NoChild) : c \in Reserved}
  BY DEF AbstractPermits, View
<1>2. \A l \in leases : View(l).permitId = issuedBefore + l.permitId
  BY DEF View, AbstractPermit
<1>3. issuedBefore \in Nat /\ \A l \in leases : l.permitId \in Nat
  BY DEF RInv, IInv, TypeOK, Lease
<1> QED
  BY <1>1, <1>2, <1>3 DEF RInv, PermitState

LEMMA ReservedCall ==
  ASSUME RInv, stage = "committed"
  PROVE  Reserved = {serial[1].call} /\ serial # <<>>
BY DEF RInv, IInv, QueueState, TypeOK, Reserved

LEMMA UnloadOrStutter ==
  ASSUME UNCHANGED <<AGlobal, ARoot, ATotal, AChildren, AbstractPermits, ACounter>>,
         ALifecycle = "draining" => ALifecycle' = "draining"
  PROVE  [Model!Next]_(Model!vars)
<1>1. CASE ALifecycle' = ALifecycle
  BY <1>1, ModelState DEF AState
<1>2. CASE ALifecycle' # ALifecycle
  <2>1. ALifecycle = "open" /\ ALifecycle' = "draining"
    BY <1>2 DEF ALifecycle
  <2>2. Model!Unload
    BY <2>1 DEF Model!Unload, ALifecycle, AGlobal, ARoot, ATotal, AChildren, ACounter
  <2> QED
    BY <2>2 DEF Model!Next
<1> QED
  BY <1>1, <1>2

LEMMA LeaseCount ==
  ASSUME RInv
  PROVE  Cardinality(leases) = Cardinality(Holders) /\ IsFiniteSet(leases)
         /\ Cardinality(leases) \in Nat
BY CountedLeases, FS_CardinalityType DEF RInv, IInv

(* A step that leaves the permits alone, though it may close admission.    *)
LEMMA PermitsAlone ==
  ASSUME RInv, RInv', leases' = leases \/ leases' = Draining(leases),
         \A l \in leases : status'[l.call] = "granted" <=> status[l.call] = "granted",
         Reserved' = Reserved,
         UNCHANGED <<activeByRoot, permitCounter, ledger, issuedBefore>>,
         admissionClosed /\ ~InFlight => (admissionClosed /\ ~InFlight)'
  PROVE  [Model!Next]_(Model!vars)
<1>1. \A l \in leases : View(l)' = View(l)
  BY DEF View, AbstractPermit
<1>2. {View(l)' : l \in leases'} = {View(l) : l \in leases}
  <2>1. CASE leases' = leases
    BY <1>1, <2>1
  <2>2. CASE leases' = Draining(leases)
    <3>1. \A l \in leases : /\ [l EXCEPT !.phase = "draining"].permitId = l.permitId
                            /\ [l EXCEPT !.phase = "draining"].call = l.call
                            /\ [l EXCEPT !.phase = "draining"].childSessionId = l.childSessionId
      BY DEF RInv, IInv, TypeOK, Lease
    <3> DEFINE drained(l) == [l EXCEPT !.phase = "draining"]
               before(l) == View(l)
               after(l) == View(l)'
    <3>2. \A l \in leases : after(drained(l)) = before(l)
      BY <3>1 DEF View, AbstractPermit
    <3>3. leases' = {drained(l) : l \in leases}
      BY <2>2 DEF Draining
    <3> HIDE DEF drained, before, after
    <3>4. {after(l) : l \in leases'} = {before(l) : l \in leases}
      BY <3>2, <3>3
    <3> QED
      BY <3>4 DEF before, after
  <2> QED
    BY <2>1, <2>2
<1>3. AbstractPermits' = AbstractPermits
  BY <1>2 DEF AbstractPermits, View, AbstractPermit
<1>4. AGlobal' = AGlobal
  <2>1. Holders' = Holders
    BY DrainedLeases DEF RInv, Holders, HasLease
  <2>2. RInv' => (Cardinality(leases) = Cardinality(Holders))'
    BY LeaseCount, PTL
  <2> QED
    BY <2>1, <2>2, LeaseCount DEF AGlobal
<1>5. UNCHANGED <<ARoot, ATotal, AChildren, ACounter>>
  BY DEF ARoot, ATotal, AChildren, ACounter
<1>6. ALifecycle = "draining" => ALifecycle' = "draining"
  BY DEF ALifecycle
<1> QED
  BY <1>3, <1>4, <1>5, <1>6, UnloadOrStutter

LEMMA AloneSteps ==
  ASSUME RInv, RInv', \/ \E call \in Calls : Outside(call) \/ QuietStep(call)
                      \/ CloseAdmission \/ Drain \/ SectionIdle \/ Advance \/ UNCHANGED vars
  PROVE  [Model!Next]_(Model!vars)
<1> USE DEF callVars, sectionVars, drainVars, registryVars, durableVars
<1>1. serial \in Seq(Jobs) /\ serial' \in Seq(Jobs)
  BY DEF RInv, IInv, TypeOK
<1>2. \A l \in leases : l.call \in Calls /\ status[l.call] \in {"granted", "queued"}
  BY DEF RInv, IInv, TypeOK, Lease, LeaseState, Delivering
<1>3. ASSUME NEW call \in Calls, Outside(call)
      PROVE  [Model!Next]_(Model!vars)
  <2>1. UNCHANGED <<stage, result, admissionClosed, leases, activeByRoot, permitCounter, ledger,
                    issuedBefore>>
    BY <1>3, OutsideEffects
  <2>2. \A l \in leases : status'[l.call] = status[l.call]
    BY <1>2, <1>3, OutsideEffects
  <2>3. Reserved' = Reserved
    <3>1. CASE stage = "committed"
      <4>1. serial # <<>> /\ serial' # <<>> /\ serial'[1] = serial[1]
        BY <1>3, <3>1, OutsideEffects DEF RInv, IInv, QueueState
      <4>2. Head(serial') = Head(serial)
        BY <1>1, <4>1
      <4> QED
        BY <2>1, <4>2 DEF Reserved
    <3>2. CASE stage # "committed"
      BY <2>1, <3>2 DEF Reserved
    <3> QED
      BY <3>1, <3>2
  <2>4. admissionClosed /\ ~InFlight => (admissionClosed /\ ~InFlight)'
    BY <2>1 DEF InFlight
  <2> QED
    BY <2>1, <2>2, <2>3, <2>4, PermitsAlone
<1>4. ASSUME NEW call \in Calls, QuietStep(call)
      PROVE  [Model!Next]_(Model!vars)
  <2>1. Reserved' = Reserved
    BY <1>4, QuietEffects DEF Reserved
  <2>2. admissionClosed /\ ~InFlight => (admissionClosed /\ ~InFlight)'
    BY <1>4, QuietEffects DEF InFlight
  <2> QED
    BY <1>4, <2>1, <2>2, QuietEffects, PermitsAlone
<1>5. CASE CloseAdmission \/ Drain \/ SectionIdle
  <2>1. /\ UNCHANGED <<status, serial, stage, result, activeByRoot, permitCounter, ledger,
                       issuedBefore>>
        /\ leases' = leases \/ leases' = Draining(leases)
        /\ admissionClosed => admissionClosed'
    BY <1>5 DEF CloseAdmission, Drain, SectionIdle
  <2> QED
    BY <2>1, PermitsAlone DEF Reserved, InFlight
<1>6. CASE Advance
  <2>1. /\ UNCHANGED <<status, admissionClosed, leases, activeByRoot, permitCounter, ledger,
                       issuedBefore>>
        /\ stage = "settled" /\ stage' = "start" /\ result' = "none"
    BY <1>6 DEF Advance, Pop
  <2> QED
    BY <2>1, PermitsAlone DEF Reserved, InFlight
<1>7. CASE UNCHANGED vars
  BY <1>7, PermitsAlone DEF vars, Reserved, InFlight
<1> QED
  BY <1>3, <1>4, <1>5, <1>6, <1>7

(* The capacity that was found still stands, and the bound on the ids.     *)
LEMMA RoomInModel ==
  ASSUME RInv, NEW call \in Calls, stage \in {"resolve", "put"},
         serial # <<>>, serial[1] = [kind |-> "acquire", call |-> call],
         activeByRoot[RootOfCall(call)] < Limits.perRootActive,
         Cardinality(Holders) < Limits.globalActive
  PROVE  /\ Model!ColdResumeVerdict(RootOfCall(call)) = "accepted"
         /\ ACounter = issuedBefore + permitCounter
         /\ ACounter < Cardinality(Calls) * (MaxCrashes + 1)
<1>1. RootOfCall(call) \in Roots
  BY CallsAssumption DEF RootOfCall
<1>2. /\ activeByRoot[RootOfCall(call)] \in Nat /\ Cardinality(leases) \in Nat
      /\ Limits.perRootActive \in Nat /\ Limits.globalActive \in Nat
      /\ issuedBefore \in Nat /\ permitCounter \in Nat /\ crashes \in Nat /\ MaxCrashes \in Nat
  BY <1>1, LeaseCount, LimitsAssumption, BoundAssumption DEF RInv, IInv, TypeOK, LimitsCoherent
<1>3. /\ ALifecycle = "open" /\ ARoot[RootOfCall(call)] = activeByRoot[RootOfCall(call)]
      /\ AGlobal = Cardinality(leases) /\ ACounter = issuedBefore + permitCounter
  <2>1. /\ Cardinality(Reserved) = 0
        /\ Cardinality({c \in Reserved : RootOfCall(c) = RootOfCall(call)}) = 0
    BY NoneReserved
  <2>2. ALifecycle = "open"
    BY DEF ALifecycle, InFlight
  <2>3. ARoot[RootOfCall(call)] = activeByRoot[RootOfCall(call)] + 0
    BY <1>1, <2>1 DEF ARoot
  <2> QED
    BY <1>2, <2>1, <2>2, <2>3 DEF AGlobal, ACounter
<1>4. Model!ColdResumeVerdict(RootOfCall(call)) = "accepted"
  <2>1. ~(ARoot[RootOfCall(call)] >= Limits.perRootActive)
    BY <1>2, <1>3
  <2>2. ~(AGlobal >= Limits.globalActive)
    BY <1>2, <1>3, LeaseCount
  <2> QED
    BY <1>3, <2>1, <2>2
    DEF Model!ColdResumeVerdict, Model!RootActiveFull, Model!GlobalActiveFull, ALifecycle, ARoot,
        AGlobal
<1>5. ACounter < Cardinality(Calls) * (MaxCrashes + 1)
  <2>1. permitCounter + 1 <= Cardinality(Calls)
    BY RoomToIssue
  <2>2. PICK all \in Nat, n \in Nat, most \in Nat :
          all = Cardinality(Calls) /\ n = crashes /\ most = MaxCrashes
    BY <1>2, ServedFinite
  <2>3. issuedBefore <= n * all /\ n <= most
    BY <2>2 DEF RInv, IssueState
  <2>4. n * all <= most * all
    BY <2>2, <2>3
  <2>5. PICK before \in Nat, ever \in Nat : before = n * all /\ ever = most * all
    BY <2>2
  <2>6. ACounter < ever + all
    <3>1. issuedBefore <= ever /\ ever \in Nat /\ all \in Nat /\ permitCounter + 1 <= all
      BY <1>2, <2>1, <2>2, <2>3, <2>4, <2>5
    <3> QED
      BY <1>2, <1>3, <3>1
  <2>7. all * (most + 1) = most * all + all
    BY <2>2
  <2>8. ever + all = Cardinality(Calls) * (MaxCrashes + 1)
    BY <2>2, <2>5, <2>7
  <2> QED
    BY <2>6, <2>8
<1> QED
  BY <1>3, <1>4, <1>5

LEMMA ReservedOne ==
  ASSUME NEW call
  PROVE  /\ Cardinality({call}) = 1
         /\ \A root : Cardinality({c \in {call} : RootOfCall(c) = root})
                        = IF RootOfCall(call) = root THEN 1 ELSE 0
<1>1. Cardinality({call}) = 1 /\ Cardinality({}) = 0
  BY FS_Singleton, FS_EmptySet
<1>2. ASSUME NEW root
      PROVE  {c \in {call} : RootOfCall(c) = root}
               = IF RootOfCall(call) = root THEN {call} ELSE {}
  OBVIOUS
<1> QED
  BY <1>1, <1>2

(* The write of the ledger is the admission of a new child.                *)
LEMMA PutIsAdmission ==
  ASSUME RInv, RInv', NEW call \in Calls, PutCommits(call)
  PROVE  Model!NewAdmission(Operation[call], RootOfCall(call), ParentOf[call], FALSE)
<1> USE DEF Elsewhere, Goto, callVars, registryVars
<1> DEFINE root == RootOfCall(call)
           parent == ParentOf[call]
           permit == AbstractPermit(permitCounter, call, NoChild)
<1>1. /\ stage = "put" /\ serial # <<>> /\ serial[1] = [kind |-> "acquire", call |-> call]
      /\ serial[1].call = call
  BY RunningJob DEF PutCommits, RInv, IInv
<1>2. /\ UNCHANGED <<status, serial, result, admissionClosed, leases, activeByRoot,
                     permitCounter, issuedBefore>>
      /\ stage' = "committed" /\ Charge(call)
  BY DEF PutCommits
<1>3. root \in Roots /\ parent \in Parents /\ RootOf[parent] = root
  BY CallsAssumption DEF RootOfCall
<1>4. Reserved = {} /\ Reserved' = {call}
  BY <1>1, <1>2, ReservedCall DEF Reserved, RInv, IInv, TypeOK
<1>5. /\ activeByRoot[root] < Limits.perRootActive /\ Cardinality(Holders) < Limits.globalActive
      /\ RowHasRoom(call)
  BY <1>1 DEF RInv, IInv, CountState, ReservationState
<1>6. /\ Model!ColdResumeVerdict(root) = "accepted" /\ ACounter = issuedBefore + permitCounter
      /\ ACounter < Cardinality(Calls) * (MaxCrashes + 1)
  BY <1>1, <1>5, RoomInModel
<1>7. /\ ledger \in [Roots -> LedgerRow] /\ ledger[root] \in LedgerRow
      /\ \A r \in Roots : activeByRoot[r] \in Nat
      /\ issuedBefore \in Nat /\ permitCounter \in Nat /\ Cardinality(leases) \in Nat
  BY <1>3, LeaseCount DEF RInv, IInv, TypeOK
<1>8. Model!NewAdmissionVerdict(root, parent, FALSE) = "accepted"
  <2>1. ALifecycle = "open"
    BY <1>1 DEF ALifecycle, InFlight
  <2>2. /\ ~(ATotal[root] >= Limits.perRootAdmittedTotal)
        /\ ~(AChildren[parent] >= Limits.perParentChildren)
    BY <1>3, <1>5, <1>7, LimitsAssumption
    DEF ATotal, AChildren, RowHasRoom, LedgerRow, LimitsCoherent
  <2> QED
    BY <1>6, <2>1, <2>2 DEF Model!NewAdmissionVerdict, ALifecycle, ATotal, AChildren
<1>9. ALifecycle' = ALifecycle
  BY <1>1, <1>2 DEF ALifecycle, InFlight
<1>10. AGlobal' = AGlobal + 1 /\ ACounter' = ACounter + 1
  <2>1. Cardinality(Reserved) = 0 /\ Cardinality(Reserved') = 1
    BY <1>1, <1>4, NoneReserved, FS_Singleton
  <2>2. AGlobal = Cardinality(leases) + 0 /\ AGlobal' = Cardinality(leases) + 1
    BY <1>2, <2>1 DEF AGlobal
  <2>3. ACounter' = issuedBefore + permitCounter + 1
    BY <1>2, <2>1 DEF ACounter
  <2>4. ACounter = issuedBefore + permitCounter
    BY <1>6
  <2>5. ACounter' = ACounter + 1
    BY <1>7, <2>3, <2>4
  <2>6. AGlobal' = AGlobal + 1
    BY <1>7, <2>2
  <2> QED
    BY <2>5, <2>6
<1>11. ARoot' = [ARoot EXCEPT ![root] = @ + 1]
  <2>1. \A r \in Roots : ARoot[r] = activeByRoot[r]
    <3> TAKE r \in Roots
    <3>1. Cardinality({c \in Reserved : RootOfCall(c) = r}) = 0
      BY <1>1, NoneReserved
    <3> QED
      BY <1>7, <3>1 DEF ARoot
  <2>2. \A r \in Roots : ARoot'[r] = activeByRoot[r] + IF root = r THEN 1 ELSE 0
    <3> TAKE r \in Roots
    <3>1. Cardinality({c \in {call} : RootOfCall(c) = r}) = IF root = r THEN 1 ELSE 0
      BY ReservedOne
    <3>2. ARoot'[r] = activeByRoot[r] + Cardinality({c \in {call} : RootOfCall(c) = r})
      BY <1>2, <1>4 DEF ARoot
    <3> QED
      BY <3>1, <3>2
  <2>3. ARoot = [r \in Roots |-> ARoot[r]] /\ ARoot' = [r \in Roots |-> ARoot'[r]]
    BY DEF ARoot
  <2> QED
    BY <1>7, <2>1, <2>2, <2>3
<1>12. /\ ATotal' = [ATotal EXCEPT ![root] = @ + 1]
       /\ AChildren' = [AChildren EXCEPT ![parent] = @ + 1]
  <2> DEFINE row == ledger[root]
             children == [row.admittedChildrenByParent EXCEPT ![parent] = @ + 1]
  <2>1. /\ ledger'[root].admittedTotal = row.admittedTotal + 1
        /\ ledger'[root].admittedChildrenByParent = children
        /\ \A r \in Roots \ {root} : ledger'[r] = ledger[r]
    BY <1>2, <1>3, <1>7 DEF Charge, LedgerRow
  <2>2. /\ children[parent] = row.admittedChildrenByParent[parent] + 1
        /\ \A p \in Parents \ {parent} : children[p] = row.admittedChildrenByParent[p]
    BY <1>3, <1>7 DEF LedgerRow
  <2> HIDE DEF children
  <2>3. ATotal' = [ATotal EXCEPT ![root] = @ + 1]
    BY <1>3, <2>1 DEF ATotal
  <2>4. \A p \in Parents : AChildren'[p] = IF p = parent THEN AChildren[p] + 1 ELSE AChildren[p]
    BY <1>3, <2>1, <2>2, CallsAssumption DEF AChildren
  <2>5. AChildren' = [AChildren EXCEPT ![parent] = @ + 1]
    BY <1>3, <2>4 DEF AChildren
  <2> QED
    BY <2>3, <2>5
<1>13. AbstractPermits' = AbstractPermits \cup {permit}
  BY <1>2, <1>4 DEF AbstractPermits, AbstractPermit
<1>14. permit = [permitId |-> ACounter, rootId |-> root, parentId |-> parent,
                 operation |-> Operation[call], childId |-> NoChild]
  BY <1>6 DEF AbstractPermit
<1> HIDE DEF permit, root, parent
<1>15. Model!Activate(Operation[call], root, parent, TRUE)
  BY <1>6, <1>9, <1>10, <1>11, <1>12, <1>13, <1>14
  DEF Model!Activate, Model!Charged, Model!Increment, ALifecycle, AGlobal, ARoot, ATotal,
      AChildren, ACounter
<1> QED
  BY <1>8, <1>15 DEF Model!NewAdmission, root, parent

(* What an insertion does to what the model sees of the leases.            *)
LEMMA InsertedView ==
  ASSUME RInv, RInv', NEW call \in Calls, InsertStep(call)
  PROVE  /\ {View(l)' : l \in leases'} = {View(l) : l \in leases}
                                           \cup {AbstractPermit(permitCounter, call, NoChild)}
         /\ Cardinality(leases)' = Cardinality(leases) + 1
         /\ Reserved' = {}
<1>1. PICK new : /\ leases' = leases \cup {new} /\ new.call = call
                 /\ new.permitId = permitCounter
  BY InsertEffects
<1>2. /\ UNCHANGED <<status, issuedBefore>> /\ status[call] = "queued" /\ ~HasLease(call)
      /\ stage' = "finished"
  BY InsertEffects
<1> DEFINE before(l) == View(l)
           after(l) == View(l)'
           permit == AbstractPermit(permitCounter, call, NoChild)
<1>3. \A l \in leases : after(l) = before(l)
  BY <1>2 DEF View, AbstractPermit
<1>4. after(new) = permit
  BY <1>1, <1>2 DEF View, AbstractPermit
<1> HIDE DEF before, after, permit
<1>5. {after(l) : l \in leases'} = {before(l) : l \in leases} \cup {permit}
  BY <1>1, <1>3, <1>4
<1>6. Cardinality(leases)' = Cardinality(leases) + 1
  <2>1. new \notin leases
    BY <1>1, <1>2 DEF HasLease
  <2> QED
    BY <1>1, <2>1, LeaseCount, FS_AddElement
<1>7. Reserved' = {}
  BY <1>2 DEF Reserved
<1> QED
  BY <1>5, <1>6, <1>7 DEF before, after, permit

LEMMA InsertedRoot ==
  ASSUME RInv, NEW call \in Calls, InsertStep(call)
  PROVE  ARoot' = [root \in Roots |-> activeByRoot[root] + IF RootOfCall(call) = root THEN 1 ELSE 0]
<1>1. RootOfCall(call) \in Roots /\ activeByRoot \in [Roots -> Nat]
  BY CallsAssumption DEF RootOfCall, RInv, IInv, TypeOK
<1>2. /\ activeByRoot' = [activeByRoot EXCEPT ![RootOfCall(call)] = @ + 1]
      /\ Reserved' = {}
  BY InsertEffects DEF Reserved
<1>3. \A root \in Roots : ARoot'[root] = activeByRoot[root] + IF RootOfCall(call) = root THEN 1 ELSE 0
  <2> TAKE root \in Roots
  <2>1. Cardinality({c \in {} : RootOfCall(c) = root}) = 0
    BY FS_EmptySet
  <2>2. ARoot'[root] = activeByRoot'[root] + Cardinality({c \in {} : RootOfCall(c) = root})
    BY <1>2 DEF ARoot
  <2> QED
    BY <1>1, <1>2, <2>1, <2>2
<1> QED
  BY <1>3 DEF ARoot

LEMMA InsertCommittedStutters ==
  ASSUME RInv, RInv', NEW call \in Calls, InsertCommitted(call)
  PROVE  UNCHANGED Model!vars
<1>0. InsertStep(call)
  BY DEF InsertStep
<1>1. /\ stage = "committed" /\ serial[1].call = call
      /\ UNCHANGED <<status, serial, admissionClosed, ledger, issuedBefore>>
      /\ stage' = "finished" /\ result' = "permit" /\ permitCounter' = permitCounter + 1
  BY <1>0, RunningJob, InsertEffects DEF InsertCommitted, RInv, IInv
<1>2. Reserved = {call}
  BY <1>1, ReservedCall
<1>3. /\ issuedBefore \in Nat /\ permitCounter \in Nat /\ Cardinality(leases) \in Nat
      /\ Cardinality({}) = 0 /\ Cardinality({call}) = 1
  BY LeaseCount, FS_EmptySet, FS_Singleton DEF RInv, IInv, TypeOK
<1>4. AGlobal' = AGlobal /\ ACounter' = ACounter /\ ALifecycle' = ALifecycle
  <2>1. /\ Reserved' = {} /\ Cardinality(Reserved) = 1 /\ Cardinality(Reserved') = 0
        /\ Cardinality(leases)' = Cardinality(leases) + 1
    BY <1>0, <1>2, <1>3, InsertedView
  <2>2. AGlobal' = AGlobal
    BY <1>3, <2>1 DEF AGlobal
  <2>3. ACounter' = ACounter
    BY <1>1, <1>3, <2>1 DEF ACounter
  <2>4. ALifecycle' = ALifecycle
    BY <1>1 DEF ALifecycle, InFlight
  <2> QED
    BY <2>2, <2>3, <2>4
<1>5. ARoot' = ARoot
  <2>1. \A root \in Roots : Cardinality({c \in Reserved : RootOfCall(c) = root})
                              = IF RootOfCall(call) = root THEN 1 ELSE 0
    BY <1>2, ReservedOne
  <2>2. ARoot = [root \in Roots |-> activeByRoot[root] + IF RootOfCall(call) = root THEN 1 ELSE 0]
    BY <2>1 DEF ARoot
  <2> QED
    BY <1>0, <2>2, InsertedRoot
<1>6. AbstractPermits' = AbstractPermits
  <2>1. AbstractPermits = {View(l) : l \in leases} \cup {AbstractPermit(permitCounter, call, NoChild)}
    BY <1>2, ViewsDiffer
  <2>2. AbstractPermits' = {View(l)' : l \in leases'}
    BY <1>0, InsertedView DEF AbstractPermits, View
  <2> QED
    BY <1>0, <2>1, <2>2, InsertedView
<1>7. UNCHANGED <<ATotal, AChildren>>
  BY <1>1 DEF ATotal, AChildren
<1> QED
  BY <1>4, <1>5, <1>6, <1>7, ModelState DEF AState

LEMMA ResumeIsAdmission ==
  ASSUME RInv, RInv', NEW call \in Calls,
         ResolveAnswersResume(call), ActiveCapacity(RootOfCall(call)) = "accepted"
  PROVE  Model!ColdResume(RootOfCall(call), ParentOf[call])
<1> DEFINE root == RootOfCall(call)
           parent == ParentOf[call]
           permit == AbstractPermit(permitCounter, call, NoChild)
<1>0. InsertStep(call)
  BY DEF InsertStep
<1>1. /\ stage = "resolve" /\ serial # <<>> /\ serial[1] = [kind |-> "acquire", call |-> call]
      /\ ~IsNew(call)
  BY RunningJob DEF ResolveAnswersResume, RInv, IInv
<1>2. /\ UNCHANGED <<status, serial, admissionClosed, ledger, issuedBefore>>
      /\ stage' = "finished" /\ result' = "permit" /\ permitCounter' = permitCounter + 1
  BY <1>0, InsertEffects
<1>3. root \in Roots /\ Operation[call] = "cold-resume"
  BY <1>1, CallsAssumption DEF RootOfCall, IsNew, Operations
<1>4. activeByRoot[root] < Limits.perRootActive /\ Cardinality(Holders) < Limits.globalActive
  BY <1>3, Capacity DEF RInv
<1>5. /\ Model!ColdResumeVerdict(root) = "accepted" /\ ACounter = issuedBefore + permitCounter
      /\ ACounter < Cardinality(Calls) * (MaxCrashes + 1)
  BY <1>1, <1>4, RoomInModel
<1>6. /\ issuedBefore \in Nat /\ permitCounter \in Nat /\ Cardinality(leases) \in Nat
      /\ Cardinality({}) = 0 /\ Reserved = {} /\ Reserved' = {}
      /\ \A r \in Roots : activeByRoot[r] \in Nat
  BY <1>0, <1>1, LeaseCount, FS_EmptySet, InsertedView, NoneReserved DEF RInv, IInv, TypeOK
<1>7. AGlobal' = AGlobal + 1 /\ ACounter' = ACounter + 1 /\ ALifecycle' = ALifecycle
  BY <1>0, <1>1, <1>2, <1>6, InsertedView DEF AGlobal, ACounter, ALifecycle, InFlight
<1>8. ARoot' = [ARoot EXCEPT ![root] = @ + 1]
  <2>1. \A r \in Roots : ARoot[r] = activeByRoot[r]
    <3> TAKE r \in Roots
    <3>1. Cardinality({c \in Reserved : RootOfCall(c) = r}) = 0
      BY <1>1, NoneReserved
    <3> QED
      BY <1>6, <3>1 DEF ARoot
  <2>2. \A r \in Roots : ARoot'[r] = activeByRoot[r] + IF root = r THEN 1 ELSE 0
    BY <1>0, InsertedRoot
  <2>3. ARoot = [r \in Roots |-> ARoot[r]] /\ ARoot' = [r \in Roots |-> ARoot'[r]]
    BY DEF ARoot
  <2> QED
    BY <1>6, <2>1, <2>2, <2>3
<1>9. AbstractPermits' = AbstractPermits \cup {permit}
  <2>1. AbstractPermits = {View(l) : l \in leases}
    BY <1>6, ViewsDiffer
  <2>2. AbstractPermits' = {View(l)' : l \in leases'}
    BY <1>6 DEF AbstractPermits, View
  <2> QED
    BY <1>0, <2>1, <2>2, InsertedView
<1>10. permit = [permitId |-> ACounter, rootId |-> root, parentId |-> parent,
                 operation |-> "cold-resume", childId |-> NoChild]
  BY <1>3, <1>5 DEF AbstractPermit
<1>11. UNCHANGED <<ATotal, AChildren>>
  BY <1>2 DEF ATotal, AChildren
<1> HIDE DEF permit, root, parent
<1>12. Model!Activate("cold-resume", root, parent, FALSE)
  BY <1>5, <1>7, <1>8, <1>9, <1>10, <1>11
  DEF Model!Activate, Model!Charged, Model!Increment, ALifecycle, AGlobal, ARoot, ATotal,
      AChildren, ACounter
<1> QED
  BY <1>5, <1>12 DEF Model!ColdResume, root, parent

(* A step that binds one lease for the model, and changes nothing else.    *)
LEMMA ViewBound ==
  ASSUME RInv, NEW mine \in leases, NEW child \in Children,
         View(mine).childId = NoChild, Reserved' = Reserved,
         {View(l)' : l \in leases'}
           = {IF l = mine THEN [View(l) EXCEPT !.childId = child] ELSE View(l) : l \in leases},
         Cardinality(leases)' = Cardinality(leases),
         ALifecycle' = ALifecycle,
         UNCHANGED <<activeByRoot, permitCounter, ledger, issuedBefore>>
  PROVE  Model!Next
<1> DEFINE permit == View(mine)
           bound == [permit EXCEPT !.childId = child]
           view(l) == View(l)
           reserved == {AbstractPermit(permitCounter, c, NoChild) : c \in Reserved}
<1>1. permit \notin reserved
  <2>1. \A c \in Reserved : AbstractPermit(permitCounter, c, NoChild).permitId
                              = issuedBefore + permitCounter
    BY DEF AbstractPermit
  <2>2. permit.permitId = issuedBefore + mine.permitId
    BY ViewsDiffer
  <2>3. /\ issuedBefore \in Nat /\ permitCounter \in Nat /\ mine.permitId \in Nat
        /\ mine.permitId < permitCounter
    BY DEF RInv, PermitState, IInv, TypeOK, Lease
  <2>4. issuedBefore + mine.permitId # issuedBefore + permitCounter
    BY <2>3
  <2> QED
    BY <2>1, <2>2, <2>4
<1>2. \A l \in leases : view(l) = permit => l = mine
  BY ViewsDiffer
<1>3. AbstractPermits = {view(l) : l \in leases} \cup reserved
  BY ViewsDiffer
<1>4. AbstractPermits' = {View(l)' : l \in leases'} \cup reserved
  BY DEF AbstractPermits, View, AbstractPermit
<1>5. {View(l)' : l \in leases'} = {IF l = mine THEN bound ELSE view(l) : l \in leases}
  OBVIOUS
<1>6. permit \in AbstractPermits /\ permit = view(mine)
  BY <1>3
<1>7. permit.childId = NoChild
  OBVIOUS
<1> HIDE DEF permit, bound, view, reserved
<1>8. AbstractPermits' = (AbstractPermits \ {permit}) \cup {bound}
  <2>1. {IF l = mine THEN bound ELSE view(l) : l \in leases}
          = ({view(l) : l \in leases} \ {permit}) \cup {bound}
    BY <1>2, <1>6
  <2> QED
    BY <1>1, <1>3, <1>4, <1>5, <2>1
<1>9. UNCHANGED <<AGlobal, ARoot, ATotal, AChildren, ACounter>>
  BY DEF AGlobal, ARoot, ATotal, AChildren, ACounter
<1>10. Model!Bound(permit, child)
  BY <1>8, <1>9
  DEF Model!Bound, bound, ALifecycle, AGlobal, ARoot, ATotal, AChildren, ACounter
<1> QED
  BY <1>6, <1>7, <1>10 DEF Model!Bind, Model!Next

LEMMA BindIsBind ==
  ASSUME RInv, RInv', NEW call \in Calls, NEW child \in RunIds[call], BindChild(call, child)
  PROVE  [Model!Next]_(Model!vars)
<1> USE DEF callVars, sectionVars, drainVars, durableVars
<1>1. PICK mine \in leases : mine.call = call /\ LeaseOf(call) = mine
  BY DEF BindChild, RInv, IInv, CallState, HasLease, LeaseOf
<1>2. /\ mine.childSessionId = NoChild /\ status[call] = "granted" /\ child \in Children
      /\ UNCHANGED <<status, serial, stage, result, admissionClosed, activeByRoot, permitCounter,
                     ledger, issuedBefore>>
      /\ leases' = {IF l.call = call THEN [l EXCEPT !.childSessionId = child] ELSE l : l \in leases}
  BY <1>1, CallsAssumption DEF BindChild, Bindable
<1> DEFINE bound(l) == IF l.call = call THEN [l EXCEPT !.childSessionId = child] ELSE l
           after(l) == View(l)'
           next(l) == IF l = mine THEN [View(l) EXCEPT !.childId = child] ELSE View(l)
<1>3. \A l \in leases : /\ l.call = call <=> l = mine
                        /\ bound(l).call = l.call /\ bound(l).permitId = l.permitId
                        /\ l # mine => bound(l) = l
                        /\ l = mine => bound(l).childSessionId = child
  BY <1>1 DEF RInv, IInv, LeaseState, TypeOK, Lease
<1>4. leases' = {bound(l) : l \in leases}
  BY <1>2
<1>5. \A l \in leases : after(bound(l)) = next(l)
  <2> TAKE l \in leases
  <2> HIDE DEF bound
  <2>1. CASE l = mine
    BY <1>1, <1>2, <1>3, <2>1 DEF View, AbstractPermit
  <2>2. CASE l # mine
    BY <1>2, <1>3, <2>2 DEF View, AbstractPermit
  <2> QED
    BY <2>1, <2>2
<1>6. View(mine).childId = NoChild
  BY <1>2 DEF View, AbstractPermit
<1>7. {after(l) : l \in leases'} = {next(l) : l \in leases}
  <2> HIDE DEF bound, after, next
  <2> QED
    BY <1>4, <1>5
<1>8. Cardinality(leases)' = Cardinality(leases)
  <2>1. \A c : HasLease(c)' <=> HasLease(c)
    <3> HIDE DEF bound
    <3> QED
      BY <1>3, <1>4 DEF HasLease
  <2>2. Holders' = Holders
    BY <2>1 DEF Holders
  <2>3. RInv' => (Cardinality(leases) = Cardinality(Holders))'
    BY LeaseCount, PTL
  <2> QED
    BY <2>2, <2>3, LeaseCount
<1>9. ALifecycle' = ALifecycle
  BY <1>2 DEF ALifecycle, InFlight
<1>10. Reserved' = Reserved
  BY <1>2 DEF Reserved
<1> QED
  BY <1>2, <1>6, <1>7, <1>8, <1>9, <1>10, ViewBound

(* A permit that reaches its caller may have been bound on the way.        *)
LEMMA DeliverIsBind ==
  ASSUME RInv, RInv', NEW call \in Calls, Deliver(call)
  PROVE  [Model!Next]_(Model!vars)
<1>1. /\ stage = "finished" /\ stage' = "settled" /\ serial # <<>>
      /\ serial[1] = [kind |-> "acquire", call |-> call] /\ serial[1].call = call
      /\ serial[1].kind = "acquire" /\ 1 \in 1..Len(serial)
      /\ status' = [status EXCEPT ![call] = Settlement(call)]
      /\ UNCHANGED <<serial, result, admissionClosed, leases, activeByRoot, permitCounter, ledger,
                     issuedBefore>>
  BY RunningJob DEF Deliver, RInv, IInv, TypeOK, registryVars, durableVars, drainVars
<1>2. status[call] = "queued" /\ status \in [Calls -> {"idle", "queued", "granted", "aborted"} \cup Codes]
  BY <1>1 DEF RInv, IInv, QueueState, JobState, Over, TypeOK
<1>3. \A l \in leases : l.call \in Calls
  BY DEF RInv, IInv, TypeOK, Lease
<1>4. \A c \in Calls \ {call} : status'[c] = status[c]
  BY <1>1, <1>2
<1>5. Reserved' = Reserved /\ ALifecycle' = ALifecycle
  BY <1>1 DEF Reserved, ALifecycle, InFlight
<1>6. CASE result # "permit"
  <2>1. \A l \in leases : l.call # call
    BY <1>2, <1>6 DEF RInv, IInv, LeaseState, Delivering
  <2>2. \A l \in leases : status'[l.call] = status[l.call]
    BY <1>3, <1>4, <2>1
  <2>3. admissionClosed /\ ~InFlight => (admissionClosed /\ ~InFlight)'
    BY <1>1 DEF InFlight
  <2> QED
    BY <1>1, <1>5, <2>2, <2>3, PermitsAlone
<1>7. CASE result = "permit"
  <2>1. PICK mine \in leases : mine.call = call
    BY <1>1, <1>7 DEF RInv, IInv, QueueState, HasLease
  <2>2. status'[call] = "granted"
    BY <1>1, <1>2, <1>7 DEF Settlement
  <2>3. \A l \in leases : l.call = call <=> l = mine
    BY <2>1 DEF RInv, IInv, LeaseState
  <2>4. \A l \in leases : l # mine => View(l)' = View(l)
    BY <1>1, <1>3, <1>4, <2>3 DEF View, AbstractPermit
  <2>5. View(mine).childId = NoChild /\ View(mine)' = [View(mine) EXCEPT !.childId = mine.childSessionId]
    BY <1>1, <1>2, <2>1, <2>2 DEF View, AbstractPermit
  <2> DEFINE after(l) == View(l)'
             next(l) == IF l = mine THEN [View(l) EXCEPT !.childId = mine.childSessionId] ELSE View(l)
  <2>6. \A l \in leases : after(l) = next(l)
    BY <2>4, <2>5
  <2>7. {after(l) : l \in leases'} = {next(l) : l \in leases}
    <3> HIDE DEF after, next
    <3> QED
      BY <1>1, <2>6
  <2>8. CASE mine.childSessionId \in Children
    BY <1>1, <1>5, <2>5, <2>7, <2>8, ViewBound
  <2>9. CASE mine.childSessionId = NoChild
    <3>1. View(mine)' = View(mine)
      BY <2>5, <2>9 DEF View, AbstractPermit
    <3>2. \A l \in leases : View(l)' = View(l)
      BY <2>4, <3>1
    <3>3. AbstractPermits' = AbstractPermits
      BY <1>1, <1>5, <3>2 DEF AbstractPermits, View, AbstractPermit
    <3>4. UNCHANGED <<AGlobal, ARoot, ATotal, AChildren, ACounter>>
      BY <1>1, <1>5 DEF AGlobal, ARoot, ATotal, AChildren, ACounter
    <3> QED
      BY <1>5, <3>3, <3>4, UnloadOrStutter
  <2>10. mine.childSessionId \in Children \cup {NoChild}
    BY DEF RInv, IInv, TypeOK, Lease
  <2> QED
    BY <2>8, <2>9, <2>10
<1> QED
  BY <1>6, <1>7

LEMMA RemoveIsRelease ==
  ASSUME RInv, RInv', NEW call \in Calls, RemoveLease(call)
  PROVE  Model!Next
<1>1. /\ HasLease(call) /\ leases' = {l \in leases : l.call # call} /\ stage = "start"
      /\ stage' = "settled"
      /\ activeByRoot' = [activeByRoot EXCEPT ![RootOfCall(call)] = @ - 1]
      /\ UNCHANGED <<status, result, admissionClosed, permitCounter, ledger, issuedBefore>>
  BY RemovedLease DEF RemoveLease, RInv, callVars, durableVars
<1>2. PICK mine \in leases : mine.call = call
  BY <1>1 DEF HasLease
<1> DEFINE permit == View(mine)
           root == RootOfCall(call)
           view(l) == View(l)
<1>3. \A l \in leases : l.call = call <=> l = mine
  BY <1>2 DEF RInv, IInv, LeaseState
<1>4. leases' = leases \ {mine}
  BY <1>1, <1>3
<1>5. Reserved = {} /\ Reserved' = {}
  BY <1>1 DEF Reserved
<1>6. permit \in AbstractPermits /\ AbstractPermits' = AbstractPermits \ {permit}
  <2>1. AbstractPermits = {view(l) : l \in leases}
    BY <1>5, ViewsDiffer
  <2>2. AbstractPermits' = {view(l) : l \in leases'}
    BY <1>1, <1>5 DEF AbstractPermits, View, AbstractPermit
  <2>3. permit = view(mine) /\ \A l \in leases : view(l) = permit => l = mine
    BY ViewsDiffer
  <2> HIDE DEF permit, view
  <2> QED
    BY <1>4, <2>1, <2>2, <2>3
<1>7. /\ root \in Roots /\ activeByRoot \in [Roots -> Nat] /\ activeByRoot' \in [Roots -> Nat]
      /\ Cardinality(leases) \in Nat /\ Cardinality({}) = 0
  BY CallsAssumption, LeaseCount, FS_EmptySet DEF RootOfCall, RInv, IInv, TypeOK
<1>8. AGlobal' = AGlobal - 1
  <2>1. Cardinality(leases') = Cardinality(leases) - 1
    BY <1>4, LeaseCount, FS_RemoveElement
  <2>2. AGlobal = Cardinality(leases) + 0 /\ AGlobal' = Cardinality(leases') + 0
    BY <1>5, <1>7 DEF AGlobal
  <2> QED
    BY <1>7, <2>1, <2>2
<1>9. ARoot' = [ARoot EXCEPT ![root] = IF @ > 1 THEN @ - 1 ELSE 0]
  <2>1. \A r \in Roots : ARoot[r] = activeByRoot[r] /\ ARoot'[r] = activeByRoot'[r]
    <3> TAKE r \in Roots
    <3>1. Cardinality({c \in {} : RootOfCall(c) = r}) = 0
      BY FS_EmptySet
    <3>2. /\ ARoot[r] = activeByRoot[r] + Cardinality({c \in {} : RootOfCall(c) = r})
          /\ ARoot'[r] = activeByRoot'[r] + Cardinality({c \in {} : RootOfCall(c) = r})
      BY <1>5 DEF ARoot
    <3> QED
      BY <1>7, <3>1, <3>2
  <2>2. activeByRoot'[root] = activeByRoot[root] - 1 /\ activeByRoot'[root] \in Nat
    BY <1>1, <1>7
  <2>3. activeByRoot'[root] = IF activeByRoot[root] > 1 THEN activeByRoot[root] - 1 ELSE 0
    BY <1>7, <2>2
  <2>4. \A r \in Roots \ {root} : activeByRoot'[r] = activeByRoot[r]
    BY <1>1, <1>7
  <2>5. ARoot = [r \in Roots |-> ARoot[r]] /\ ARoot' = [r \in Roots |-> ARoot'[r]]
    BY DEF ARoot
  <2> QED
    BY <1>7, <2>1, <2>3, <2>4, <2>5
<1>10. permit.rootId = root
  BY <1>2 DEF View, AbstractPermit
<1>11. UNCHANGED <<ALifecycle, ATotal, AChildren, ACounter>>
  BY <1>1, <1>5 DEF ALifecycle, InFlight, ATotal, AChildren, ACounter
<1> HIDE DEF permit, root
<1>12. Model!Release(permit)
  BY <1>6, <1>8, <1>9, <1>10, <1>11
  DEF Model!Release, Model!Decrement, ALifecycle, AGlobal, ARoot, ATotal, AChildren, ACounter
<1> QED
  BY <1>6, <1>12 DEF Model!Release, Model!Next

LEMMA CrashIsRestart ==
  ASSUME RInv, Crash
  PROVE  Model!Next
<1>1. /\ leases' = {} /\ stage' = "start" /\ admissionClosed' = FALSE /\ permitCounter' = 0
      /\ activeByRoot' = [r \in Roots |-> 0] /\ ledger' = ledger
      /\ issuedBefore' = issuedBefore + permitCounter + (IF stage = "committed" THEN 1 ELSE 0)
  BY DEF Crash, Recovered
<1>2. Reserved' = {} /\ Cardinality({}) = 0
  BY <1>1, FS_EmptySet DEF Reserved
<1>3. Cardinality(Reserved) = IF stage = "committed" THEN 1 ELSE 0
  <2>1. CASE stage = "committed"
    BY <2>1, ReservedCall, FS_Singleton
  <2>2. CASE stage # "committed"
    BY <2>2, NoneReserved
  <2> QED
    BY <2>1, <2>2
<1>4. ACounter' = ACounter
  <2>1. issuedBefore \in Nat /\ permitCounter \in Nat
    BY DEF RInv, IInv, TypeOK
  <2>2. ACounter' = issuedBefore' + 0 + 0
    BY <1>1, <1>2 DEF ACounter
  <2> QED
    BY <1>1, <1>3, <2>1, <2>2 DEF ACounter
<1>5. ALifecycle' = "open" /\ AGlobal' = 0 /\ AbstractPermits' = {}
  BY <1>1, <1>2 DEF ALifecycle, AGlobal, AbstractPermits
<1>6. ARoot' = [r \in Roots |-> 0]
  <2>1. \A r \in Roots : ARoot'[r] = 0
    <3> TAKE r \in Roots
    <3>1. Cardinality({c \in {} : RootOfCall(c) = r}) = 0
      BY FS_EmptySet
    <3> QED
      BY <1>1, <1>2, <3>1 DEF ARoot
  <2> QED
    BY <2>1 DEF ARoot
<1>7. UNCHANGED <<ATotal, AChildren>>
  BY <1>1 DEF ATotal, AChildren
<1>8. Model!Restart
  BY <1>4, <1>5, <1>6, <1>7
  DEF Model!Restart, ALifecycle, AGlobal, ARoot, ATotal, AChildren, ACounter
<1> QED
  BY <1>8 DEF Model!Next

LEMMA StepRefines ==
  ASSUME FreshIds, RInv, RInv', [Next]_vars
  PROVE  [Model!Next]_(Model!vars)
<1>1. ASSUME NEW call \in Calls, Outside(call) \/ QuietStep(call)
      PROVE  [Model!Next]_(Model!vars)
  BY <1>1, AloneSteps
<1>2. ASSUME NEW call \in Calls
      PROVE  RootOfCall(call) \in Roots /\ ParentOf[call] \in Parents
  BY CallsAssumption DEF RootOfCall
<1>3. ASSUME NEW call \in Calls, PutCommits(call)
      PROVE  [Model!Next]_(Model!vars)
  <2>1. Model!NewAdmission(Operation[call], RootOfCall(call), ParentOf[call], FALSE)
    BY <1>3, PutIsAdmission
  <2>2. Operation[call] \in Model!NewOperations
    BY <1>3, RunningJob
    DEF PutCommits, RInv, IInv, ReservationState, IsNew, NewOperations, Model!NewOperations
  <2> QED
    BY <1>2, <2>1, <2>2 DEF Model!Next
<1>4. ASSUME NEW call \in Calls, InsertStep(call)
      PROVE  [Model!Next]_(Model!vars)
  <2>1. CASE InsertCommitted(call)
    BY <2>1, InsertCommittedStutters
  <2>2. CASE ResolveAnswersResume(call) /\ ActiveCapacity(RootOfCall(call)) = "accepted"
    <3>1. Model!ColdResume(RootOfCall(call), ParentOf[call])
      BY <2>2, ResumeIsAdmission
    <3> QED
      BY <1>2, <3>1 DEF Model!Next
  <2> QED
    BY <1>4, <2>1, <2>2 DEF InsertStep
<1>5. ASSUME NEW call \in Calls, InsertConflicts(call) \/ Deliver(call) \/ RemoveLease(call)
      PROVE  [Model!Next]_(Model!vars)
  BY <1>5, NoConflict, DeliverIsBind, RemoveIsRelease
<1>6. ASSUME NEW call \in Calls, NEW child \in RunIds[call], BindChild(call, child)
      PROVE  [Model!Next]_(Model!vars)
  BY <1>6, BindIsBind
<1>7. CASE CloseAdmission \/ Drain \/ SectionIdle \/ Advance \/ UNCHANGED vars
  BY <1>7, AloneSteps
<1>8. CASE Crash
  BY <1>8, CrashIsRestart
<1> QED
  BY <1>1, <1>3, <1>4, <1>5, <1>6, <1>7, <1>8, StepCases

-----------------------------------------------------------------------------
(* What the authority does, in any interleaving of its calls' awaits and   *)
(* through any crash, is a behaviour of the pure state model: a write of   *)
(* the ledger admits a new child, an insertion a resumed one, a crash is a *)
(* restart.                                                                *)
THEOREM Implements == FreshIds /\ Spec => ImplementsModel
<1> SUFFICES ASSUME FreshIds PROVE Spec => ImplementsModel
  BY DEF FreshIds
<1>1. Init => RInv /\ Model!Init
  BY RefinementInit, InitRefines
<1>2. RInv /\ [Next]_vars => RInv'
  BY RefinementInductive
<1>3. RInv /\ RInv' /\ [Next]_vars => [Model!Next]_(Model!vars)
  BY StepRefines
<1> QED
  BY <1>1, <1>2, <1>3, PTL DEF Spec, ImplementsModel, Model!Spec

(* A call that ends without a permit was charged nothing.                  *)
THEOREM DenialIsFree == FreshIds /\ Spec => []DenialChangesNothing
<1> SUFFICES ASSUME FreshIds PROVE Spec => []DenialChangesNothing
  BY DEF FreshIds
<1>1. Init => RInv
  BY RefinementInit
<1>2. RInv /\ [Next]_vars => RInv'
  BY RefinementInductive
<1>3. RInv => DenialChangesNothing
  <2> SUFFICES ASSUME RInv, NEW call \in charged PROVE status[call] \in {"queued", "granted"}
    BY DEF DenialChangesNothing
  <2>1. CASE call \in Served
    BY <2>1 DEF Served, Delivering, RInv, IInv, QueueState, JobState, Over, TypeOK
  <2>2. CASE stage = "committed" /\ serial[1].call = call
    BY <2>2 DEF RInv, IInv, QueueState, JobState, Over, TypeOK
  <2> QED
    BY <2>1, <2>2 DEF RInv, ChargeState
<1> QED
  BY <1>1, <1>2, <1>3, PTL DEF Spec

-----------------------------------------------------------------------------
(* The step of an acquisition that is at one of the deciding awaits.       *)
LEMMA WhoDecides ==
  ASSUME RInv, [Next]_vars, NEW call \in Calls, NEW where \in {"resolve", "reserve", "put"},
         At("acquire", call, where), stage' # stage \/ result' # result, ~Crash
  PROVE  \/ /\ where = "resolve"
            /\ \/ ResolveFails(call) \/ ResolveMeetsClaim(call)
               \/ ResolveAnswersNew(call) \/ ResolveAnswersResume(call)
         \/ where = "reserve" /\ ReserveNew(call)
         \/ where = "put" /\ (PutFails(call) \/ PutCommits(call))
<1> USE DEF callVars, sectionVars, drainVars, registryVars, durableVars
<1>1. /\ stage = where /\ serial # <<>> /\ serial[1] = [kind |-> "acquire", call |-> call]
      /\ serial[1].call = call
  BY RunningJob DEF RInv, IInv
<1>2. ~(\E c \in Calls : Outside(c))
  BY OutsideEffects
<1>3. ~(\E c \in Calls : \E child \in RunIds[c] : BindChild(c, child))
  BY DEF BindChild
<1>4. ~(CloseAdmission \/ Drain \/ SectionIdle \/ Advance \/ UNCHANGED vars)
  BY <1>1 DEF CloseAdmission, Drain, SectionIdle, Advance, vars
<1>5. ASSUME NEW c \in Calls, QuietStep(c) \/ PutCommits(c) \/ InsertStep(c) \/ InsertConflicts(c)
                               \/ Deliver(c) \/ RemoveLease(c)
      PROVE  /\ c = call \/ RemoveLease(c)
             /\ stage \in {"resolve", "reserve", "put"}
  <2>1. TypeOK
    BY DEF RInv, IInv
  <2>2. ASSUME NEW place, At("acquire", c, place)
        PROVE  c = call
    BY <1>1, <2>1, <2>2, RunningJob
  <2>3. \/ RemoveLease(c)
        \/ \E place \in Stages : At("acquire", c, place)
    BY <1>5
    DEF QuietStep, InsertStep, PutCommits, InsertConflicts, Deliver, EnterSection, GuardAnswers,
        ResolveFails, ResolveMeetsClaim, ResolveAnswersNew, ResolveAnswersResume, ReserveNew,
        PutFails, InsertCommitted, Stages
  <2> QED
    BY <1>1, <2>2, <2>3
<1>6. PICK c \in Calls : QuietStep(c) \/ PutCommits(c) \/ InsertStep(c) \/ InsertConflicts(c)
                           \/ Deliver(c) \/ RemoveLease(c)
  BY <1>2, <1>3, <1>4, StepCases
<1>7. ~RemoveLease(c)
  BY <1>1 DEF RemoveLease, At
<1>8. c = call
  BY <1>5, <1>6, <1>7
<1>9. /\ ~EnterSection(call) /\ ~GuardAnswers(call) /\ ~InsertCommitted(call)
      /\ ~InsertConflicts(call) /\ ~Deliver(call)
  BY <1>1 DEF EnterSection, GuardAnswers, InsertCommitted, InsertConflicts, Deliver, At
<1>10. \/ ResolveFails(call) \/ ResolveMeetsClaim(call) \/ ResolveAnswersNew(call)
       \/ ResolveAnswersResume(call) \/ ReserveNew(call) \/ PutFails(call) \/ PutCommits(call)
  BY <1>6, <1>7, <1>8, <1>9 DEF QuietStep, InsertStep
<1> QED
  BY <1>1, <1>10
  DEF ResolveFails, ResolveMeetsClaim, ResolveAnswersNew, ResolveAnswersResume, ReserveNew,
      PutFails, PutCommits, At

(* Between those awaits the verdicts of the two are the same expression.   *)
LEMMA SameVerdicts ==
  ASSUME RInv, NEW call \in Calls, stage \in {"resolve", "reserve", "put"}
  PROVE  /\ Model!ColdResumeVerdict(RootOfCall(call)) = ActiveCapacity(RootOfCall(call))
         /\ Model!NewAdmissionVerdict(RootOfCall(call), ParentOf[call], FALSE)
              = ReserveVerdict(call)
         /\ ReserveVerdict(call) = "accepted" =>
              Model!NewAdmissionVerdict(RootOfCall(call), ParentOf[call], TRUE)
                = "ADMISSION_STATE_IO"
<1> DEFINE root == RootOfCall(call)
           parent == ParentOf[call]
<1>1. root \in Roots /\ parent \in Parents /\ RootOf[parent] = root
  BY CallsAssumption DEF RootOfCall
<1>2. ALifecycle = "open"
  BY DEF ALifecycle, InFlight
<1>3. ATotal[root] = ledger[root].admittedTotal
      /\ AChildren[parent] = ledger[root].admittedChildrenByParent[parent]
  BY <1>1 DEF ATotal, AChildren
<1>4. ARoot[root] = activeByRoot[root] /\ AGlobal = Cardinality(leases)
  <2>1. /\ Cardinality(Reserved) = 0
        /\ Cardinality({c \in Reserved : RootOfCall(c) = root}) = 0
    BY NoneReserved
  <2>2. activeByRoot[root] \in Nat /\ Cardinality(leases) \in Nat
    BY <1>1, LeaseCount DEF RInv, IInv, TypeOK
  <2>3. ARoot[root] = activeByRoot[root] + 0 /\ AGlobal = Cardinality(leases) + 0
    BY <1>1, <2>1 DEF ARoot, AGlobal
  <2> QED
    BY <2>2, <2>3
<1>5. Model!ColdResumeVerdict(root) = ActiveCapacity(root)
  BY <1>2, <1>4
  DEF Model!ColdResumeVerdict, Model!RootActiveFull, Model!GlobalActiveFull, ActiveCapacity,
      ALifecycle, ARoot, AGlobal
<1>6. /\ Model!NewAdmissionVerdict(root, parent, FALSE) = ReserveVerdict(call)
      /\ ReserveVerdict(call) = "accepted" =>
           Model!NewAdmissionVerdict(root, parent, TRUE) = "ADMISSION_STATE_IO"
  BY <1>2, <1>3, <1>5
  DEF Model!NewAdmissionVerdict, ReserveVerdict, ALifecycle, ATotal, AChildren
<1> QED
  BY <1>5, <1>6

(* What the checks found before the write is what they would find now.     *)
LEMMA StillAccepted ==
  ASSUME RInv, NEW call \in Calls, stage = "put", serial # <<>>, serial[1].call = call
  PROVE  ReserveVerdict(call) = "accepted"
<1>1. RootOfCall(call) \in Roots /\ ParentOf[call] \in Parents
  BY CallsAssumption DEF RootOfCall
<1>2. /\ ledger[RootOfCall(call)] \in LedgerRow /\ activeByRoot[RootOfCall(call)] \in Nat
      /\ Cardinality(leases) \in Nat
  BY <1>1, LeaseCount DEF RInv, IInv, TypeOK
<1>3. /\ RowHasRoom(call)
      /\ activeByRoot[RootOfCall(call)] < Limits.perRootActive
      /\ Cardinality(leases) < Limits.globalActive
  BY LeaseCount DEF RInv, IInv, CountState, ReservationState
<1>4. ActiveCapacity(RootOfCall(call)) = "accepted"
  BY <1>2, <1>3, LimitsAssumption DEF ActiveCapacity, LimitsCoherent
<1> QED
  BY <1>1, <1>2, <1>3, <1>4, LimitsAssumption
  DEF ReserveVerdict, RowHasRoom, LedgerRow, LimitsCoherent

LEMMA VerdictOfStep ==
  ASSUME RInv, [Next]_vars, NEW call \in Calls
  PROVE  /\ At("acquire", call, "reserve") /\ stage' = "put" =>
              Model!NewAdmissionVerdict(RootOfCall(call), ParentOf[call], FALSE) = "accepted"
         /\ At("acquire", call, "reserve") /\ result' \in LimitCodes =>
              Model!NewAdmissionVerdict(RootOfCall(call), ParentOf[call], FALSE) = result'
         /\ At("acquire", call, "put") /\ stage' = "finished" =>
              Model!NewAdmissionVerdict(RootOfCall(call), ParentOf[call], TRUE) = result'
         /\ At("acquire", call, "resolve") /\ result' \in LimitCodes =>
              Model!ColdResumeVerdict(RootOfCall(call)) = result'
<1> USE DEF Goto, Finish
<1>1. Crash => stage' = "start" /\ result' = "none"
  BY DEF Crash
<1>2. ASSUME At("acquire", call, "reserve"), stage' = "put" \/ result' \in LimitCodes
      PROVE  /\ stage' = "put" => ReserveVerdict(call) = "accepted"
             /\ result' \in LimitCodes => ReserveVerdict(call) = result'
             /\ stage = "reserve"
  <2>1. stage = "reserve" /\ result = "none"
    BY <1>2 DEF At, RInv, IInv, QueueState
  <2>2. ReserveNew(call)
    BY <1>1, <1>2, <2>1, WhoDecides DEF LimitCodes
  <2> QED
    BY <1>2, <2>1, <2>2 DEF ReserveNew, LimitCodes
<1>3. ASSUME At("acquire", call, "put"), stage' = "finished"
      PROVE  /\ ReserveVerdict(call) = "accepted" /\ result' = "ADMISSION_STATE_IO"
             /\ stage = "put"
  <2>1. stage = "put" /\ serial # <<>> /\ serial[1].call = call
    BY <1>3, RunningJob DEF At, RInv, IInv
  <2>2. PutFails(call)
    BY <1>1, <1>3, <2>1, WhoDecides DEF PutCommits
  <2> QED
    BY <2>1, <2>2, StillAccepted DEF PutFails
<1>4. ASSUME At("acquire", call, "resolve"), result' \in LimitCodes
      PROVE  ActiveCapacity(RootOfCall(call)) = result' /\ stage = "resolve"
  <2>1. stage = "resolve" /\ result = "none"
    BY <1>4 DEF At, RInv, IInv, QueueState
  <2>2. \/ ResolveFails(call) \/ ResolveMeetsClaim(call)
        \/ ResolveAnswersNew(call) \/ ResolveAnswersResume(call)
    BY <1>1, <1>4, <2>1, WhoDecides DEF LimitCodes
  <2> QED
    BY <1>4, <2>1, <2>2
    DEF ResolveFails, ResolveMeetsClaim, ResolveAnswersNew, ResolveAnswersResume, LimitCodes
<1> QED
  BY <1>2, <1>3, <1>4, SameVerdicts

(* Whatever limit an acquisition is told of at the await that decides it,  *)
(* it passes or its write fails, the state model would have answered the   *)
(* same in that state; a row that cannot be read is not of the model.      *)
THEOREM SameAnswers == FreshIds /\ Spec => VerdictsAgree
<1> SUFFICES ASSUME FreshIds PROVE Spec => VerdictsAgree
  BY DEF FreshIds
<1> DEFINE Answers ==
      \A call \in Calls :
        /\ At("acquire", call, "reserve") /\ stage' = "put" =>
             Model!NewAdmissionVerdict(RootOfCall(call), ParentOf[call], FALSE) = "accepted"
        /\ At("acquire", call, "reserve") /\ result' \in LimitCodes =>
             Model!NewAdmissionVerdict(RootOfCall(call), ParentOf[call], FALSE) = result'
        /\ At("acquire", call, "put") /\ stage' = "finished" =>
             Model!NewAdmissionVerdict(RootOfCall(call), ParentOf[call], TRUE) = result'
        /\ At("acquire", call, "resolve") /\ result' \in LimitCodes =>
             Model!ColdResumeVerdict(RootOfCall(call)) = result'
<1>1. Init => RInv
  BY RefinementInit
<1>2. RInv /\ [Next]_vars => RInv'
  BY RefinementInductive
<1>3. RInv /\ [Next]_vars => Answers
  BY VerdictOfStep
<1>4. RInv /\ [Next]_vars => [Answers]_vars
  BY <1>3
<1> QED
  BY <1>1, <1>2, <1>4, PTL DEF Spec, VerdictsAgree
================================================================================
