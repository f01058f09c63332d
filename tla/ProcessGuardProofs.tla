------------------------- MODULE ProcessGuardProofs -------------------------
(***************************************************************************)
(* The process guard, for any number of processes: its types, mutual       *)
(* exclusion among them unless one was misled, the progress of a process   *)
(* that nobody disturbs, and what a release removes.                       *)
(***************************************************************************)
EXTENDS ProcessGuard, FiniteSetTheorems, TLAPS

LEMMA RetryTypes ==
  ASSUME TypeOK, NEW p \in Procs, Retry(p)
  PROVE  pc' \in [Procs -> Phases] /\ attempt' \in [Procs -> 0..2]
BY DEF Retry, MayRetry, Goto, TypeOK, Phases, Acquiring

LEMMA AcquireTypes ==
  ASSUME TypeOK, NEW p \in alive,
         \/ Mkdir(p) \/ InspectDirectory(p) \/ ReadOwner(p) \/ ProbePid(p)
         \/ CheckDestination(p) \/ LookAgain(p)
         \/ PinDirectory(p) \/ Confirm(p)
  PROVE  /\ pc' \in [Procs -> Phases] /\ attempt' \in [Procs -> 0..2]
         /\ seen' \in [Procs -> MaybeProc] /\ pinned' \in [Procs -> MaybeProc]
         /\ path' \in MaybeProc /\ UNCHANGED <<quarantined, away, files>>
<1> USE DEF Goto, TypeOK, Phases, Acquiring, MaybeProc, names, files
<1>1. CASE Mkdir(p)
  BY <1>1 DEF Mkdir
<1>2. CASE InspectDirectory(p)
  BY <1>2, RetryTypes DEF InspectDirectory
<1>3. CASE ReadOwner(p)
  BY <1>3 DEF ReadOwner, Recorded
<1>4. CASE ProbePid(p)
  BY <1>4 DEF ProbePid
<1>5. CASE CheckDestination(p)
  BY <1>5 DEF CheckDestination
<1>6. CASE LookAgain(p)
  BY <1>6, RetryTypes DEF LookAgain
<1>7. CASE PinDirectory(p)
  BY <1>7 DEF PinDirectory
<1>8. CASE Confirm(p)
  BY <1>8 DEF Confirm
<1> QED
  BY <1>1, <1>2, <1>3, <1>4, <1>5, <1>6, <1>7, <1>8

LEMMA QuarantineTypes ==
  ASSUME TypeOK, NEW p \in alive, Quarantine(p)
  PROVE  /\ pc' \in [Procs -> Phases] /\ attempt' \in [Procs -> 0..2]
         /\ path' \in MaybeProc /\ quarantined' \in [Procs -> MaybeProc]
         /\ UNCHANGED <<away, seen, pinned, files>>
<1>1. CASE Retry(p)
  BY <1>1, RetryTypes DEF Quarantine, TypeOK, MaybeProc, names
<1>2. CASE ~Retry(p)
  BY <1>2 DEF Quarantine, TypeOK, Goto, Phases, Acquiring, names
<1> QED
  BY <1>1, <1>2

LEMMA PublishTypes ==
  ASSUME TypeOK, NEW p \in alive, OpenTemp(p) \/ PublishOwner(p) \/ AcquireFails(p)
  PROVE  /\ pc' \in [Procs -> Phases]
         /\ owner' \in [Procs -> MaybeProc] /\ temps' \in [Procs -> SUBSET Procs]
         /\ UNCHANGED <<attempt, seen, pinned, names>>
<1>1. p \in Procs /\ (path # NoOne => path \in Procs)
  BY DEF TypeOK, MaybeProc
<1>2. Unlinked(p) \in [Procs -> SUBSET Procs]
  BY <1>1 DEF Unlinked, TempAtPath, TypeOK
<1>3. CASE OpenTemp(p)
  BY <1>1, <1>3 DEF OpenTemp, TypeOK, Goto, Phases, Acquiring
<1>4. CASE PublishOwner(p)
  BY <1>1, <1>2, <1>4 DEF PublishOwner, TempAtPath, TypeOK, Goto, Phases, Acquiring, MaybeProc
<1>5. CASE AcquireFails(p)
  BY <1>1, <1>2, <1>5 DEF AcquireFails, TypeOK, Goto, Phases
<1> QED
  BY <1>3, <1>4, <1>5

LEMMA HolderTypes ==
  ASSUME TypeOK, NEW p \in alive,
         \/ AssertHeld(p) \/ AdmissionEnds(p) \/ BeginRelease(p) \/ MoveAway(p)
         \/ Dismantle(p) \/ ReleaseFails(p)
  PROVE  /\ pc' \in [Procs -> Phases] /\ path' \in MaybeProc
         /\ away' \in [Procs -> MaybeProc] /\ owner' \in [Procs -> MaybeProc]
         /\ UNCHANGED <<attempt, seen, pinned, quarantined, temps>>
<1> USE DEF Goto, TypeOK, Phases, Releasing, Acquiring, MaybeProc, names, files
<1>1. CASE AssertHeld(p) \/ AdmissionEnds(p)
  BY <1>1 DEF AssertHeld, AdmissionEnds
<1>2. CASE BeginRelease(p)
  BY <1>2 DEF BeginRelease
<1>3. CASE MoveAway(p)
  BY <1>3 DEF MoveAway
<1>4. CASE Dismantle(p)
  BY <1>4 DEF Dismantle
<1>5. CASE ReleaseFails(p)
  BY <1>5 DEF ReleaseFails
<1> QED
  BY <1>1, <1>2, <1>3, <1>4, <1>5

LEMMA NextTypes == ASSUME TypeOK, [Next]_vars PROVE TypeOK'
<1>1. ASSUME NEW p \in alive, Works(p) \/ AcquireFails(p) \/ ReleaseFails(p),
             alive' = alive, alone' \subseteq Procs, misled' \in BOOLEAN
      PROVE  TypeOK'
  <2>1. CASE \/ Mkdir(p) \/ InspectDirectory(p) \/ ReadOwner(p) \/ ProbePid(p)
             \/ CheckDestination(p) \/ LookAgain(p) \/ PinDirectory(p) \/ Confirm(p)
    BY <1>1, <2>1, AcquireTypes DEF TypeOK, files
  <2>2. CASE Quarantine(p)
    BY <1>1, <2>2, QuarantineTypes DEF TypeOK, files
  <2>3. CASE OpenTemp(p) \/ PublishOwner(p) \/ AcquireFails(p)
    BY <1>1, <2>3, PublishTypes DEF TypeOK, names
  <2>4. CASE \/ AssertHeld(p) \/ AdmissionEnds(p) \/ BeginRelease(p) \/ MoveAway(p)
             \/ Dismantle(p) \/ ReleaseFails(p)
    BY <1>1, <2>4, HolderTypes DEF TypeOK
  <2> QED
    BY <1>1, <2>1, <2>2, <2>3, <2>4 DEF Works
<1>2. ASSUME NEW p \in alive PROVE Undisturbed(p) \subseteq Procs
  BY <1>2 DEF Undisturbed, TypeOK
<1>3. ASSUME NEW p \in alive, Die(p), alone' = {}, misled' \in BOOLEAN PROVE TypeOK'
  BY <1>3 DEF Die, Goto, TypeOK, Phases, MaybeProc, names, files
<1>4. CASE UNCHANGED vars
  BY <1>4 DEF TypeOK, vars, names, files
<1> QED
  BY <1>1, <1>2, <1>3, <1>4 DEF Next

(* The guard's state keeps its shape for any set of processes; in          *)
(* particular acquire() never starts a fourth attempt.                     *)
THEOREM TypeCorrect == Spec => []TypeOK
<1>1. Init => TypeOK
  <2>1. Init => misled \in BOOLEAN
    BY ZenonT(10) DEF Init
  <2> QED
    BY <2>1 DEF Init, TypeOK, Phases, MaybeProc
<1> QED
  BY <1>1, NextTypes, PTL DEF Spec

-----------------------------------------------------------------------------
(* Mutual exclusion.                                                       *)

(* From its mkdir on to the rename of its release, a live process is the   *)
(* maker of what is at the path; after that rename its directory is not    *)
(* there any more.                                                         *)
Making == {"opening", "publishing", "pinning", "confirming", "held", "admitting", "leaving"}
MakerAtPath ==
  \A p \in alive : /\ pc[p] \in Making => path = p
                   /\ pc[p] = "dismantling" => path # p

(* So every record lies in its author's own directory, and only the dead   *)
(* have been quarantined.                                                  *)
OwnRecords == \A dir \in Procs : owner[dir] \in {dir, NoOne}
DeadQuarantined == \A p \in alive : quarantined[p] = NoOne

(* What a contender decided from stays true: the record it read is at the  *)
(* path or has been quarantined under its nonce, where it makes the next   *)
(* rename to that name fail; and its author, once dead, stays dead.  Only  *)
(* before the probe can the author have given it up in a release.          *)
Deciding == {"probing", "checking", "moving", "looking"}
PastRename == {"dismantling", "unreleased", "released"}
Kept(dir) ==
  dir \in Procs /\ owner[dir] = dir /\ (path = dir \/ quarantined[dir] = dir)
Gone(dir) ==
  dir \in Procs /\ GivenUp(dir) /\ path # dir /\ (dir \in alive => pc[dir] \in PastRename)
DecisionsStand ==
  \A p \in alive : pc[p] \in Deciding =>
    \/ Kept(seen[p]) /\ (pc[p] # "probing" => seen[p] \notin alive)
    \/ pc[p] = "probing" /\ Gone(seen[p])

OwnerInv ==
  TypeOK /\ MakerAtPath /\ OwnRecords /\ DeadQuarantined /\ DecisionsStand

(* A decision of another process than p stands after a step of p that      *)
(* leaves the living alone, if each record is still kept or given up.      *)
LEMMA OthersDecide ==
  ASSUME OwnerInv, NEW p \in alive, alive' = alive,
         \A q \in Procs \ {p} : pc'[q] = pc[q] /\ seen'[q] = seen[q],
         \A dir \in Procs : Kept(dir) => Kept(dir)' \/ (dir \in alive /\ Gone(dir)'),
         \A dir \in Procs : Gone(dir) => Gone(dir)',
         pc'[p] \in Deciding =>
           \/ Kept(seen[p])' /\ (pc'[p] # "probing" => seen'[p] \notin alive)
           \/ pc'[p] = "probing" /\ Gone(seen[p])'
  PROVE  DecisionsStand'
<1> SUFFICES ASSUME NEW q \in alive, pc'[q] \in Deciding
             PROVE  \/ Kept(seen[q])' /\ (pc'[q] # "probing" => seen'[q] \notin alive)
                    \/ pc'[q] = "probing" /\ Gone(seen[q])'
  BY DEF DecisionsStand
<1>1. CASE q = p
  BY <1>1
<1>2. CASE q # p
  <2>1. q \in Procs /\ pc'[q] = pc[q] /\ seen'[q] = seen[q]
    BY <1>2 DEF OwnerInv, TypeOK
  <2>2. \/ Kept(seen[q]) /\ (pc[q] # "probing" => seen[q] \notin alive)
        \/ pc[q] = "probing" /\ Gone(seen[q])
    BY <2>1 DEF OwnerInv, DecisionsStand
  <2>3. seen[q] \in Procs
    BY <2>2 DEF Kept, Gone
  <2>4. Kept(seen[q])' <=> (Kept(seen[q])' /\ seen'[q] = seen[q])
    BY <2>1
  <2>5. \A dir \in Procs : dir = seen[q] =>
          (Kept(dir)' => Kept(seen[q])') /\ (Gone(dir)' => Gone(seen[q])')
    BY <2>1 DEF Kept, Gone, GivenUp
  <2> QED
    BY <2>1, <2>2, <2>3, <2>5
<1> QED
  BY <1>1, <1>2

(* A step that leaves names, records and the living alone and takes one    *)
(* process to a phase where it neither makes nor decides anything new.     *)
LEMMA QuietStep ==
  ASSUME OwnerInv, TypeOK', NEW p \in alive, NEW phase,
         Goto(p, phase), UNCHANGED <<alive, names, owner>>,
         \A q \in Procs \ {p} : seen'[q] = seen[q],
         phase # "dismantling",
         pc[p] \in PastRename => phase \in PastRename,
         phase \in Making => path = p,
         phase \in Deciding =>
           \/ Kept(seen'[p]) /\ (phase # "probing" => seen'[p] \notin alive)
           \/ phase = "probing" /\ Gone(seen'[p])
  PROVE  OwnerInv'
<1>1. \A q \in Procs : pc'[q] = IF q = p THEN phase ELSE pc[q]
  BY DEF Goto, OwnerInv, TypeOK
<1>2. p \in Procs /\ alive \subseteq Procs
  BY DEF OwnerInv, TypeOK
<1>3. MakerAtPath' /\ OwnRecords' /\ DeadQuarantined'
  BY <1>1, <1>2 DEF OwnerInv, MakerAtPath, OwnRecords, DeadQuarantined, names
<1>4. \A dir : Kept(dir) => Kept(dir)'
  BY DEF Kept, names
<1>5. \A dir : Gone(dir) => Gone(dir)'
  BY <1>1 DEF Gone, GivenUp, names
<1>6. Kept(seen'[p]) => Kept(seen[p])'
  BY DEF Kept, names
<1>7. Gone(seen'[p]) => Gone(seen[p])'
  BY <1>1 DEF Gone, GivenUp, names
<1>8. DecisionsStand'
  BY <1>1, <1>2, <1>4, <1>5, <1>6, <1>7, OthersDecide
<1> QED
  BY <1>3, <1>8 DEF OwnerInv

LEMMA RetryPhase ==
  ASSUME NEW p, Retry(p)
  PROVE  \E phase \in {"mkdir", "refused"} : Goto(p, phase)
BY DEF Retry

LEMMA InspectingKeeps ==
  ASSUME OwnerInv, TypeOK', alive' = alive, NEW p \in alive,
         \/ InspectDirectory(p) \/ ReadOwner(p) \/ ProbePid(p) \/ CheckDestination(p)
         \/ LookAgain(p),
         ~MistakesRelease(p)
  PROVE  OwnerInv'
<1> USE DEF Making, Deciding, PastRename, Acquiring
<1>0. p \in Procs /\ (pc[p] \in Deciding =>
        \/ Kept(seen[p]) /\ (pc[p] # "probing" => seen[p] \notin alive)
        \/ pc[p] = "probing" /\ Gone(seen[p]))
  BY DEF OwnerInv, DecisionsStand, TypeOK
<1>1. CASE InspectDirectory(p) \/ LookAgain(p)
  <2>1. \E phase \in {"mkdir", "refused", "reading"} : Goto(p, phase)
    BY <1>1, RetryPhase DEF InspectDirectory, LookAgain
  <2>2. PICK phase \in {"mkdir", "refused", "reading"} : Goto(p, phase)
    BY <2>1
  <2> QED
    BY <1>1, <2>2, QuietStep DEF InspectDirectory, LookAgain, files
<1>2. CASE ReadOwner(p)
  <2>1. CASE Recorded
    <3>1. Goto(p, "probing") /\ seen'[p] = owner[path]
      BY <1>0, <1>2, <2>1 DEF ReadOwner, OwnerInv, TypeOK, Goto
    <3>2. Kept(owner[path])
      BY <2>1 DEF Recorded, Kept, OwnerInv, OwnRecords, TypeOK, MaybeProc
    <3>3. Kept(seen'[p])
      BY <3>1, <3>2
    <3>4. \A q \in Procs \ {p} : seen'[q] = seen[q]
      BY <1>0, <1>2, <2>1 DEF ReadOwner, OwnerInv, TypeOK
    <3> QED
      BY <1>2, <3>1, <3>3, <3>4, QuietStep DEF ReadOwner, files
  <2>2. CASE ~Recorded
    BY <1>2, <2>2, QuietStep DEF ReadOwner, files
  <2> QED
    BY <2>1, <2>2
<1>3. CASE ProbePid(p)
  <2>1. CASE seen[p] \in alive
    BY <1>3, <2>1, QuietStep DEF ProbePid, files
  <2>2. CASE seen[p] \notin alive
    <3>1. Goto(p, "checking") /\ pc[p] = "probing" /\ UNCHANGED <<seen, names, files>>
      BY <1>3, <2>2 DEF ProbePid
    <3>2. ~GivenUp(seen[p])
      BY <1>0, <3>1 DEF MistakesRelease, Goto, OwnerInv, TypeOK
    <3>3. Kept(seen[p])
      BY <1>0, <3>1, <3>2 DEF Gone
    <3> QED
      BY <2>2, <3>1, <3>3, QuietStep DEF files
  <2> QED
    BY <2>1, <2>2
<1>4. CASE CheckDestination(p)
  <2>1. CASE quarantined[seen[p]] = NoOne
    <3>1. Goto(p, "moving") /\ pc[p] = "checking" /\ UNCHANGED <<seen, names, files>>
      BY <1>4, <2>1 DEF CheckDestination
    <3>2. Kept(seen[p]) /\ seen[p] \notin alive
      BY <1>0, <3>1
    <3> QED
      BY <3>1, <3>2, QuietStep DEF files
  <2>2. CASE quarantined[seen[p]] # NoOne
    BY <1>4, <2>2, QuietStep DEF CheckDestination, files
  <2> QED
    BY <2>1, <2>2
<1> QED
  BY <1>1, <1>2, <1>3, <1>4

LEMMA MkdirKeeps ==
  ASSUME OwnerInv, TypeOK', alive' = alive, NEW p \in alive, Mkdir(p)
  PROVE  OwnerInv'
<1> USE DEF Making, Deciding, PastRename
<1>0. p \in Procs
  BY DEF OwnerInv, TypeOK
<1>1. CASE path = NoOne
  <2>1. /\ path' = p /\ Goto(p, "opening") /\ pc[p] \in {"idle", "mkdir"}
        /\ UNCHANGED <<seen, quarantined, away, owner>>
    BY <1>1 DEF Mkdir, files
  <2>2. \A q \in Procs : pc'[q] = IF q = p THEN "opening" ELSE pc[q]
    BY <2>1 DEF Goto, OwnerInv, TypeOK
  <2>3. \A q \in alive : pc[q] \notin Making /\ q \in Procs
    BY <1>1, ProcsAssumption DEF OwnerInv, MakerAtPath, TypeOK
  <2>4. MakerAtPath' /\ OwnRecords' /\ DeadQuarantined'
    BY <1>0, <2>1, <2>2, <2>3 DEF OwnerInv, MakerAtPath, OwnRecords, DeadQuarantined
  <2>5. \A dir \in Procs : Kept(dir) => Kept(dir)'
    BY <1>1, <2>1, ProcsAssumption DEF Kept
  <2>6. \A dir \in Procs : Gone(dir) => Gone(dir)'
    BY <2>1, <2>2 DEF Gone, GivenUp
  <2>7. DecisionsStand'
    BY <1>0, <2>1, <2>2, <2>5, <2>6, OthersDecide
  <2> QED
    BY <2>4, <2>7 DEF OwnerInv
<1>2. CASE path # NoOne
  BY <1>2, QuietStep DEF Mkdir, names, files
<1> QED
  BY <1>1, <1>2

(* What is moved is the dead owner's directory the contender read about.   *)
LEMMA QuarantineKeeps ==
  ASSUME OwnerInv, TypeOK', alive' = alive, NEW p \in alive, Quarantine(p)
  PROVE  OwnerInv'
<1> USE DEF Making, Deciding, PastRename
<1>0. p \in Procs /\ pc[p] = "moving" /\ Kept(seen[p]) /\ seen[p] \notin alive
  BY DEF Quarantine, OwnerInv, DecisionsStand, TypeOK
<1>1. PICK phase \in {"mkdir", "refused", "looking"} : Goto(p, phase)
  BY RetryPhase DEF Quarantine
<1>2. CASE UNCHANGED names
  BY <1>0, <1>1, <1>2, QuietStep DEF Quarantine, files
<1>3. CASE ~UNCHANGED names
  <2>1. /\ path # NoOne /\ Replaceable(quarantined[seen[p]])
        /\ quarantined' = [quarantined EXCEPT ![seen[p]] = path] /\ path' = NoOne
        /\ UNCHANGED <<seen, owner, away>> /\ phase # "looking"
    BY <1>0, <1>1, <1>3 DEF Quarantine, files, Goto, Retry, OwnerInv, TypeOK, names
  <2>2. path = seen[p]
    BY <1>0, <2>1, ProcsAssumption DEF Kept, Replaceable
  <2>3. \A q \in Procs : pc'[q] = IF q = p THEN phase ELSE pc[q]
    BY <1>1 DEF Goto, OwnerInv, TypeOK
  <2>4. \A q \in alive : pc[q] \notin Making /\ q \in Procs /\ q # seen[p] /\ q # NoOne
    BY <1>0, <2>2, ProcsAssumption DEF OwnerInv, MakerAtPath, TypeOK
  <2>5. MakerAtPath' /\ OwnRecords' /\ DeadQuarantined'
    BY <1>0, <2>1, <2>3, <2>4
    DEF OwnerInv, MakerAtPath, OwnRecords, DeadQuarantined, TypeOK
  <2>6. \A dir \in Procs : Kept(dir) => Kept(dir)'
    BY <1>0, <2>1, <2>2 DEF Kept, OwnerInv, TypeOK
  <2>7. \A dir \in Procs : Gone(dir) => Gone(dir)'
    BY <1>0, <2>1, <2>3, ProcsAssumption DEF Gone, GivenUp
  <2>8. DecisionsStand'
    BY <1>0, <2>1, <2>3, <2>6, <2>7, OthersDecide
  <2> QED
    BY <2>5, <2>8 DEF OwnerInv
<1> QED
  BY <1>2, <1>3

LEMMA PublishKeeps ==
  ASSUME OwnerInv, TypeOK', alive' = alive, NEW p \in alive, PublishOwner(p)
  PROVE  OwnerInv'
<1> USE DEF Making, Deciding, PastRename
<1>1. p \in Procs /\ path = p /\ pc[p] = "publishing"
  BY DEF PublishOwner, OwnerInv, MakerAtPath, TypeOK
<1>2. CASE TempAtPath(p)
  <2>1. Goto(p, "pinning") /\ owner' = [owner EXCEPT ![p] = p] /\ UNCHANGED <<names, seen>>
    BY <1>1, <1>2 DEF PublishOwner
  <2>2. \A q \in Procs : pc'[q] = IF q = p THEN "pinning" ELSE pc[q]
    BY <2>1 DEF Goto, OwnerInv, TypeOK
  <2>3. MakerAtPath' /\ OwnRecords' /\ DeadQuarantined'
    BY <1>1, <2>1, <2>2
    DEF OwnerInv, MakerAtPath, OwnRecords, DeadQuarantined, TypeOK, names
  <2>4. \A dir \in Procs : Kept(dir) => Kept(dir)'
    BY <2>1 DEF Kept, OwnerInv, TypeOK, names
  <2>5. \A dir \in Procs : Gone(dir) => Gone(dir)'
    BY <1>1, <2>1, <2>2 DEF Gone, GivenUp, OwnerInv, TypeOK, names
  <2>6. DecisionsStand'
    BY <1>1, <2>1, <2>2, <2>4, <2>5, OthersDecide
  <2> QED
    BY <2>3, <2>6 DEF OwnerInv
<1>3. CASE ~TempAtPath(p)
  BY <1>1, <1>3, QuietStep DEF PublishOwner
<1> QED
  BY <1>2, <1>3

LEMMA HoldingKeeps ==
  ASSUME OwnerInv, TypeOK', alive' = alive, NEW p \in alive,
         \/ OpenTemp(p) \/ PinDirectory(p) \/ Confirm(p) \/ AcquireFails(p)
         \/ AssertHeld(p) \/ AdmissionEnds(p)
  PROVE  OwnerInv'
<1> USE DEF Making, Deciding, PastRename, Acquiring
<1>0. pc[p] \in Making => path = p
  BY DEF OwnerInv, MakerAtPath
<1>1. CASE OpenTemp(p)
  BY <1>0, <1>1, QuietStep DEF OpenTemp
<1>2. CASE PinDirectory(p)
  BY <1>0, <1>2, QuietStep DEF PinDirectory, files
<1>3. CASE Confirm(p)
  BY <1>0, <1>3, QuietStep DEF Confirm, files
<1>4. CASE AcquireFails(p)
  BY <1>4, QuietStep DEF AcquireFails
<1>5. CASE AssertHeld(p) \/ AdmissionEnds(p)
  BY <1>0, <1>5, QuietStep DEF AssertHeld, AdmissionEnds, files
<1> QED
  BY <1>1, <1>2, <1>3, <1>4, <1>5

(* A release begins with one's own directory at the path, so that is what  *)
(* its rename takes away: whoever read the record there has not probed.    *)
LEMMA MoveAwayKeeps ==
  ASSUME OwnerInv, TypeOK', alive' = alive, NEW p \in alive, MoveAway(p)
  PROVE  OwnerInv'
<1> USE DEF Making, Deciding, PastRename
<1>1. p \in Procs /\ path = p /\ pc[p] = "leaving" /\ path # NoOne
  BY ProcsAssumption DEF MoveAway, OwnerInv, MakerAtPath, TypeOK
<1>2. /\ Goto(p, "dismantling") /\ away' = [away EXCEPT ![p] = p] /\ path' = NoOne
      /\ UNCHANGED <<quarantined, seen, owner>>
  BY <1>1 DEF MoveAway, files
<1>3. \A q \in Procs : pc'[q] = IF q = p THEN "dismantling" ELSE pc[q]
  BY <1>2 DEF Goto, OwnerInv, TypeOK
<1>4. \A q \in alive : q \in Procs /\ q # NoOne /\ (q # p => pc[q] \notin Making)
  BY <1>1, ProcsAssumption DEF OwnerInv, MakerAtPath, TypeOK
<1>5. MakerAtPath' /\ OwnRecords' /\ DeadQuarantined'
  BY <1>2, <1>3, <1>4 DEF OwnerInv, MakerAtPath, OwnRecords, DeadQuarantined
<1>6. Gone(p)'
  BY <1>1, <1>2, <1>3 DEF Gone, GivenUp, OwnerInv, TypeOK
<1>7. \A dir \in Procs : Kept(dir) => Kept(dir)' \/ (dir \in alive /\ Gone(dir)')
  BY <1>1, <1>2, <1>6 DEF Kept
<1>8. \A dir \in Procs : Gone(dir) => Gone(dir)'
  BY <1>1, <1>2, <1>3, ProcsAssumption DEF Gone, GivenUp, OwnerInv, TypeOK
<1>9. DecisionsStand'
  BY <1>1, <1>2, <1>3, <1>7, <1>8, OthersDecide
<1> QED
  BY <1>5, <1>9 DEF OwnerInv

(* The record that is dismantled is at nobody's hands any more but of who  *)
(* is still to probe.                                                      *)
LEMMA DismantleKeeps ==
  ASSUME OwnerInv, TypeOK', alive' = alive, NEW p \in alive, Dismantle(p)
  PROVE  OwnerInv'
<1> USE DEF Making, Deciding, PastRename
<1>1. /\ p \in Procs /\ pc[p] = "dismantling" /\ path # p /\ quarantined[p] = NoOne
      /\ p # NoOne
  BY ProcsAssumption DEF Dismantle, OwnerInv, MakerAtPath, DeadQuarantined, TypeOK
<1>2. CASE OwnsMoved(p)
  <2>1. away[p] = p \/ away[p] \notin Procs
    BY <1>1, <1>2 DEF OwnsMoved, OwnerInv, OwnRecords
  <2>2. /\ owner' = [owner EXCEPT ![away[p]] = NoOne]
        /\ UNCHANGED <<path, quarantined, seen>>
        /\ \A q \in Procs \ {p} : away'[q] = away[q]
        /\ away'[p] \in {away[p], NoOne}
    BY <1>1, <1>2 DEF Dismantle, OwnerInv, TypeOK
  <2>3. \E phase \in {"released", "unreleased"} : Goto(p, phase)
    BY <1>2 DEF Dismantle
  <2>4. PICK phase \in {"released", "unreleased"} : Goto(p, phase)
    BY <2>3
  <2>5. \A q \in Procs : pc'[q] = IF q = p THEN phase ELSE pc[q]
    BY <2>4 DEF Goto, OwnerInv, TypeOK
  <2>6. \A dir \in Procs : owner'[dir] = owner[dir] \/ (dir = p /\ owner'[dir] = NoOne)
    BY <2>1, <2>2 DEF OwnerInv, TypeOK
  <2>7. MakerAtPath' /\ OwnRecords' /\ DeadQuarantined'
    BY <2>2, <2>5, <2>6 DEF OwnerInv, MakerAtPath, OwnRecords, DeadQuarantined, TypeOK
  <2>8. \A dir \in Procs : Kept(dir) => Kept(dir)'
    BY <1>1, <2>2, <2>6 DEF Kept
  <2>9. \A dir \in Procs : Gone(dir) => Gone(dir)'
    <3> SUFFICES ASSUME NEW dir \in Procs, Gone(dir) PROVE Gone(dir)'
      OBVIOUS
    <3>1. GivenUp(dir)'
      BY <2>1, <2>2, <2>6 DEF Gone, GivenUp, OwnerInv, TypeOK
    <3> QED
      BY <2>2, <2>5, <3>1 DEF Gone
  <2>10. DecisionsStand'
    BY <1>1, <2>2, <2>5, <2>8, <2>9, OthersDecide
  <2> QED
    BY <2>7, <2>10 DEF OwnerInv
<1>3. CASE ~OwnsMoved(p)
  BY <1>1, <1>3, QuietStep DEF Dismantle, names
<1> QED
  BY <1>2, <1>3

(* A release begins, again perhaps, on one's own directory: nobody has     *)
(* given that up.                                                          *)
LEMMA LeavingKeeps ==
  ASSUME OwnerInv, TypeOK', NEW p \in alive, path = p,
         pc[p] \notin PastRename \/ pc[p] = "unreleased", Goto(p, "leaving"),
         UNCHANGED <<alive, names, files, seen>>
  PROVE  OwnerInv'
<1> USE DEF Making, Deciding, PastRename
<1>1. p \in Procs /\ \A q \in Procs : pc'[q] = IF q = p THEN "leaving" ELSE pc[q]
  BY DEF Goto, OwnerInv, TypeOK
<1>2. MakerAtPath' /\ OwnRecords' /\ DeadQuarantined'
  BY <1>1 DEF OwnerInv, MakerAtPath, OwnRecords, DeadQuarantined, TypeOK, names, files
<1>3. \A dir \in Procs : Kept(dir) => Kept(dir)'
  BY DEF Kept, names, files
<1>4. \A dir \in Procs : Gone(dir) => Gone(dir)'
  BY <1>1 DEF Gone, GivenUp, names, files
<1>5. DecisionsStand'
  BY <1>1, <1>3, <1>4, OthersDecide
<1> QED
  BY <1>2, <1>5 DEF OwnerInv

LEMMA ReleasingKeeps ==
  ASSUME OwnerInv, TypeOK', alive' = alive, NEW p \in alive,
         BeginRelease(p) \/ ReleaseFails(p)
  PROVE  OwnerInv'
<1> USE DEF Making, Deciding, PastRename
<1>0. p \in Procs
  BY DEF OwnerInv, TypeOK
<1>1. CASE BeginRelease(p) /\ Pinned(p)
  <2>1. path = p
    BY <1>0, <1>1, ProcsAssumption DEF Pinned, OwnerInv, OwnRecords, TypeOK, MaybeProc
  <2>2. pc[p] \notin PastRename \/ pc[p] = "unreleased"
    BY <1>1 DEF BeginRelease
  <2> QED
    BY <1>0, <1>1, <2>1, <2>2, LeavingKeeps DEF BeginRelease, files
<1>2. CASE BeginRelease(p) /\ ~Pinned(p)
  BY <1>2, QuietStep DEF BeginRelease, files
<1>3. CASE ReleaseFails(p)
  BY <1>3, QuietStep DEF ReleaseFails, files
<1> QED
  BY <1>1, <1>2, <1>3

LEMMA DieKeeps ==
  ASSUME OwnerInv, TypeOK', NEW p \in alive, Die(p)
  PROVE  OwnerInv'
<1>1. /\ \A q \in alive' : q \in alive /\ q # p /\ q \in Procs
           /\ pc'[q] = pc[q] /\ seen'[q] = seen[q]
      /\ alive' \subseteq alive /\ UNCHANGED <<path, quarantined, away, owner>>
  BY DEF Die, Goto, OwnerInv, TypeOK, names, files
<1>2. MakerAtPath' /\ OwnRecords' /\ DeadQuarantined'
  BY <1>1 DEF OwnerInv, MakerAtPath, OwnRecords, DeadQuarantined
<1>3. DecisionsStand'
  BY <1>1 DEF OwnerInv, DecisionsStand, Kept, Gone, GivenUp
<1> QED
  BY <1>2, <1>3 DEF OwnerInv

LEMMA NextOwnerInv == ASSUME OwnerInv, [Next]_vars, ~misled' PROVE OwnerInv'
<1>0. TypeOK'
  BY NextTypes DEF OwnerInv
<1>1. ASSUME NEW p \in alive, Works(p) \/ AcquireFails(p) \/ ReleaseFails(p), alive' = alive,
             ~MistakesRelease(p)
      PROVE  OwnerInv'
  BY <1>0, <1>1, InspectingKeeps, MkdirKeeps, QuarantineKeeps, PublishKeeps, HoldingKeeps,
     MoveAwayKeeps, DismantleKeeps, ReleasingKeeps DEF Works
<1>2. ASSUME NEW p \in alive, Die(p) PROVE OwnerInv'
  BY <1>0, <1>2, DieKeeps
<1>3. CASE UNCHANGED vars
  BY <1>0, <1>3
  DEF vars, names, files, OwnerInv, MakerAtPath, OwnRecords, DeadQuarantined, DecisionsStand,
      Kept, Gone, GivenUp
<1> QED
  BY <1>1, <1>2, <1>3 DEF Next

(* No interleaving of crashes, releases, exits and takeovers by any number *)
(* of processes makes two live owners, unless a contender found dead an    *)
(* owner that had released the guard since its record was read             *)
(* (quarantineDeadOwner and its nonce-qualified destination,               *)
(* process-guard.ts:162-195; performRelease, 311-415).                     *)
THEOREM OneOwnerUnlessMisled == Spec => []OneOwner
<1> DEFINE UntilMisled == ~misled => OwnerInv
<1>1. Init => UntilMisled
  <2>1. Init => misled \in BOOLEAN
    BY ZenonT(10) DEF Init
  <2> QED
    BY <2>1, ProcsAssumption
    DEF Init, OwnerInv, TypeOK, Phases, MaybeProc, MakerAtPath, OwnRecords,
        DeadQuarantined, DecisionsStand, Making, Deciding
<1>2. UntilMisled /\ [Next]_vars => UntilMisled'
  <2>1. [Next]_vars /\ ~misled' => ~misled
    BY DEF Next, vars
  <2> QED
    BY <2>1, NextOwnerInv
<1>3. UntilMisled => OneOwner
  <2> SUFFICES ASSUME ~misled, OwnerInv PROVE OneOwner
    BY DEF OneOwner
  <2>1. Owners \subseteq {path}
    BY DEF Owners, OwnerInv, MakerAtPath, Making
  <2>2. IsFiniteSet({path}) /\ Cardinality({path}) = 1
    BY FS_Singleton
  <2>3. IsFiniteSet(Owners) /\ Cardinality(Owners) <= 1
    BY <2>1, <2>2, FS_Subset
  <2> QED
    BY <2>3 DEF OneOwner
<1> HIDE DEF UntilMisled
<1> QED
  BY <1>1, <1>2, <1>3, PTL DEF Spec

(* A step is of one process, and only a death takes it back to rest.       *)
LEMMA OneMoves ==
  ASSUME TypeOK, NEW p \in alive, Works(p) \/ AcquireFails(p) \/ ReleaseFails(p)
  PROVE  /\ \E phase \in Phases \ {"idle"} : Goto(p, phase)
         /\ \A q \in Procs \ {p} : pc'[q] = pc[q] /\ attempt'[q] = attempt[q]
<1>1. \E phase \in Phases \ {"idle"} : Goto(p, phase)
  BY RetryPhase
  DEF Works, Mkdir, InspectDirectory, ReadOwner, ProbePid, CheckDestination, Quarantine,
      LookAgain, OpenTemp, PublishOwner, PinDirectory, Confirm, AssertHeld, AdmissionEnds,
      BeginRelease, MoveAway, Dismantle, AcquireFails, ReleaseFails,
      Phases, Acquiring, Releasing
<1>2. UNCHANGED attempt \/ Retry(p)
  BY DEF Works, Mkdir, InspectDirectory, ReadOwner, ProbePid, CheckDestination, Quarantine,
      LookAgain, OpenTemp, PublishOwner, PinDirectory, Confirm, AssertHeld, AdmissionEnds,
      BeginRelease, MoveAway, Dismantle, AcquireFails, ReleaseFails
<1>3. \A q \in Procs \ {p} : pc'[q] = pc[q] /\ attempt'[q] = attempt[q]
  BY <1>1, <1>2 DEF Retry, Goto, TypeOK
<1> QED
  BY <1>1, <1>3

-----------------------------------------------------------------------------
(* A process that nobody disturbs.                                         *)

(* A dead owner's directory is at the path, and its nonce not used yet.    *)
Obstacle ==
  path # NoOne /\ owner[path] \in Procs \ alive /\ quarantined[owner[path]] = NoOne

(* What such a process finds is what it left: the obstacle it began on,    *)
(* on its first attempt, until it has moved that away; then its directory, *)
(* and in it its temporary file, and then its record.                      *)
Solo(p) ==
  /\ pc[p] \notin {"idle", "looking", "refused"}
  /\ pc[p] \in {"inspecting", "reading", "probing", "checking", "moving"} =>
       Obstacle /\ attempt[p] = 0
  /\ pc[p] \in {"probing", "checking", "moving"} => seen[p] = owner[path]
  /\ pc[p] = "mkdir" => path = NoOne
  /\ pc[p] \in {"opening", "publishing", "pinning", "confirming"} => path = p
  /\ pc[p] = "publishing" => p \in temps[p]
  /\ pc[p] \in {"pinning", "confirming"} => owner[p] = p
  /\ pc[p] = "confirming" => pinned[p] = p

AllSolo == \A p \in alone : Solo(p)
FirstAttempts == \A p \in Procs : pc[p] = "idle" => attempt[p] = 0
SoloInv == TypeOK /\ FirstAttempts /\ AllSolo

(* Beginning on a recoverable path, or going on as Solo says.              *)
Undistracted(p) ==
  IF pc[p] = "idle" THEN Recoverable /\ attempt[p] = 0 ELSE Solo(p)

LEMMA SoloLooks ==
  ASSUME TypeOK, NEW p \in alive, Undistracted(p), alive' = alive,
         \/ Mkdir(p) \/ InspectDirectory(p) \/ ReadOwner(p) \/ ProbePid(p)
         \/ CheckDestination(p) \/ LookAgain(p)
  PROVE  Solo(p)'
<1>0. p \in Procs
  BY DEF TypeOK
<1> USE DEF TypeOK, Goto, names, files
<1>1. CASE Mkdir(p)
  <2>1. CASE path = NoOne
    BY <1>0, <1>1, <2>1 DEF Mkdir, Solo
  <2>2. CASE path # NoOne
    <3>1. pc[p] = "idle" /\ Obstacle /\ attempt[p] = 0
      BY <1>1, <2>2 DEF Mkdir, Undistracted, Recoverable, Obstacle, Solo
    <3> QED
      BY <1>0, <1>1, <2>2, <3>1 DEF Mkdir, Obstacle, Solo
  <2> QED
    BY <2>1, <2>2
<1>2. CASE InspectDirectory(p)
  BY <1>0, <1>2 DEF InspectDirectory, Undistracted, Obstacle, Solo
<1>3. CASE ReadOwner(p)
  BY <1>0, <1>3, ProcsAssumption DEF ReadOwner, Recorded, Undistracted, Obstacle, Solo
<1>4. CASE ProbePid(p)
  BY <1>0, <1>4 DEF ProbePid, Undistracted, Obstacle, Solo
<1>5. CASE CheckDestination(p)
  BY <1>0, <1>5 DEF CheckDestination, Undistracted, Obstacle, Solo
<1>6. CASE LookAgain(p)
  BY <1>0, <1>6 DEF LookAgain, Undistracted, Solo
<1> QED
  BY <1>1, <1>2, <1>3, <1>4, <1>5, <1>6

LEMMA SoloMoves ==
  ASSUME TypeOK, NEW p \in alive, Undistracted(p), alive' = alive, Quarantine(p)
  PROVE  Solo(p)'
<1>1. p \in Procs /\ pc[p] = "moving" /\ Obstacle /\ attempt[p] = 0 /\ seen[p] = owner[path]
  BY DEF Quarantine, Undistracted, Solo, TypeOK
<1>2. path # NoOne /\ Replaceable(quarantined[seen[p]])
  BY <1>1, ProcsAssumption DEF Obstacle, Replaceable
<1>3. path' = NoOne /\ Retry(p)
  BY <1>2 DEF Quarantine
<1>4. pc'[p] = "mkdir"
  BY <1>1, <1>3 DEF Retry, MayRetry, Goto, TypeOK
<1> QED
  BY <1>3, <1>4 DEF Solo

LEMMA SoloPublishes ==
  ASSUME TypeOK, NEW p \in alive, Undistracted(p), alive' = alive,
         OpenTemp(p) \/ PublishOwner(p) \/ PinDirectory(p) \/ Confirm(p)
  PROVE  Solo(p)'
<1>0. p \in Procs /\ path = p /\ Solo(p) /\ p # NoOne
  BY ProcsAssumption
  DEF OpenTemp, PublishOwner, PinDirectory, Confirm, Undistracted, Solo, TypeOK
<1> USE DEF TypeOK, Goto, names, files
<1>1. CASE OpenTemp(p)
  BY <1>0, <1>1 DEF OpenTemp, Solo
<1>2. CASE PublishOwner(p)
  BY <1>0, <1>2 DEF PublishOwner, TempAtPath, Solo
<1>3. CASE PinDirectory(p)
  BY <1>0, <1>3 DEF PinDirectory, Solo
<1>4. CASE Confirm(p)
  BY <1>0, <1>4 DEF Confirm, Pinned, Solo
<1> QED
  BY <1>1, <1>2, <1>3, <1>4

LEMMA SoloHolds ==
  ASSUME TypeOK, NEW p \in alive, Undistracted(p), alive' = alive,
         \/ AssertHeld(p) \/ AdmissionEnds(p)
         \/ BeginRelease(p) \/ MoveAway(p) \/ Dismantle(p)
  PROVE  Solo(p)'
<1>1. PICK phase \in {"held", "admitting", "leaving", "dismantling", "unreleased",
                      "released"} : Goto(p, phase)
  BY DEF AssertHeld, AdmissionEnds, BeginRelease, MoveAway, Dismantle
<1>2. pc'[p] = phase
  BY <1>1 DEF Goto, TypeOK
<1> QED
  BY <1>2 DEF Solo

LEMMA NextSolo == ASSUME SoloInv, [Next]_vars PROVE SoloInv'
<1>0. TypeOK'
  BY NextTypes DEF SoloInv
<1>1. ASSUME NEW p \in alive, Works(p), alive' = alive, alone' = Undisturbed(p)
      PROVE  AllSolo'
  <2>1. \A q \in alone' : q = p /\ Undistracted(p)
    BY <1>1 DEF Undisturbed, Undistracted, SoloInv, AllSolo, FirstAttempts, TypeOK
  <2>2. Undistracted(p) => Solo(p)'
    BY <1>1, SoloLooks, SoloMoves, SoloPublishes, SoloHolds DEF Works, SoloInv
  <2> QED
    BY <2>1, <2>2 DEF AllSolo
<1>2. CASE UNCHANGED vars
  <2>1. \A p : Solo(p) => Solo(p)'
    BY <1>2 DEF vars, names, files, Solo, Obstacle
  <2> QED
    BY <1>0, <1>2, <2>1 DEF vars, SoloInv, AllSolo, FirstAttempts
<1>3. ASSUME NEW p \in alive, Works(p) \/ AcquireFails(p) \/ ReleaseFails(p)
      PROVE  FirstAttempts'
  <2>1. PICK phase \in Phases \ {"idle"} : Goto(p, phase)
    BY <1>3, OneMoves DEF SoloInv
  <2>2. \A q \in Procs : pc'[q] = "idle" => q # p
    BY <2>1 DEF Goto, SoloInv, TypeOK
  <2> QED
    BY <1>3, <2>2, OneMoves DEF FirstAttempts, SoloInv
<1>4. ASSUME NEW p \in alive, Die(p) PROVE FirstAttempts'
  BY <1>4 DEF Die, Goto, FirstAttempts, SoloInv, TypeOK
<1>5. alone' = {} => AllSolo'
  BY DEF AllSolo
<1> QED
  BY <1>0, <1>1, <1>2, <1>3, <1>4, <1>5 DEF Next, SoloInv

(* A process that begins on a free path, or on the directory of a dead     *)
(* owner, and is not disturbed is never refused, however many processes    *)
(* there are: the retries of acquire() suffice (process-guard.ts:217-243).  *)
THEOREM SoloIsNeverRefused == Spec => []SoloTakeover
<1>1. Init => SoloInv
  <2>1. Init => TypeOK
    <3>1. Init => misled \in BOOLEAN
      BY ZenonT(10) DEF Init
    <3> QED
      BY <3>1 DEF Init, TypeOK, Phases, MaybeProc
  <2> QED
    BY <2>1 DEF Init, SoloInv, AllSolo, FirstAttempts
<1>2. SoloInv => SoloTakeover
  BY DEF SoloInv, AllSolo, Solo, SoloTakeover
<1> QED
  BY <1>1, <1>2, NextSolo, PTL DEF Spec

-----------------------------------------------------------------------------
(* What a release removes.                                                 *)

(* Whatever was renamed from under the path meanwhile, a process that      *)
(* dismantles what it moved away removes no record but its own             *)
(* (performRelease, process-guard.ts:346-395).                             *)
THEOREM OthersRecordsStay == Spec => ReleaseRemovesOwn
<1> DEFINE Step(p) ==
      pc[p] = "dismantling" /\ pc'[p] # pc[p] =>
        \A dir \in Procs : owner[dir] # owner'[dir] => owner[dir] = p
<1>1. TypeOK /\ [Next]_vars => [\A p \in Procs : Step(p)]_vars
  <2> SUFFICES ASSUME TypeOK, NEW q \in alive,
                      Works(q) \/ AcquireFails(q) \/ ReleaseFails(q) \/ Die(q),
                      NEW p \in Procs, pc[p] = "dismantling", pc'[p] # pc[p],
                      NEW dir \in Procs, owner[dir] # owner'[dir]
               PROVE  owner[dir] = p
    BY DEF Next
  <2>1. p = q
    BY OneMoves DEF Die, Goto, TypeOK
  <2>2. Dismantle(p) \/ UNCHANGED owner
    BY <2>1
    DEF Works, Mkdir, InspectDirectory, ReadOwner, ProbePid, CheckDestination, Quarantine,
        LookAgain, OpenTemp, PublishOwner, PinDirectory, Confirm, AssertHeld, AdmissionEnds,
        BeginRelease, MoveAway, AcquireFails, ReleaseFails, Die, files, Acquiring
  <2> QED
    BY <2>2 DEF Dismantle, OwnsMoved, TypeOK
<1> QED
  BY <1>1, TypeCorrect, PTL DEF Spec, ReleaseRemovesOwn
=============================================================================
