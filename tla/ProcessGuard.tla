---------------------------- MODULE ProcessGuard ----------------------------
(***************************************************************************)
(* The process ownership guard of host/process-guard.ts: several processes *)
(* that share one ownership path, each trying once to own it.  A step is   *)
(* one file system call of one process; between any two calls others move, *)
(* and any process may die.                                                *)
(*                                                                         *)
(* A process makes at most one directory, one owner record and one nonce,  *)
(* so a directory is named by the process that made it and a record, with  *)
(* its inode, by the process that wrote it.  Process ids are not reused,   *)
(* and nothing but guards touches the path.                                *)
(***************************************************************************)
EXTENDS Naturals, FiniteSets

CONSTANTS
  Procs,
  NoOne

ASSUME ProcsAssumption == IsFiniteSet(Procs) /\ NoOne \notin Procs

VARIABLES
  pc,          \* what a process does next
  alive,       \* the processes that have not died
  attempt,     \* acquire()'s loop counter
  seen,        \* the author of the record inspectExistingOwner() read
  pinned,      \* directoryIdentity
  path,        \* the directory at the ownership path, or NoOne
  quarantined, \* nonce -> the directory at <path>.quarantine.<nonce>
  away,        \* nonce -> the directory at <path>.release.<nonce>
  owner,       \* directory -> the author of its owner.json, or NoOne
  temps,       \* directory -> the authors of the .owner.<nonce>.tmp in it
  alone,       \* history: who has been acquiring undisturbed since it began
  misled       \* history: someone took an owner that had released for a dead one

names == <<path, quarantined, away>>
files == <<owner, temps>>
vars == <<pc, alive, attempt, seen, pinned, names, files, alone, misled>>

MaybeProc == Procs \cup {NoOne}
Acquiring == {"mkdir", "inspecting", "reading", "probing", "checking", "moving",
              "looking", "opening", "publishing", "pinning", "confirming"}
Releasing == {"leaving", "dismantling"}
Phases == Acquiring \cup Releasing
            \cup {"idle", "refused", "held", "admitting", "unreleased", "released"}

Init ==
  /\ pc = [p \in Procs |-> "idle"] /\ alive = Procs
  /\ attempt = [p \in Procs |-> 0]
  /\ seen = [p \in Procs |-> NoOne] /\ pinned = [p \in Procs |-> NoOne]
  /\ path = NoOne
  /\ quarantined = [p \in Procs |-> NoOne] /\ away = [p \in Procs |-> NoOne]
  /\ owner = [p \in Procs |-> NoOne] /\ temps = [p \in Procs |-> {}]
  /\ alone = {} /\ misled = FALSE

Goto(p, phase) == pc' = [pc EXCEPT ![p] = phase]

-----------------------------------------------------------------------------
(* acquire(): at most three attempts to make the directory.                *)

\* Mutant: no attempt follows a quarantine.
MayRetryNever(n) == FALSE

MayRetry(n) == n + 1 < 3

Retry(p) ==
  IF MayRetry(attempt[p])
  THEN Goto(p, "mkdir") /\ attempt' = [attempt EXCEPT ![p] = @ + 1]
  ELSE Goto(p, "refused") /\ UNCHANGED attempt

Mkdir(p) ==
  /\ pc[p] \in {"idle", "mkdir"}
  /\ \/ path = NoOne /\ path' = p /\ Goto(p, "opening")
     \/ path # NoOne /\ Goto(p, "inspecting") /\ UNCHANGED path
  /\ UNCHANGED <<attempt, seen, pinned, quarantined, away, files>>

(* inspectExistingOwner(): lstat, read, probe the pid that was read.       *)
InspectDirectory(p) ==
  /\ pc[p] = "inspecting"
  /\ \/ path = NoOne /\ Retry(p)
     \/ path # NoOne /\ Goto(p, "reading") /\ UNCHANGED attempt
  /\ UNCHANGED <<seen, pinned, names, files>>

Recorded == path # NoOne /\ owner[path] # NoOne

(* A record that is missing by now, or not there yet, is `corrupt'.        *)
ReadOwner(p) ==
  /\ pc[p] = "reading"
  /\ \/ ~Recorded /\ Goto(p, "refused") /\ UNCHANGED seen
     \/ Recorded /\ Goto(p, "probing") /\ seen' = [seen EXCEPT ![p] = owner[path]]
  /\ UNCHANGED <<attempt, pinned, names, files>>

ProbePid(p) ==
  /\ pc[p] = "probing"
  /\ Goto(p, IF seen[p] \in alive THEN "refused" ELSE "checking")
  /\ UNCHANGED <<attempt, seen, pinned, names, files>>

(* quarantineDeadOwner(): the destination must be free, then rename.       *)
CheckDestination(p) ==
  /\ pc[p] = "checking"
  /\ Goto(p, IF quarantined[seen[p]] = NoOne THEN "moving" ELSE "refused")
  /\ UNCHANGED <<attempt, seen, pinned, names, files>>

\* Mutant: the rename replaces whatever has been moved there meanwhile.
ReplaceableAlways(dir) == TRUE

(* rename() takes the place of nothing, or of an empty directory.          *)
Replaceable(dir) == dir \notin {d \in Procs : owner[d] # NoOne \/ temps[d] # {}}

Quarantine(p) ==
  /\ pc[p] = "moving"
  /\ \/ path = NoOne /\ Retry(p) /\ UNCHANGED names
     \/ /\ path # NoOne /\ Replaceable(quarantined[seen[p]])
        /\ quarantined' = [quarantined EXCEPT ![seen[p]] = path]
        /\ path' = NoOne
        /\ Retry(p) /\ UNCHANGED away
     \/ /\ path # NoOne /\ ~Replaceable(quarantined[seen[p]])
        /\ Goto(p, "looking") /\ UNCHANGED <<attempt, names>>
  /\ UNCHANGED <<seen, pinned, files>>

(* After a failed rename: is there still something at the path?            *)
LookAgain(p) ==
  /\ pc[p] = "looking"
  /\ \/ path = NoOne /\ Retry(p)
     \/ path # NoOne /\ Goto(p, "refused") /\ UNCHANGED attempt
  /\ UNCHANGED <<seen, pinned, names, files>>

(* publishOwner(): a temporary file in whatever directory is at the path,  *)
(* renamed - again by path - to owner.json, over one that is there.        *)
OpenTemp(p) ==
  /\ pc[p] = "opening"
  /\ \/ path = NoOne /\ Goto(p, "refused") /\ UNCHANGED temps
     \/ /\ path # NoOne /\ Goto(p, "publishing")
        /\ temps' = [temps EXCEPT ![path] = @ \cup {p}]
  /\ UNCHANGED <<attempt, seen, pinned, names, owner>>

TempAtPath(p) == path # NoOne /\ p \in temps[path]
Unlinked(p) == IF TempAtPath(p) THEN [temps EXCEPT ![path] = @ \ {p}] ELSE temps

PublishOwner(p) ==
  /\ pc[p] = "publishing"
  /\ \/ TempAtPath(p) /\ Goto(p, "pinning") /\ owner' = [owner EXCEPT ![path] = p]
     \/ ~TempAtPath(p) /\ Goto(p, "refused") /\ UNCHANGED owner
  /\ temps' = Unlinked(p)
  /\ UNCHANGED <<attempt, seen, pinned, names>>

PinDirectory(p) ==
  /\ pc[p] = "pinning"
  /\ Goto(p, IF path = NoOne THEN "refused" ELSE "confirming")
  /\ pinned' = [pinned EXCEPT ![p] = path]
  /\ UNCHANGED <<attempt, seen, names, files>>

(* readPinnedOwner() answering this process's own record: a directory that *)
(* has left the path, or a record that was replaced, never comes back, so  *)
(* one look at the end of its calls stands for all of them.                *)
Pinned(p) == path # NoOne /\ path = pinned[p] /\ owner[path] = p

Confirm(p) ==
  /\ pc[p] = "confirming"
  /\ Goto(p, IF Pinned(p) THEN "held" ELSE "refused")
  /\ UNCHANGED <<attempt, seen, pinned, names, files>>

(* Any call of acquire() may fail; publishOwner()'s `finally' removes the  *)
(* temporary file, and nothing removes the directory.                      *)
AcquireFails(p) ==
  /\ pc[p] \in Acquiring \ {"probing"}
  /\ Goto(p, "refused")
  /\ temps' = Unlinked(p)
  /\ UNCHANGED <<attempt, seen, pinned, names, owner>>

-----------------------------------------------------------------------------
(* assertHeld() before an admission, which then resolves and writes the    *)
(* ledger without asking again.  A loss denies this admission only.        *)
AssertHeld(p) ==
  /\ pc[p] = "held" /\ Pinned(p)
  /\ Goto(p, "admitting")
  /\ UNCHANGED <<attempt, seen, pinned, names, files>>

AdmissionEnds(p) ==
  /\ pc[p] = "admitting"
  /\ Goto(p, "held")
  /\ UNCHANGED <<attempt, seen, pinned, names, files>>

(* performRelease(), run again when an earlier one failed.  Its look at    *)
(* <path>.release.<nonce> finds nothing: only it puts something there, and *)
(* only after its record has left the path.                                *)
BeginRelease(p) ==
  /\ pc[p] \in {"held", "unreleased"}
  /\ Goto(p, IF Pinned(p) THEN "leaving" ELSE "released")
  /\ UNCHANGED <<attempt, seen, pinned, names, files>>

MoveAway(p) ==
  /\ pc[p] = "leaving"
  /\ \/ path = NoOne /\ Goto(p, "released") /\ UNCHANGED names
     \/ /\ path # NoOne /\ Goto(p, "dismantling")
        /\ away' = [away EXCEPT ![p] = path] /\ path' = NoOne
        /\ UNCHANGED quarantined
  /\ UNCHANGED <<attempt, seen, pinned, files>>

\* Mutant: what was moved away is taken to be one's own.
OwnsMovedAlways(p) == TRUE

OwnsMoved(p) == away[p] = pinned[p] /\ owner[away[p]] = p

(* What was moved away is looked at again before it is removed.  Nobody    *)
(* else reads there.  The record goes first; rmdir() needs the rest empty. *)
Dismantle(p) ==
  /\ pc[p] = "dismantling"
  /\ IF OwnsMoved(p)
     THEN /\ owner' = [owner EXCEPT ![away[p]] = NoOne]
          /\ \/ temps[away[p]] = {} /\ Goto(p, "released")
                /\ away' = [away EXCEPT ![p] = NoOne]
             \/ temps[away[p]] # {} /\ Goto(p, "unreleased") /\ UNCHANGED away
     ELSE Goto(p, "released") /\ UNCHANGED <<owner, away>>
  /\ UNCHANGED <<attempt, seen, pinned, path, quarantined, temps>>

ReleaseFails(p) ==
  /\ pc[p] \in Releasing
  /\ Goto(p, "unreleased")
  /\ UNCHANGED <<attempt, seen, pinned, names, files>>

(* The process exits, or is killed, and its memory with it.                *)
Die(p) ==
  /\ alive' = alive \ {p}
  /\ Goto(p, "idle")
  /\ attempt' = [attempt EXCEPT ![p] = 0]
  /\ seen' = [seen EXCEPT ![p] = NoOne] /\ pinned' = [pinned EXCEPT ![p] = NoOne]
  /\ UNCHANGED <<names, files>>

-----------------------------------------------------------------------------
Works(p) ==
  \/ Mkdir(p)         \/ InspectDirectory(p) \/ ReadOwner(p)  \/ ProbePid(p)
  \/ CheckDestination(p) \/ Quarantine(p)    \/ LookAgain(p)
  \/ OpenTemp(p)      \/ PublishOwner(p)     \/ PinDirectory(p) \/ Confirm(p)
  \/ AssertHeld(p)    \/ AdmissionEnds(p)
  \/ BeginRelease(p)  \/ MoveAway(p)         \/ Dismantle(p)

(* The path is free, or a dead process owns it and was not quarantined.    *)
Recoverable ==
  \/ path = NoOne
  \/ owner[path] \in Procs \ alive /\ quarantined[owner[path]] = NoOne

(* A release has renamed the directory of this record, or removed it.      *)
GivenUp(author) == away[author] = author \/ owner[author] = NoOne

(* History: p read a record at the path, its author released the guard and *)
(* exited after that, and p's probe now finds it dead.                     *)
MistakesRelease(p) ==
  pc[p] = "probing" /\ pc'[p] = "checking" /\ GivenUp(seen[p])

(* History: a process that begins on a recoverable path is alone until     *)
(* another one does anything, or a call fails.                             *)
Undisturbed(p) ==
  IF pc[p] = "idle" THEN (IF Recoverable THEN {p} ELSE {}) ELSE alone \cap {p}

Next ==
  \E p \in alive :
    /\ \/ Works(p) /\ UNCHANGED alive /\ alone' = Undisturbed(p)
       \/ (AcquireFails(p) \/ ReleaseFails(p)) /\ UNCHANGED alive /\ alone' = {}
       \/ Die(p) /\ alone' = {}
    /\ misled' = (misled \/ MistakesRelease(p))

Spec == Init /\ [][Next]_vars

-----------------------------------------------------------------------------
(* The shape of the state; the loop makes three attempts.                  *)
TypeOK ==
  /\ pc \in [Procs -> Phases] /\ alive \subseteq Procs
  /\ attempt \in [Procs -> 0..2]
  /\ seen \in [Procs -> MaybeProc] /\ pinned \in [Procs -> MaybeProc]
  /\ path \in MaybeProc
  /\ quarantined \in [Procs -> MaybeProc] /\ away \in [Procs -> MaybeProc]
  /\ owner \in [Procs -> MaybeProc] /\ temps \in [Procs -> SUBSET Procs]
  /\ alone \subseteq Procs /\ misled \in BOOLEAN

Owners == {p \in alive : pc[p] \in {"held", "admitting"}}

(* No two live processes own the path, however many owners crash or        *)
(* release and however many contenders race to succeed them, with a        *)
(* decision as old as it may be when the rename comes (inspect, lstat,     *)
(* rename: process-guard.ts:228-242) - but for a contender that was misled:*)
(* it read the record of an owner that released and exited before the      *)
(* probe.  OneAuthority says what happens then.                            *)
OneOwner == ~misled => Cardinality(Owners) <= 1

(* No two live processes are in an admission that assertHeld() let pass:   *)
(* "without allowing two live owners" of the deployment boundary.          *)
OneAuthority == Cardinality({p \in alive : pc[p] = "admitting"}) <= 1

(* A process that tries alone gets the guard: a dead owner's directory is  *)
(* no obstacle, and the retries suffice.                                   *)
SoloTakeover == \A p \in alone : pc[p] # "refused"

(* Releasing destroys no record but one's own, whatever was renamed from   *)
(* under the path meanwhile (process-guard.ts:346-395).                    *)
ReleaseRemovesOwn ==
  [][\A p \in Procs : pc[p] = "dismantling" /\ pc'[p] # pc[p] =>
       \A dir \in Procs : owner[dir] # owner'[dir] => owner[dir] = p]_vars
=============================================================================
