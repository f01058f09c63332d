---------------------------- MODULE SnapshotWatch ---------------------------
(***************************************************************************)
(* Telemetry's long poll (host/telemetry.ts) and the client that drives it *)
(* (client/controller.ts).  The host advances a revision and answers get   *)
(* at once, watch when the revision moves, times out or is aborted.  Every *)
(* start() of the client begins a loop of its own: get, then watch after   *)
(* watch with the epoch and revision it saw last.  A loop that was         *)
(* superseded still has a request or a reply under way.                    *)
(*                                                                         *)
(* A snapshot is what tells two apart: its session, epoch and revision.    *)
(***************************************************************************)
EXTENDS Naturals

CONSTANTS
  Sessions, NoSession, NoSnapshot,
  MaxRevision,   \* bound: events recorded by one host process
  MaxEpochs,     \* bound: host processes
  MaxStarts,     \* bound: calls of start()
  MaxFailures    \* bound: requests the transport loses

Snapshots == [session : Sessions, epoch : Nat, revision : Nat]

ASSUME BoundsAssumption ==
  /\ {MaxRevision, MaxEpochs, MaxStarts, MaxFailures} \subseteq Nat
  /\ NoSession \notin Sessions /\ NoSnapshot \notin Snapshots

VARIABLES
  epoch, revision,  \* AdmissionTelemetry.epoch, numbered, and .revisionValue
  activeSession,    \* AdmissionSnapshotController.activeSessionId
  generation,       \* .generation
  current,          \* .current, what the view shows
  loops,            \* start() number -> its poll() loop
  starts,           \* calls of start() that began a loop
  failures          \* requests lost so far

host == <<epoch, revision>>
client == <<activeSession, generation, current>>
vars == <<host, client, loops, starts, failures>>

Requesting == {"getting", "watching", "waiting", "woken"}
Phases == Requesting \cup {"unstarted", "answered", "failed", "backoff", "ended"}
LoopIds == 1..MaxStarts

Snapshot(session) == [session |-> session, epoch |-> epoch, revision |-> revision]

Unstarted == [session |-> NoSession, generation |-> 0, aborted |-> FALSE,
              phase |-> "unstarted", cursor |-> NoSnapshot, reply |-> NoSnapshot]

Init ==
  /\ epoch = 0 /\ revision = 0
  /\ activeSession = NoSession /\ generation = 0 /\ current = NoSnapshot
  /\ loops = [l \in LoopIds |-> Unstarted] /\ starts = 0 /\ failures = 0

-----------------------------------------------------------------------------
(* The host.                                                               *)

(* The waiters of one revision are all resolved; each snapshots later.     *)
Woken ==
  [l \in LoopIds |-> IF loops[l].phase = "waiting"
                     THEN [loops[l] EXCEPT !.phase = "woken"] ELSE loops[l]]

Record ==
  /\ revision < MaxRevision
  /\ revision' = revision + 1
  /\ loops' = Woken
  /\ UNCHANGED <<epoch, client, starts, failures>>

(* Another host process: a fresh epoch, and every open request is lost.    *)
HostRestarts ==
  /\ epoch + 1 < MaxEpochs
  /\ epoch' = epoch + 1 /\ revision' = 0
  /\ loops' = [l \in LoopIds |-> IF loops[l].phase \in Requesting
                                 THEN [loops[l] EXCEPT !.phase = "failed"]
                                 ELSE loops[l]]
  /\ UNCHANGED <<client, starts, failures>>

SetPhase(l, phase) == loops' = [loops EXCEPT ![l].phase = phase]
Answer(l) ==
  loops' = [loops EXCEPT ![l].phase = "answered", ![l].reply = Snapshot(loops[l].session)]
HostStep == UNCHANGED <<host, client, starts, failures>>

ServeGet(l) == loops[l].phase = "getting" /\ Answer(l) /\ HostStep

\* Mutant: revisions of different processes are compared.
UpToDateAnyEpoch(l) == loops[l].cursor.revision = revision

UpToDate(l) == loops[l].cursor.epoch = epoch /\ loops[l].cursor.revision = revision

(* watch(): an answer at once, or a waiter that change and abort settle.   *)
ServeWatch(l) ==
  /\ loops[l].phase = "watching"
  /\ IF ~UpToDate(l) THEN Answer(l)
     ELSE SetPhase(l, IF loops[l].aborted THEN "failed" ELSE "waiting")
  /\ HostStep

Timeout(l) == loops[l].phase = "waiting" /\ SetPhase(l, "woken") /\ HostStep

AbortWatch(l) ==
  /\ loops[l].phase \in {"watching", "waiting"} /\ loops[l].aborted
  /\ SetPhase(l, "failed") /\ HostStep

AnswerWoken(l) == loops[l].phase = "woken" /\ Answer(l) /\ HostStep

-----------------------------------------------------------------------------
(* The client.                                                             *)

(* cancelActive(): activeAbort is the signal of the loop started last.     *)
Cancelled ==
  [l \in LoopIds |-> IF l = starts /\ activeSession # NoSession
                     THEN [loops[l] EXCEPT !.aborted = TRUE] ELSE loops[l]]

Start(session) ==
  /\ starts < MaxStarts
  /\ session # activeSession
  /\ activeSession' = session /\ generation' = generation + 1
  /\ current' = NoSnapshot
  /\ starts' = starts + 1
  /\ loops' = [Cancelled EXCEPT ![starts + 1] =
       [Unstarted EXCEPT !.session = session, !.generation = generation + 1,
                         !.phase = "getting"]]
  /\ UNCHANGED <<host, failures>>

Stop ==
  /\ activeSession # NoSession
  /\ activeSession' = NoSession /\ generation' = generation + 1
  /\ current' = NoSnapshot
  /\ loops' = Cancelled
  /\ UNCHANGED <<host, starts, failures>>

\* Mutant: a loop does not ask whether it was superseded.
IsCurrentAlways(l) == TRUE

IsCurrent(l) ==
  /\ ~loops[l].aborted
  /\ loops[l].generation = generation
  /\ loops[l].session = activeSession

(* poll() returns.                                                         *)
End(l) == loops' = [loops EXCEPT ![l].phase = "ended", ![l].cursor = NoSnapshot,
                                 ![l].reply = NoSnapshot]

RequestWith(cursor) == IF cursor = NoSnapshot THEN "getting" ELSE "watching"

(* A reply is shown, and the next watch starts from it, if it is not late. *)
Deliver(l) ==
  /\ loops[l].phase = "answered"
  /\ \/ /\ IsCurrent(l)
        /\ current' = loops[l].reply
        /\ loops' = [loops EXCEPT ![l].cursor = loops[l].reply, ![l].reply = NoSnapshot,
                                  ![l].phase = RequestWith(loops[l].reply)]
     \/ ~IsCurrent(l) /\ End(l) /\ UNCHANGED current
  /\ UNCHANGED <<host, activeSession, generation, starts, failures>>

DeliverFailure(l) ==
  /\ loops[l].phase = "failed"
  /\ IF IsCurrent(l) THEN SetPhase(l, "backoff") ELSE End(l)
  /\ UNCHANGED <<host, client, starts, failures>>

NextRound(l) ==
  IF IsCurrent(l) THEN SetPhase(l, RequestWith(loops[l].cursor)) ELSE End(l)

(* waitForRetry() ends, by its timer or by the signal.                     *)
Retry(l) ==
  /\ loops[l].phase = "backoff"
  /\ NextRound(l)
  /\ UNCHANGED <<host, client, starts, failures>>

(* The transport loses a request or its reply.                             *)
RemoteFails(l) ==
  /\ failures < MaxFailures
  /\ loops[l].phase \in Requesting \cup {"answered"}
  /\ loops' = [loops EXCEPT ![l].phase = "failed", ![l].reply = NoSnapshot]
  /\ failures' = failures + 1
  /\ UNCHANGED <<host, client, starts>>

-----------------------------------------------------------------------------
LoopStep(l) ==
  \/ ServeGet(l) \/ ServeWatch(l) \/ AbortWatch(l) \/ AnswerWoken(l)
  \/ Deliver(l) \/ DeliverFailure(l) \/ Retry(l)

Next ==
  \/ Record \/ HostRestarts
  \/ \E session \in Sessions : Start(session)
  \/ Stop
  \/ \E l \in LoopIds : LoopStep(l) \/ Timeout(l) \/ RemoteFails(l)

Spec == Init /\ [][Next]_vars

(* Requests, replies and backoffs take their course.  No watch need ever   *)
(* time out.                                                               *)
FairSpec == Spec /\ \A l \in LoopIds : WF_vars(LoopStep(l))

-----------------------------------------------------------------------------
Loops == [session : Sessions \cup {NoSession}, generation : Nat, aborted : BOOLEAN,
          phase : Phases, cursor : Snapshots \cup {NoSnapshot},
          reply : Snapshots \cup {NoSnapshot}]

(* The shape of the state; a watch always carries a cursor.                *)
TypeOK ==
  /\ \A l \in LoopIds :
       loops[l].phase \in {"watching", "waiting", "woken"} => loops[l].cursor # NoSnapshot
  /\ epoch \in Nat /\ revision \in Nat
  /\ activeSession \in Sessions \cup {NoSession} /\ generation \in Nat
  /\ current \in Snapshots \cup {NoSnapshot}
  /\ loops \in [LoopIds -> Loops]
  /\ starts \in 0..MaxStarts /\ failures \in 0..MaxFailures

(* The view shows the active session or nothing, however late a reply of   *)
(* an earlier session comes (controller.ts:112-148).                       *)
ShownIsActive == current # NoSnapshot => current.session = activeSession

(* What is shown never goes back: not to an earlier revision, nor to an    *)
(* earlier host process, whatever replies of superseded loops are still    *)
(* under way - to the same session even, after stop() and start().         *)
NeverBackwards ==
  [][current # NoSnapshot /\ current' # NoSnapshot =>
       \/ current'.epoch > current.epoch
       \/ current'.epoch = current.epoch /\ current'.revision >= current.revision]_vars

(* A change reaches the view although no watch times out: no event falls   *)
(* between the check of the revision and the waiter, and a restarted host  *)
(* that reaches the same revision is not taken for the old one             *)
(* (telemetry.ts:269-281, 367-410).                                        *)
LatestIsShown ==
  \A session \in Sessions, e \in 0..(MaxEpochs - 1), r \in 0..MaxRevision :
    activeSession = session /\ epoch = e /\ revision = r
      ~> \/ activeSession # session \/ epoch # e \/ revision # r
         \/ current = [session |-> session, epoch |-> e, revision |-> r]

(* A superseded loop ends: one long poll is left in the end.               *)
SupersededLoopsEnd ==
  \A l \in LoopIds : loops[l].aborted ~> loops[l].phase = "ended"
=============================================================================
