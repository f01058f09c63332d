-------------------------- MODULE SnapshotWatchProofs --------------------------
(***************************************************************************)
(* What the view shows, for any number of sessions, loops, host processes  *)
(* and revisions.  The inductive invariant says that the loop that is      *)
(* current has for its cursor what is shown, that a loop answers with a    *)
(* snapshot no earlier than its cursor, and that no two loops are of one   *)
(* generation.                                                             *)
(***************************************************************************)
EXTENDS SnapshotWatch, TLAPS

Earlier(a, b) == a.epoch < b.epoch \/ (a.epoch = b.epoch /\ a.revision <= b.revision)

(* What a loop has in hand was a snapshot of its session, and none was     *)
(* taken later than now.                                                   *)
InHand(l, x) ==
  x # NoSnapshot =>
    /\ x.session = loops[l].session
    /\ Earlier(x, Snapshot(x.session))

LoopState(l) ==
  /\ loops[l].phase = "answered" => loops[l].reply # NoSnapshot
  /\ InHand(l, loops[l].reply) /\ InHand(l, loops[l].cursor)
  /\ loops[l].cursor # NoSnapshot /\ loops[l].reply # NoSnapshot =>
       Earlier(loops[l].cursor, loops[l].reply)
  /\ loops[l].generation <= generation

Started(l) ==
  IF l <= starts THEN loops[l].generation > 0 /\ loops[l].session \in Sessions
                 ELSE loops[l] = Unstarted

Distinct ==
  \A l, m \in LoopIds :
    l <= starts /\ m <= starts /\ loops[l].generation = loops[m].generation => l = m

IInv ==
  /\ TypeOK /\ ShownIsActive
  /\ \A l \in LoopIds : LoopState(l) /\ Started(l)
  /\ Distinct
  /\ \A l \in LoopIds : IsCurrent(l) => loops[l].cursor = current

-----------------------------------------------------------------------------
(* A loop goes on: its session, generation and signal stay, and so does    *)
(* its cursor while it is current.                                         *)
GoesOn(l, new) ==
  /\ new \in Loops /\ new.phase # "unstarted"
  /\ new.session = loops[l].session /\ new.generation = loops[l].generation
  /\ new.aborted = loops[l].aborted
  /\ new.phase \in {"watching", "waiting", "woken"} => new.cursor # NoSnapshot
  /\ new.phase = "answered" => new.reply # NoSnapshot
  /\ new.cursor # NoSnapshot => new.cursor = loops[l].cursor
  /\ IsCurrent(l) => new.cursor = loops[l].cursor
  /\ new.reply # NoSnapshot => new.reply \in {loops[l].reply, Snapshot(loops[l].session)}

LEMMA OneLoop ==
  ASSUME IInv, NEW l \in LoopIds, l <= starts, NEW new, GoesOn(l, new),
         loops' = [loops EXCEPT ![l] = new],
         UNCHANGED <<host, client, starts>>, failures' \in 0..MaxFailures
  PROVE  IInv'
<1> USE DEF host, client
<1>1. TypeOK'
  BY DEF IInv, TypeOK, GoesOn
<1>2. ShownIsActive'
  BY DEF IInv, ShownIsActive
<1>3. LoopState(l)' /\ Started(l)'
  <2>1. loops'[l] = new
    BY DEF IInv, TypeOK
  <2>2. LoopState(l) /\ Started(l)
    BY DEF IInv
  <2>3. loops[l] \in Loops /\ epoch \in Nat /\ revision \in Nat
    BY DEF IInv, TypeOK
  <2>4. InHand(l, new.reply)' /\ InHand(l, new.cursor)'
    BY <2>1, <2>2, <2>3 DEF GoesOn, LoopState, InHand, Snapshot, Earlier, Loops
  <2>5. new.cursor # NoSnapshot /\ new.reply # NoSnapshot => Earlier(new.cursor, new.reply)
    BY <2>1, <2>2, <2>3 DEF GoesOn, LoopState, InHand, Snapshot, Earlier
  <2> QED
    BY <2>1, <2>2, <2>4, <2>5 DEF GoesOn, LoopState, Started
<1>4. ASSUME NEW m \in LoopIds, m # l
      PROVE  LoopState(m)' /\ Started(m)'
  <2>1. loops'[m] = loops[m]
    BY <1>4 DEF IInv, TypeOK
  <2> QED
    BY <1>4, <2>1 DEF IInv, LoopState, Started, InHand, Snapshot, Earlier
<1>5. \A m \in LoopIds : loops'[m].generation = loops[m].generation
                         /\ (IsCurrent(m)' <=> IsCurrent(m))
  BY DEF IInv, TypeOK, GoesOn, IsCurrent
<1>6. Distinct'
  BY <1>5 DEF IInv, Distinct
<1>7. ASSUME NEW m \in LoopIds, IsCurrent(m)'
      PROVE  loops'[m].cursor = current'
  BY <1>5, <1>7 DEF IInv, GoesOn, TypeOK
<1> QED
  BY <1>1, <1>2, <1>3, <1>4, <1>6, <1>7 DEF IInv

(* An unstarted loop does nothing.                                         *)
LEMMA OnlyStarted ==
  ASSUME IInv, NEW l \in LoopIds, loops[l].phase # "unstarted"
  PROVE  l <= starts
BY DEF IInv, Started, Unstarted

LEMMA PhaseSteps ==
  ASSUME IInv, NEW l \in LoopIds, NEW phase \in Phases \ {"unstarted", "answered"},
         loops[l].phase # "unstarted", SetPhase(l, phase),
         phase \in {"watching", "waiting", "woken"} => loops[l].cursor # NoSnapshot,
         UNCHANGED <<host, client, starts, failures>>
  PROVE  IInv'
<1> DEFINE new == [loops[l] EXCEPT !.phase = phase]
<1>1. loops[l] \in Loops /\ failures \in 0..MaxFailures
  BY DEF IInv, TypeOK
<1>2. loops' = [loops EXCEPT ![l] = new]
  BY DEF SetPhase
<1>3. GoesOn(l, new)
  BY <1>1 DEF GoesOn, Loops
<1> QED
  BY <1>1, <1>2, <1>3, OneLoop, OnlyStarted

LEMMA AnswerSteps ==
  ASSUME IInv, NEW l \in LoopIds, loops[l].phase \in {"getting", "watching", "woken"},
         Answer(l), HostStep
  PROVE  IInv'
<1> DEFINE new == [loops[l] EXCEPT !.phase = "answered", !.reply = Snapshot(loops[l].session)]
<1>1. loops[l] \in Loops /\ failures \in 0..MaxFailures /\ l <= starts
  BY OnlyStarted DEF IInv, TypeOK
<1>2. loops[l].session \in Sessions
  BY <1>1 DEF IInv, Started
<1>3. Snapshot(loops[l].session) \in Snapshots
  BY <1>2 DEF IInv, TypeOK, Snapshot, Snapshots
<1>4. loops' = [loops EXCEPT ![l] = new]
  BY DEF Answer
<1>5. GoesOn(l, new)
  BY <1>1, <1>3, BoundsAssumption DEF GoesOn, Loops, Phases
<1> QED
  BY <1>1, <1>4, <1>5, OneLoop DEF HostStep

LEMMA EndSteps ==
  ASSUME IInv, NEW l \in LoopIds, loops[l].phase # "unstarted", ~IsCurrent(l), End(l),
         UNCHANGED <<host, client, starts, failures>>
  PROVE  IInv'
<1> DEFINE new == [loops[l] EXCEPT !.phase = "ended", !.cursor = NoSnapshot,
                                   !.reply = NoSnapshot]
<1>1. loops[l] \in Loops /\ failures \in 0..MaxFailures
  BY DEF IInv, TypeOK
<1>2. loops' = [loops EXCEPT ![l] = new]
  BY DEF End
<1>3. GoesOn(l, new)
  BY <1>1 DEF GoesOn, Loops, Phases
<1> QED
  BY <1>1, <1>2, <1>3, OneLoop, OnlyStarted

LEMMA LossSteps ==
  ASSUME IInv, NEW l \in LoopIds, RemoteFails(l)
  PROVE  IInv'
<1> DEFINE new == [loops[l] EXCEPT !.phase = "failed", !.reply = NoSnapshot]
<1>1. loops[l] \in Loops /\ failures' \in 0..MaxFailures
  BY BoundsAssumption DEF IInv, TypeOK, RemoteFails
<1>2. loops' = [loops EXCEPT ![l] = new] /\ UNCHANGED <<host, client, starts>>
  BY DEF RemoteFails
<1>3. GoesOn(l, new) /\ l <= starts
  BY <1>1, OnlyStarted DEF GoesOn, Loops, Phases, RemoteFails, Requesting
<1> QED
  BY <1>1, <1>2, <1>3, OneLoop

LEMMA QuietSteps ==
  ASSUME IInv, NEW l \in LoopIds,
         \/ ServeGet(l) \/ ServeWatch(l) \/ Timeout(l) \/ AbortWatch(l) \/ AnswerWoken(l)
         \/ DeliverFailure(l) \/ Retry(l)
  PROVE  IInv'
<1>1. loops[l] \in Loops
      /\ (loops[l].phase \in {"watching", "waiting", "woken"} => loops[l].cursor # NoSnapshot)
  BY DEF IInv, TypeOK
<1>2. CASE ServeGet(l) \/ AnswerWoken(l)
  BY <1>2, AnswerSteps DEF ServeGet, AnswerWoken
<1>3. CASE ServeWatch(l)
  BY <1>1, <1>3, AnswerSteps, PhaseSteps DEF ServeWatch, HostStep, Phases, Requesting
<1>4. CASE Timeout(l) \/ AbortWatch(l)
  BY <1>1, <1>4, PhaseSteps DEF Timeout, AbortWatch, HostStep, Phases, Requesting
<1>5. CASE DeliverFailure(l)
  BY <1>5, PhaseSteps, EndSteps DEF DeliverFailure, Phases, Requesting
<1>6. CASE Retry(l)
  BY <1>6, PhaseSteps, EndSteps DEF Retry, NextRound, RequestWith, Phases, Requesting
<1> QED
  BY <1>2, <1>3, <1>4, <1>5, <1>6

-----------------------------------------------------------------------------
(* What is delivered is shown by the loop that is current, and by no other.*)
LEMMA DeliverSteps ==
  ASSUME IInv, NEW l \in LoopIds, Deliver(l)
  PROVE  IInv'
<1>1. CASE ~IsCurrent(l)
  BY <1>1, EndSteps DEF Deliver, client
<1>2. CASE IsCurrent(l)
  <2> DEFINE reply == loops[l].reply
             new == [loops[l] EXCEPT !.cursor = reply, !.reply = NoSnapshot,
                                     !.phase = RequestWith(reply)]
  <2> USE DEF host
  <2>1. loops[l] \in Loops /\ l <= starts /\ LoopState(l) /\ Started(l)
    BY OnlyStarted DEF IInv, TypeOK, Deliver
  <2>2. reply \in Snapshots /\ reply # NoSnapshot /\ reply.session = activeSession
    BY <1>2, <2>1 DEF Deliver, LoopState, InHand, IsCurrent, Loops
  <2>3. /\ loops' = [loops EXCEPT ![l] = new] /\ current' = reply
        /\ UNCHANGED <<epoch, revision, activeSession, generation, starts, failures>>
    BY <1>2 DEF Deliver
  <2>4. new \in Loops /\ new.phase = "watching" /\ new.cursor = reply /\ new.reply = NoSnapshot
        /\ new.session = loops[l].session /\ new.generation = loops[l].generation
        /\ new.aborted = loops[l].aborted
    BY <2>1, <2>2 DEF RequestWith, Loops, Phases, Requesting
  <2>5. TypeOK' /\ ShownIsActive'
    BY <2>2, <2>3, <2>4 DEF IInv, TypeOK, ShownIsActive
  <2>6. LoopState(l)' /\ Started(l)'
    BY <2>1, <2>2, <2>3, <2>4 DEF IInv, TypeOK, LoopState, InHand, Started, Snapshot, Earlier
  <2>7. ASSUME NEW m \in LoopIds, m # l
        PROVE  LoopState(m)' /\ Started(m)' /\ ~IsCurrent(m)'
    <3>1. loops'[m] = loops[m] /\ LoopState(m) /\ Started(m)
      BY <2>3, <2>7 DEF IInv, TypeOK
    <3>2. loops[m].generation # generation
      BY <1>2, <2>1, <2>7, <3>1 DEF IInv, Distinct, IsCurrent, Started, Unstarted
    <3> QED
      BY <2>3, <3>1, <3>2 DEF LoopState, Started, InHand, Snapshot, Earlier, IsCurrent
  <2>8. Distinct'
    BY <2>3, <2>4 DEF IInv, TypeOK, Distinct
  <2> QED
    BY <2>3, <2>4, <2>5, <2>6, <2>7, <2>8 DEF IInv, TypeOK
<1> QED
  BY <1>1, <1>2

-----------------------------------------------------------------------------
(* The host goes on while the loops keep what they have in hand.           *)
LEMMA HostSteps ==
  ASSUME IInv, Record \/ HostRestarts
  PROVE  IInv'
<1> USE DEF client
<1>1. /\ epoch' \in Nat /\ revision' \in Nat
      /\ epoch' > epoch \/ (epoch' = epoch /\ revision' > revision)
      /\ UNCHANGED <<client, starts, failures>>
  BY DEF IInv, TypeOK, Record, HostRestarts
<1>2. ASSUME NEW l \in LoopIds
      PROVE  /\ loops'[l] = loops[l] \/ \E phase \in {"woken", "failed"} :
                   loops'[l] = [loops[l] EXCEPT !.phase = phase]
             /\ loops'[l] = loops[l] \/ loops[l].phase \in Requesting
             /\ loops'[l].phase = "woken" => loops[l].cursor # NoSnapshot
  <2>1. loops[l] \in Loops
        /\ (loops[l].phase \in {"waiting", "woken"} => loops[l].cursor # NoSnapshot)
    BY DEF IInv, TypeOK
  <2>2. CASE Record
    BY <2>1, <2>2 DEF Record, Woken, Loops, Requesting
  <2>3. CASE HostRestarts
    BY <2>1, <2>3 DEF HostRestarts, Loops, Requesting
  <2> QED
    BY <2>2, <2>3
<1>3. DOMAIN loops' = LoopIds /\ loops' = [l \in LoopIds |-> loops'[l]]
  <2>1. CASE Record
    BY <2>1 DEF Record, Woken
  <2>2. CASE HostRestarts
    BY <2>2 DEF HostRestarts
  <2> QED
    BY <2>1, <2>2
<1>4. ASSUME NEW l \in LoopIds
      PROVE  /\ loops'[l].session = loops[l].session /\ loops'[l].cursor = loops[l].cursor
             /\ loops'[l].reply = loops[l].reply /\ loops'[l].aborted = loops[l].aborted
             /\ loops'[l].generation = loops[l].generation
             /\ loops[l] \in Loops /\ loops'[l] \in Loops
             /\ loops[l] = Unstarted => loops'[l] = Unstarted
  <2>1. loops[l] \in Loops
    BY DEF IInv, TypeOK
  <2>2. CASE loops'[l] = loops[l]
    BY <2>1, <2>2
  <2>3. ASSUME NEW phase \in {"woken", "failed"}, loops[l].phase \in Requesting,
               loops'[l] = [loops[l] EXCEPT !.phase = phase]
        PROVE  /\ loops'[l].session = loops[l].session /\ loops'[l].cursor = loops[l].cursor
               /\ loops'[l].reply = loops[l].reply /\ loops'[l].aborted = loops[l].aborted
               /\ loops'[l].generation = loops[l].generation /\ loops'[l] \in Loops
    BY <2>1, <2>3 DEF Loops, Phases, Requesting
  <2>4. loops[l] = Unstarted => loops[l].phase \notin Requesting
    BY DEF Unstarted, Requesting
  <2> QED
    BY <1>2, <2>1, <2>2, <2>3, <2>4
<1>5. TypeOK' /\ ShownIsActive'
  <2>1. loops' \in [LoopIds -> Loops]
    BY <1>3, <1>4
  <2>2. \A l \in LoopIds :
          loops'[l].phase \in {"watching", "waiting", "woken"} => loops'[l].cursor # NoSnapshot
    BY <1>2, <1>4 DEF IInv, TypeOK, Loops
  <2>3. ShownIsActive'
    BY <1>1 DEF IInv, ShownIsActive
  <2> QED
    BY <1>1, <2>1, <2>2, <2>3 DEF IInv, TypeOK
<1>6. ASSUME NEW l \in LoopIds
      PROVE  LoopState(l)' /\ Started(l)' /\ (IsCurrent(l)' => loops'[l].cursor = current')
  <2>1. LoopState(l) /\ Started(l) /\ (IsCurrent(l) => loops[l].cursor = current)
    BY DEF IInv
  <2>2. InHand(l, loops[l].reply)' /\ InHand(l, loops[l].cursor)'
    BY <1>1, <1>4, <2>1 DEF IInv, TypeOK, LoopState, InHand, Snapshot, Snapshots, Earlier, Loops
  <2> QED
    <3>1. loops'[l].phase = "answered" => loops[l].phase = "answered"
      BY <1>2, <1>4 DEF Loops
    <3>2. LoopState(l)'
      BY <1>1, <1>4, <2>1, <2>2, <3>1 DEF LoopState, Earlier
    <3>3. Started(l)'
      BY <1>1, <1>4, <2>1 DEF Started
    <3>4. IsCurrent(l)' => IsCurrent(l)
      BY <1>1, <1>4 DEF IsCurrent
    <3> QED
      BY <1>1, <1>4, <2>1, <3>2, <3>3, <3>4
<1>7. Distinct'
  <2> SUFFICES ASSUME NEW l \in LoopIds, NEW m \in LoopIds, l <= starts', m <= starts',
                      loops'[l].generation = loops'[m].generation
               PROVE  l = m
    BY DEF Distinct
  <2>1. loops[l].generation = loops[m].generation
    BY <1>4
  <2> QED
    BY <1>1, <2>1 DEF IInv, Distinct
<1> QED
  BY <1>5, <1>6, <1>7 DEF IInv

(* The client leaves every loop behind: none of the earlier ones is of the *)
(* new generation.                                                         *)
LEMMA LoopsCancelled ==
  ASSUME IInv, NEW l \in LoopIds
  PROVE  /\ Cancelled[l] \in Loops
         /\ Cancelled[l].session = loops[l].session /\ Cancelled[l].cursor = loops[l].cursor
         /\ Cancelled[l].reply = loops[l].reply /\ Cancelled[l].phase = loops[l].phase
         /\ Cancelled[l].generation = loops[l].generation
         /\ loops[l] = Unstarted => Cancelled[l] = Unstarted
<1>1. loops[l] \in Loops
  BY DEF IInv, TypeOK
<1>2. l = starts => loops[l].generation > 0
  BY DEF IInv, Started, TypeOK
<1>3. l = starts => loops[l] # Unstarted
  BY <1>2 DEF Unstarted
<1> QED
  BY <1>1, <1>3 DEF Cancelled, Loops

LEMMA ClientSteps ==
  ASSUME IInv, Stop \/ \E session \in Sessions : Start(session)
  PROVE  IInv'
<1> USE DEF host
<1>1. \A l \in LoopIds : LoopState(l) /\ Started(l) /\ loops[l] \in Loops
  BY DEF IInv, TypeOK
<1>2. CASE Stop
  <2>1. loops' = Cancelled /\ generation' = generation + 1 /\ current' = NoSnapshot
        /\ activeSession' = NoSession /\ UNCHANGED <<epoch, revision, starts, failures>>
    BY <1>2 DEF Stop
  <2>2. loops' \in [LoopIds -> Loops]
    BY <2>1, LoopsCancelled DEF Cancelled
  <2>3. TypeOK' /\ ShownIsActive'
    BY <2>1, <2>2, LoopsCancelled DEF IInv, TypeOK, ShownIsActive
  <2>4. ASSUME NEW l \in LoopIds
        PROVE  LoopState(l)' /\ Started(l)' /\ ~IsCurrent(l)'
    BY <1>1, <2>1, LoopsCancelled
       DEF IInv, TypeOK, LoopState, Started, InHand, Snapshot, Earlier, IsCurrent, Loops
  <2>5. Distinct'
    BY <2>1, LoopsCancelled DEF IInv, Distinct
  <2> QED
    BY <2>3, <2>4, <2>5 DEF IInv
<1>3. ASSUME NEW session \in Sessions, Start(session)
      PROVE  IInv'
  <2> DEFINE new == [Unstarted EXCEPT !.session = session, !.generation = generation + 1,
                                      !.phase = "getting"]
  <2> HIDE DEF new
  <2>1. /\ loops' = [Cancelled EXCEPT ![starts + 1] = new]
        /\ generation' = generation + 1 /\ starts' = starts + 1 /\ current' = NoSnapshot
        /\ activeSession' = session /\ UNCHANGED <<epoch, revision, failures>>
    BY <1>3 DEF Start, new
  <2>2. /\ starts + 1 \in LoopIds /\ starts + 1 \in 0..MaxStarts /\ starts \in Nat
        /\ MaxStarts \in Nat /\ generation \in Nat
    <3>1. MaxStarts \in Nat
      BY BoundsAssumption
    <3>2. starts \in 0..MaxStarts /\ generation \in Nat /\ starts < MaxStarts
      BY <1>3 DEF Start, IInv, TypeOK
    <3> QED
      BY <3>1, <3>2 DEF LoopIds
  <2> PICK k \in LoopIds : k = starts + 1
    BY <2>2
  <2>3. new \in Loops /\ new.session = session /\ new.generation = generation + 1
        /\ new.phase = "getting" /\ new.cursor = NoSnapshot /\ new.reply = NoSnapshot
    <3>1. Unstarted \in Loops /\ Unstarted.cursor = NoSnapshot /\ Unstarted.reply = NoSnapshot
      BY DEF Unstarted, Loops, Phases
    <3>2. generation + 1 \in Nat /\ "getting" \in Phases
      BY <2>2 DEF Phases, Requesting
    <3> QED
      BY <3>1, <3>2 DEF new, Loops
  <2>4. /\ loops'[k] = new
        /\ \A l \in LoopIds \ {k} : loops'[l] = Cancelled[l]
        /\ loops' \in [LoopIds -> Loops]
    <3>1. Cancelled \in [LoopIds -> Loops]
      BY LoopsCancelled DEF Cancelled
    <3> QED
      BY <2>1, <2>2, <2>3, <3>1
  <2>5. TypeOK' /\ ShownIsActive'
    <3>1. \A l \in LoopIds :
            loops'[l].phase \in {"watching", "waiting", "woken"} => loops'[l].cursor # NoSnapshot
      <4>1. ASSUME NEW l \in LoopIds \ {k}
            PROVE  loops'[l].phase = loops[l].phase /\ loops'[l].cursor = loops[l].cursor
        BY <2>4, LoopsCancelled
      <4> QED
        BY <2>3, <2>4, <4>1 DEF IInv, TypeOK
    <3>2. ShownIsActive'
      BY <2>1 DEF ShownIsActive
    <3>3. /\ generation' \in Nat /\ starts' \in 0..MaxStarts
          /\ current' \in Snapshots \cup {NoSnapshot}
          /\ activeSession' \in Sessions \cup {NoSession}
      BY <2>1, <2>2
    <3>4. epoch' \in Nat /\ revision' \in Nat /\ failures' \in 0..MaxFailures
      BY <2>1 DEF IInv, TypeOK
    <3> QED
      BY <2>4, <3>1, <3>2, <3>3, <3>4 DEF TypeOK
  <2>6. LoopState(k)' /\ Started(k)'
    <3>1. InHand(k, loops[k].reply)'
          /\ InHand(k, loops[k].cursor)'
      BY <2>1, <2>3, <2>4 DEF InHand
    <3>2. LoopState(k)'
      BY <2>2, <2>1, <2>3, <2>4, <3>1 DEF LoopState
    <3>3. Started(k)'
      BY <2>2, <2>1, <2>3, <2>4 DEF Started
    <3> QED
      BY <2>1, <3>2, <3>3
  <2>7. ASSUME NEW l \in LoopIds \ {k}
        PROVE  LoopState(l)' /\ Started(l)' /\ ~IsCurrent(l)'
    <3>1. loops'[l] = Cancelled[l] /\ l \in Nat
      BY <2>4 DEF LoopIds
    <3>2. Started(l)'
      BY <1>1, <2>1, <2>2, <3>1, LoopsCancelled DEF Started
    <3>3. loops[l].generation \in Nat /\ loops[l].generation <= generation
      BY <1>1 DEF LoopState, Loops
    <3>4. LoopState(l)'
      BY <1>1, <2>1, <2>2, <3>1, <3>3, LoopsCancelled
         DEF LoopState, InHand, Snapshot, Earlier
    <3> QED
      BY <2>1, <2>2, <3>1, <3>2, <3>3, <3>4, LoopsCancelled DEF IsCurrent
  <2>8. \A l \in LoopIds : IsCurrent(l)' => loops'[l].cursor = current'
    BY <2>1, <2>3, <2>4, <2>7
  <2>9. Distinct'
    <3>1. ASSUME NEW l \in LoopIds \ {k}, l <= k
          PROVE  /\ l <= starts /\ loops'[l].generation = loops[l].generation
                 /\ loops'[l].generation < generation + 1
      <4>1. l \in Nat /\ l # k
        BY DEF LoopIds
      <4>2. loops[l].generation \in Nat /\ loops[l].generation <= generation
        BY <1>1 DEF LoopState, Loops
      <4> QED
        BY <2>2, <2>4, <3>1, <4>1, <4>2, LoopsCancelled
    <3> QED
      BY <2>1, <2>2, <2>3, <2>4, <3>1 DEF IInv, Distinct
  <2>10. \A l \in LoopIds : LoopState(l)' /\ Started(l)'
    BY <2>1, <2>6, <2>7
  <2> QED
    BY <2>5, <2>8, <2>9, <2>10 DEF IInv
<1> QED
  BY <1>2, <1>3

LEMMA Inductive ==
  ASSUME IInv, [Next]_vars
  PROVE  IInv'
<1>1. CASE UNCHANGED vars
  BY <1>1 DEF vars, host, client, IInv, TypeOK, ShownIsActive, LoopState, Started, Distinct,
              IsCurrent, InHand, Snapshot
<1> QED
  BY <1>1, QuietSteps, DeliverSteps, LossSteps, HostSteps, ClientSteps DEF Next, LoopStep

LEMMA InitHolds ==
  ASSUME Init
  PROVE  IInv
BY BoundsAssumption
   DEF Init, IInv, TypeOK, ShownIsActive, LoopState, Started, Distinct, IsCurrent, InHand,
       Unstarted, Loops, Phases, LoopIds

(* The loops, their cursors and what is shown are as the invariant says.   *)
THEOREM Invariance == Spec => []IInv
BY InitHolds, Inductive, PTL DEF Spec

(* No variable leaves its type: above all, a watch has a cursor.           *)
THEOREM TypeCorrect == Spec => []TypeOK
<1>1. IInv => TypeOK
  BY DEF IInv
<1> QED
  BY <1>1, Invariance, PTL

(* The view shows the session that is active, or nothing.                  *)
THEOREM ActiveIsShown == Spec => []ShownIsActive
<1>1. IInv => ShownIsActive
  BY DEF IInv
<1> QED
  BY <1>1, Invariance, PTL

-----------------------------------------------------------------------------
LEMMA StepsForward ==
  ASSUME IInv, [Next]_vars, current # NoSnapshot, current' # NoSnapshot
  PROVE  Earlier(current, current')
<1>1. current \in Snapshots
  BY DEF IInv, TypeOK
<1>2. CASE UNCHANGED current
  BY <1>1, <1>2 DEF Earlier, Snapshots
<1>3. ASSUME NEW l \in LoopIds, Deliver(l), IsCurrent(l)
      PROVE  Earlier(current, current')
  BY <1>3 DEF IInv, LoopState, Deliver
<1> QED
  BY <1>2, <1>3 DEF Next, LoopStep, vars, client, Record, HostRestarts, Start, Stop, HostStep,
     ServeGet, ServeWatch, AbortWatch, AnswerWoken, Deliver, DeliverFailure, Retry, Timeout,
     RemoteFails

(* What is shown never goes back to an earlier revision or host process.   *)
THEOREM ShownForward == Spec => NeverBackwards
<1>1. IInv /\ [Next]_vars =>
        [current # NoSnapshot /\ current' # NoSnapshot =>
           \/ current'.epoch > current.epoch
           \/ current'.epoch = current.epoch /\ current'.revision >= current.revision]_vars
  <2> SUFFICES ASSUME IInv, [Next]_vars, current # NoSnapshot, current' # NoSnapshot
               PROVE  \/ current'.epoch > current.epoch
                      \/ current'.epoch = current.epoch /\ current'.revision >= current.revision
    OBVIOUS
  <2>1. IInv'
    BY Inductive
  <2>2. current \in Snapshots /\ current' \in Snapshots
    BY <2>1 DEF IInv, TypeOK
  <2> QED
    BY <2>2, StepsForward DEF Earlier, Snapshots
<1> QED
  BY <1>1, Invariance, PTL DEF Spec, NeverBackwards
================================================================================
