---------------------------- MODULE RootResolver ----------------------------
(***************************************************************************)
(* Durable root resolution (host/root-resolver.ts) over the header catalog *)
(* the service puts between the resolver and the host's session stores     *)
(* (BootstrapHeaders in host/service.ts), with the bootstrap that resolves *)
(* every known session before the first call.                              *)
(*                                                                         *)
(* The host's stores are external.  They may answer what Claims allows:    *)
(* more than one parent for a session stands for a header that was         *)
(* rewritten, or whose live and persisted forms differ.  A step is what    *)
(* runs between two awaits of one walk.                                    *)
(***************************************************************************)
EXTENDS Integers, Sequences

CONSTANTS
  Sessions,
  Claims,       \* the parents that a header of a session may name
  Calls,        \* resolve() calls made by the authority, one walk each
  Boot,         \* the walk of the bootstrap
  MaxHeaders,   \* MAX_TRAVERSAL_HEADERS
  Root,         \* a header without parentSession
  None

ASSUME ResolverAssumption ==
  /\ Claims \in [Sessions -> SUBSET (Sessions \cup {Root})]
  /\ Boot \notin Calls
  /\ MaxHeaders \in Nat \ {0}
  /\ Root \notin Sessions /\ None \notin Sessions \cup {Root}

VARIABLES
  phase,      \* of the service: listing, bootstrapping, running, degraded
  pending,    \* the listed sessions that the bootstrap has not resolved yet
  cache,      \* BootstrapHeaders.headers: the parent each known header names
  memo,       \* DurableRootResolver.resolved: leaf-to-root lineages
  bound,      \* boundChildren
  walk        \* every resolve(): where it is, and where it has been

vars == <<phase, pending, cache, memo, bound, walk>>
Walks == Calls \cup {Boot}
Parents == Sessions \cup {Root}

Idle == [pc |-> "idle", at |-> None, path |-> <<>>, aborted |-> FALSE, faulty |-> FALSE]

Init ==
  /\ phase = "listing" /\ pending = {}
  /\ cache = [s \in Sessions |-> None]
  /\ memo = [s \in Sessions |-> <<>>]
  /\ bound = [s \in Sessions |-> None]
  /\ walk = [w \in Walks |-> Idle]

First(path) == path[1]
Final(path) == path[Len(path)]
Visited(path) == {path[i] : i \in 1..Len(path)}

-----------------------------------------------------------------------------
(* BootstrapHeaders.add(): a header that is known names the same parent.   *)
Conflicts(s, parent) == cache[s] \notin {None, parent}
Added(s, parent) == [cache EXCEPT ![s] = parent]

(* The bootstrap lists both stores; an id both list may conflict.  It will *)
(* resolve every header it has listed.                                     *)
ListSessions ==
  /\ phase = "listing"
  /\ \/ /\ phase' = "degraded" /\ UNCHANGED <<pending, cache>>
     \/ \E listed \in SUBSET Sessions :
          /\ \E parent \in [listed -> Parents] :
               /\ \A s \in listed : parent[s] \in Claims[s]
               /\ cache' = [s \in Sessions |-> IF s \in listed THEN parent[s] ELSE None]
          /\ phase' = "bootstrapping" /\ pending' = listed
  /\ UNCHANGED <<memo, bound, walk>>

-----------------------------------------------------------------------------
(* A walk ends without an answer, for good reason or because the stores    *)
(* failed it (faulty).  A bootstrap that fails degrades the service.       *)
Fails(w, faulty) ==
  /\ walk' = [walk EXCEPT ![w].pc = "failed", ![w].faulty = faulty]
  /\ phase' = IF w = Boot THEN "degraded" ELSE phase

Continues(w, s, path) ==
  /\ walk' = [walk EXCEPT ![w].pc = "inspecting", ![w].at = s, ![w].path = path]
  /\ UNCHANGED phase

Answers(w, path) ==
  /\ walk' = [walk EXCEPT ![w].pc = "answered", ![w].path = path]
  /\ UNCHANGED phase

(* resolve() looks at the memo first.                                      *)
Enter(w, s) ==
  IF memo[s] # <<>>
  THEN walk' = [walk EXCEPT ![w].pc = "answered", ![w].path = memo[s]]
  ELSE walk' = [walk EXCEPT ![w].pc = "inspecting", ![w].at = s, ![w].path = <<>>]

Resolve(c, s) ==
  /\ phase = "running" /\ walk[c].pc = "idle"
  /\ IF walk[c].aborted
     THEN walk' = [walk EXCEPT ![c].pc = "failed", ![c].faulty = TRUE]
     ELSE Enter(c, s)
  /\ UNCHANGED <<phase, pending, cache, memo, bound>>

(* The loop of the bootstrap takes the next header.                        *)
BootNext(s) ==
  /\ phase = "bootstrapping" /\ walk[Boot].pc \in {"idle", "answered"} /\ s \in pending
  /\ pending' = pending \ {s}
  /\ Enter(Boot, s)
  /\ UNCHANGED <<phase, cache, memo, bound>>

BootEnds ==
  /\ phase = "bootstrapping" /\ walk[Boot].pc \in {"idle", "answered"} /\ pending = {}
  /\ phase' = "running"
  /\ UNCHANGED <<pending, cache, memo, bound, walk>>

-----------------------------------------------------------------------------
\* Mutant: the limit counts the header before the check.
TooLongOffByOne(path) == Len(path) >= MaxHeaders

TooLong(path) == Len(path) > MaxHeaders

(* memoize(), for every suffix of a lineage that reached its root.         *)
Memoized(path) ==
  [s \in Sessions |->
     IF s \in Visited(path)
     THEN SubSeq(path, CHOOSE i \in 1..Len(path) : path[i] = s, Len(path))
     ELSE memo[s]]

\* Mutant: a header that was visited is walked through again.
ConsumeCircling(w, parent) ==
  LET s == walk[w].at
      path == IF s \in Visited(walk[w].path) THEN walk[w].path ELSE Append(walk[w].path, s)
  IN IF TooLong(path)
     THEN Fails(w, FALSE) /\ UNCHANGED memo
     ELSE IF parent = Root
     THEN Answers(w, path) /\ memo' = Memoized(path)
     ELSE Continues(w, parent, path) /\ UNCHANGED memo

\* Mutant: what was verified so far is memoized as the walk goes.
ConsumeEagerly(w, parent) ==
  LET s == walk[w].at  path == Append(walk[w].path, s)
  IN IF s \in Visited(walk[w].path) \/ TooLong(path)
     THEN Fails(w, FALSE) /\ UNCHANGED memo
     ELSE IF parent = Root
     THEN Answers(w, path) /\ memo' = Memoized(path)
     ELSE Continues(w, parent, path) /\ memo' = Memoized(path)

(* The loop of resolve() takes a header that names parent.                 *)
Consume(w, parent) ==
  LET s == walk[w].at  path == Append(walk[w].path, s)
  IN IF s \in Visited(walk[w].path) \/ TooLong(path)
     THEN Fails(w, FALSE) /\ UNCHANGED memo
     ELSE IF parent = Root
     THEN Answers(w, path) /\ memo' = Memoized(path)
     ELSE Continues(w, parent, path) /\ UNCHANGED memo

-----------------------------------------------------------------------------
(* BootstrapHeaders.inspect(): a live session is preferred ...             *)
\* Mutant: the header that came last counts.
LearnsOverwriting(w, parent) ==
  cache' = Added(walk[w].at, parent) /\ Consume(w, parent)

Learns(w, parent) ==
  IF Conflicts(walk[w].at, parent)
  THEN Fails(w, TRUE) /\ UNCHANGED <<cache, memo>>
  ELSE cache' = Added(walk[w].at, parent) /\ Consume(w, parent)

InspectLive(w) ==
  /\ walk[w].pc = "inspecting" /\ ~walk[w].aborted
  /\ \E parent \in Claims[walk[w].at] : Learns(w, parent)
  /\ UNCHANGED <<pending, bound>>

(* ... then a cached header, and then the persistence, which is awaited.   *)
InspectCached(w) ==
  /\ walk[w].pc = "inspecting" /\ ~walk[w].aborted
  /\ cache[walk[w].at] # None
  /\ Consume(w, cache[walk[w].at])
  /\ UNCHANGED <<pending, cache, bound>>

AskPersistence(w) ==
  /\ walk[w].pc = "inspecting" /\ ~walk[w].aborted
  /\ cache[walk[w].at] = None
  /\ walk' = [walk EXCEPT ![w].pc = "reading"]
  /\ UNCHANGED <<phase, pending, cache, memo, bound>>

PersistenceAnswers(w) ==
  /\ walk[w].pc = "reading" /\ ~walk[w].aborted
  /\ \E parent \in Claims[walk[w].at] : Learns(w, parent)
  /\ UNCHANGED <<pending, bound>>

(* Either store answers with the header of another session, which is added *)
(* before its id is looked at.                                             *)
Misanswered(w, s) ==
  /\ walk[w].pc \in {"inspecting", "reading"} /\ ~walk[w].aborted
  /\ s # walk[w].at
  /\ \E parent \in Claims[s] :
       cache' = IF Conflicts(s, parent) THEN cache ELSE Added(s, parent)
  /\ Fails(w, TRUE)
  /\ UNCHANGED <<pending, memo, bound>>

(* No such session, or a store that cannot be read, or the signal.         *)
InspectFails(w) ==
  /\ walk[w].pc \in {"inspecting", "reading"}
  /\ Fails(w, TRUE)
  /\ UNCHANGED <<pending, cache, memo, bound>>

Abort(c) ==
  /\ walk[c].pc \in {"idle", "inspecting", "reading"} /\ ~walk[c].aborted
  /\ walk' = [walk EXCEPT ![c].aborted = TRUE]
  /\ UNCHANGED <<phase, pending, cache, memo, bound>>

-----------------------------------------------------------------------------
(* bindChild(): the claim of a permit, whose root a resolve() answered.    *)
Claim(c) == [root |-> Final(walk[c].path), parent |-> First(walk[c].path)]

Disagrees(s, claim) == memo[s] # <<>> /\ Final(memo[s]) # claim.root

Refuses(child, claim, local) ==
  \/ local \notin {None, claim.parent}
  \/ IF bound[child] # None
     THEN bound[child] # claim
     ELSE Disagrees(child, claim) \/ Disagrees(claim.parent, claim)

BindChild(c, child, local) ==
  /\ walk[c].pc = "answered"
  /\ ~Refuses(child, Claim(c), local)
  /\ bound' = [bound EXCEPT ![child] = Claim(c)]
  /\ UNCHANGED <<phase, pending, cache, memo, walk>>

-----------------------------------------------------------------------------
Step(w) ==
  \/ InspectLive(w) \/ InspectCached(w) \/ AskPersistence(w)
  \/ PersistenceAnswers(w) \/ InspectFails(w)
  \/ \E s \in Sessions : Misanswered(w, s)

BootStep == BootEnds \/ \E s \in Sessions : BootNext(s)

Next ==
  \/ ListSessions \/ BootStep
  \/ \E w \in Walks : Step(w)
  \/ \E c \in Calls :
       \/ Abort(c)
       \/ \E s \in Sessions :
            \/ Resolve(c, s)
            \/ \E local \in (Claims[s] \ {Root}) \cup {None} : BindChild(c, s, local)

Spec == Init /\ [][Next]_vars

(* What a store is asked it answers, and a loop goes on.                   *)
FairSpec == Spec /\ WF_vars(BootStep) /\ \A w \in Walks : WF_vars(Step(w))

-----------------------------------------------------------------------------
(* The shape of the state.                                                 *)
TypeOK ==
  /\ phase \in {"listing", "bootstrapping", "running", "degraded"}
  /\ pending \subseteq Sessions
  /\ cache \in [Sessions -> Parents \cup {None}]
  /\ memo \in [Sessions -> Seq(Sessions)]
  /\ bound \in [Sessions -> [root : Sessions, parent : Sessions] \cup {None}]
  /\ walk \in [Walks -> [pc : {"idle", "inspecting", "reading", "answered", "failed"},
                         at : Sessions \cup {None}, path : Seq(Sessions),
                         aborted : BOOLEAN, faulty : BOOLEAN]]

(* A chain of known headers, each naming the next, none twice.             *)
Chained(path) ==
  /\ \A i \in 1..(Len(path) - 1) : cache[path[i]] = path[i + 1]
  /\ \A i, j \in 1..Len(path) : path[i] = path[j] => i = j

Lineage(path) ==
  Chained(path) /\ Len(path) \in 1..MaxHeaders /\ cache[Final(path)] = Root

(* Whatever walks overlap, fail or are aborted, what is memoized for a     *)
(* session is its whole chain of known headers up to the root, and so is   *)
(* what a call was answered: "Nothing is cached until the whole chain has  *)
(* succeeded, so a failed or partial traversal can never poison a later    *)
(* resolution" (host/root-resolver.ts:8-10).                               *)
AnswersAreLineages ==
  /\ \A s \in Sessions : memo[s] # <<>> => Lineage(memo[s]) /\ First(memo[s]) = s
  /\ \A w \in Walks : walk[w].pc = "answered" => Lineage(walk[w].path)

(* A session that has a lineage keeps it, and a child its binding: no      *)
(* permit changes its root.                                                *)
Keeps(table, empty) == \A s \in Sessions : table[s] # empty => table'[s] = table[s]
AnswersNeverChange == [][Keeps(memo, <<>>) /\ Keeps(bound, None)]_vars

(* A walk that no store failed and nobody aborted ends without an answer   *)
(* only if the known headers lead it in a circle or past the limit:        *)
(* "Exactly 1,024 headers resolve" (host/root-resolver.ts:51).             *)
FailsOnlyWithCause ==
  \A w \in Walks : walk[w].pc = "failed" /\ ~walk[w].faulty =>
    /\ Chained(walk[w].path)
    /\ LET next == cache[walk[w].at]
       IN \/ walk[w].at \in Visited(walk[w].path)
          \/ Len(walk[w].path) = MaxHeaders /\ next \in Parents

(* Every walk ends, through whatever circle the headers lead it, and so    *)
(* does the bootstrap.                                                     *)
WalksEnd ==
  /\ \A w \in Walks : walk[w].pc = "inspecting" ~> walk[w].pc \in {"answered", "failed"}
  /\ phase = "bootstrapping" ~> phase \in {"running", "degraded"}
=============================================================================
