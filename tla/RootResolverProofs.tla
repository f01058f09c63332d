-------------------------- MODULE RootResolverProofs --------------------------
(***************************************************************************)
(* The answers of the resolver, for any set of sessions, any headers the   *)
(* stores may answer with and any number of overlapping walks.  The        *)
(* inductive invariant says that a walk under way has come along a chain   *)
(* of known headers to where it is; that a session keeps its lineage rests *)
(* on there being only one lineage of it in a catalog of headers.          *)
(***************************************************************************)
EXTENDS RootResolver, SequenceTheorems, WellFoundedInduction, TLAPS

(* Chained and Lineage, in any catalog of headers.                         *)
ChainIn(catalog, path) ==
  /\ \A i \in 1..(Len(path) - 1) : catalog[path[i]] = path[i + 1]
  /\ \A i, j \in 1..Len(path) : path[i] = path[j] => i = j

LineageIn(catalog, path) ==
  ChainIn(catalog, path) /\ Len(path) \in 1..MaxHeaders /\ catalog[Final(path)] = Root

(* A non-empty set of naturals has a least element.                        *)
LEMMA Least ==
  ASSUME NEW T, T \subseteq Nat, T # {}
  PROVE  \E x \in T : \A y \in T : x <= y
<1>1. PICK x \in T : \A y \in T : ~(<<y, x>> \in OpToRel(<, Nat))
  BY WFMin, NatLessThanWellFounded
<1>2. ASSUME NEW y \in T, y < x
      PROVE  FALSE
  BY <1>1, <1>2 DEF OpToRel
<1> QED
  BY <1>2

(* A session has at most one lineage in a catalog.                         *)
LEMMA OneLineage ==
  ASSUME NEW catalog, NEW p \in Seq(Sessions), NEW q \in Seq(Sessions),
         LineageIn(catalog, p), LineageIn(catalog, q), First(p) = First(q)
  PROVE  p = q
<1>1. Len(p) \in Nat /\ Len(q) \in Nat /\ Len(p) >= 1 /\ Len(q) >= 1
  BY ResolverAssumption DEF LineageIn
<1>2. \A i \in 1..Len(p) : i \in 1..Len(q) => p[i] = q[i]
  <2> DEFINE T == {i \in 1..Len(p) : i \in 1..Len(q) /\ p[i] # q[i]}
  <2> SUFFICES ASSUME T # {}
               PROVE  FALSE
    OBVIOUS
  <2>1. PICK i \in T : \A j \in T : i <= j
    <3>1. T \subseteq Nat
      BY <1>1
    <3> HIDE DEF T
    <3> QED
      BY <3>1, Least
  <2>2. /\ i \in 1..Len(p) /\ i \in 1..Len(q) /\ p[i] # q[i]
        /\ i # 1 /\ i - 1 \in 1..(Len(p) - 1) /\ i - 1 \in 1..(Len(q) - 1)
    BY <1>1, <2>1 DEF First
  <2>3. p[i - 1] = q[i - 1]
    <3>1. i - 1 \in 1..Len(p) /\ i - 1 \in 1..Len(q) /\ ~(i <= i - 1)
      BY <1>1, <2>2
    <3>2. i - 1 \notin T
      BY <2>1, <3>1
    <3> QED
      BY <3>1, <3>2
  <2>4. catalog[p[i - 1]] = p[i] /\ catalog[q[i - 1]] = q[i]
    BY <1>1, <2>2 DEF LineageIn, ChainIn
  <2> QED
    BY <2>2, <2>3, <2>4
<1>3. \A a, b \in Seq(Sessions) :
        LineageIn(catalog, a) /\ LineageIn(catalog, b)
        /\ (\A i \in 1..Len(a) : i \in 1..Len(b) => a[i] = b[i]) => ~(Len(a) < Len(b))
  <2> SUFFICES ASSUME NEW a \in Seq(Sessions), NEW b \in Seq(Sessions),
                      LineageIn(catalog, a), LineageIn(catalog, b),
                      \A i \in 1..Len(a) : i \in 1..Len(b) => a[i] = b[i],
                      Len(a) < Len(b)
               PROVE  FALSE
    OBVIOUS
  <2>1. Len(a) \in 1..(Len(b) - 1) /\ Len(a) + 1 \in 1..Len(b) /\ a[Len(a)] = b[Len(a)]
    BY ResolverAssumption DEF LineageIn
  <2>2. catalog[a[Len(a)]] = Root /\ catalog[b[Len(a)]] = b[Len(a) + 1]
    BY <2>1 DEF LineageIn, ChainIn, Final
  <2>3. b[Len(a) + 1] \in Sessions
    BY <2>1
  <2> QED
    BY <2>1, <2>2, <2>3, ResolverAssumption
<1>4. Len(p) = Len(q)
  BY <1>1, <1>2, <1>3
<1> QED
  BY <1>1, <1>2, <1>4, SeqEqual

(* Every suffix of a lineage is one, of the session it begins with.        *)
LEMMA SuffixLineage ==
  ASSUME NEW catalog, NEW path \in Seq(Sessions), LineageIn(catalog, path),
         NEW i \in 1..Len(path)
  PROVE  /\ SubSeq(path, i, Len(path)) \in Seq(Sessions) \ {<<>>}
         /\ LineageIn(catalog, SubSeq(path, i, Len(path)))
         /\ First(SubSeq(path, i, Len(path))) = path[i]
<1> DEFINE rest == SubSeq(path, i, Len(path))
<1>1. Len(path) \in Nat /\ i \in Nat /\ Len(path) - i + 1 \in 1..Len(path)
  OBVIOUS
<1>2. /\ rest \in Seq(Sessions) /\ Len(rest) = Len(path) - i + 1
      /\ \A j \in 1..Len(rest) : rest[j] = path[i + j - 1]
  BY <1>1, SubSeqProperties
<1> HIDE DEF rest
<1>3. \A j \in 1..Len(rest) : i + j - 1 \in 1..Len(path)
  BY <1>1, <1>2
<1>4. \A j \in 1..(Len(rest) - 1) : catalog[rest[j]] = rest[j + 1]
  <2> SUFFICES ASSUME NEW j \in 1..(Len(rest) - 1)
               PROVE  catalog[rest[j]] = rest[j + 1]
    OBVIOUS
  <2>1. j \in 1..Len(rest) /\ j + 1 \in 1..Len(rest) /\ i + j - 1 \in 1..(Len(path) - 1)
        /\ i + (j + 1) - 1 = (i + j - 1) + 1
    BY <1>1, <1>2
  <2>2. rest[j] = path[i + j - 1] /\ rest[j + 1] = path[(i + j - 1) + 1]
    BY <1>2, <2>1
  <2> QED
    BY <2>1, <2>2 DEF LineageIn, ChainIn
<1>5. \A j, k \in 1..Len(rest) : rest[j] = rest[k] => j = k
  <2> SUFFICES ASSUME NEW j \in 1..Len(rest), NEW k \in 1..Len(rest), rest[j] = rest[k]
               PROVE  j = k
    OBVIOUS
  <2>1. path[i + j - 1] = path[i + k - 1]
    BY <1>2
  <2>2. i + j - 1 = i + k - 1
    BY <1>3, <2>1 DEF LineageIn, ChainIn
  <2> QED
    BY <1>1, <1>2, <2>2
<1>6. Len(rest) \in 1..MaxHeaders
  BY <1>1, <1>2, ResolverAssumption DEF LineageIn
<1>7. catalog[Final(rest)] = Root
  BY <1>1, <1>2, <1>6 DEF Final, LineageIn
<1>8. First(rest) = path[i]
  BY <1>1, <1>2, <1>6 DEF First
<1>9. rest # <<>>
  BY <1>6
<1> QED
  BY <1>2, <1>4, <1>5, <1>6, <1>7, <1>8, <1>9 DEF LineageIn, ChainIn, rest

(* A chain goes on with the session its last header names.                 *)
LEMMA LongerChain ==
  ASSUME NEW catalog, NEW path \in Seq(Sessions), ChainIn(catalog, path),
         NEW s \in Sessions \ Visited(path),
         path # <<>> => catalog[Final(path)] = s
  PROVE  /\ Append(path, s) \in Seq(Sessions) /\ Len(Append(path, s)) = Len(path) + 1
         /\ Final(Append(path, s)) = s
         /\ ChainIn(catalog, Append(path, s))
<1> DEFINE longer == Append(path, s)
<1>1. /\ longer \in Seq(Sessions) /\ Len(longer) = Len(path) + 1 /\ Len(path) \in Nat
      /\ \A j \in 1..Len(path) : longer[j] = path[j]
      /\ longer[Len(path) + 1] = s
  OBVIOUS
<1> HIDE DEF longer
<1>2. \A j \in 1..(Len(longer) - 1) : catalog[longer[j]] = longer[j + 1]
  <2> SUFFICES ASSUME NEW j \in 1..Len(path)
               PROVE  catalog[longer[j]] = longer[j + 1]
    BY <1>1
  <2>1. CASE j = Len(path)
    BY <1>1, <2>1 DEF Final
  <2>2. CASE j # Len(path)
    <3>1. j \in 1..(Len(path) - 1) /\ j + 1 \in 1..Len(path)
      BY <1>1, <2>2
    <3> QED
      BY <1>1, <3>1 DEF ChainIn
  <2> QED
    BY <2>1, <2>2
<1>3. \A j, k \in 1..Len(longer) : longer[j] = longer[k] => j = k
  <2>1. \A j \in 1..Len(path) : longer[j] # s
    BY <1>1 DEF Visited
  <2> QED
    BY <1>1, <2>1 DEF ChainIn
<1> QED
  BY <1>1, <1>2, <1>3 DEF ChainIn, Final, longer

-----------------------------------------------------------------------------
(* A walk under way came along a chain of known headers to where it is; an *)
(* answer is a lineage; a failure that is not the stores' has its cause.   *)
WalkState(w) ==
  /\ walk[w].pc \in {"inspecting", "reading"} =>
       /\ walk[w].at \in Sessions
       /\ ChainIn(cache, walk[w].path) /\ Len(walk[w].path) <= MaxHeaders
       /\ walk[w].path # <<>> => cache[Final(walk[w].path)] = walk[w].at
  /\ walk[w].pc = "answered" => LineageIn(cache, walk[w].path)
  /\ walk[w].pc = "failed" /\ ~walk[w].faulty =>
       /\ walk[w].at \in Sessions /\ ChainIn(cache, walk[w].path)
       /\ \/ walk[w].at \in Visited(walk[w].path)
          \/ Len(walk[w].path) = MaxHeaders /\ cache[walk[w].at] \in Parents

MemoState(s) == memo[s] # <<>> => LineageIn(cache, memo[s]) /\ First(memo[s]) = s

Untouched ==
  /\ \A s \in Sessions : cache[s] = None /\ memo[s] = <<>>
  /\ \A w \in Walks : walk[w].pc = "idle"

IInv ==
  /\ TypeOK
  /\ \A w \in Walks : WalkState(w)
  /\ \A s \in Sessions : MemoState(s)
  /\ phase = "listing" => Untouched

-----------------------------------------------------------------------------
(* A header that is known stays as it is, and so what rests on it.         *)
Grows == \A s \in Sessions : cache[s] # None => cache'[s] = cache[s]

LEMMA ChainsStay ==
  ASSUME Grows, NEW path \in Seq(Sessions)
  PROVE  /\ ChainIn(cache, path) => ChainIn(cache', path)
         /\ LineageIn(cache, path) => LineageIn(cache', path)
<1>1. ASSUME ChainIn(cache, path)
      PROVE  ChainIn(cache', path)
  <2> SUFFICES ASSUME NEW i \in 1..(Len(path) - 1)
               PROVE  cache'[path[i]] = path[i + 1]
    BY <1>1 DEF ChainIn
  <2>1. path[i] \in Sessions /\ path[i + 1] \in Sessions /\ cache[path[i]] = path[i + 1]
    BY <1>1 DEF ChainIn
  <2> QED
    BY <2>1, ResolverAssumption DEF Grows
<1>2. ASSUME LineageIn(cache, path)
      PROVE  cache'[Final(path)] = Root
  <2>1. Final(path) \in Sessions /\ cache[Final(path)] = Root
    BY <1>2, ResolverAssumption DEF LineageIn, Final
  <2> QED
    BY <2>1, ResolverAssumption DEF Grows
<1> QED
  BY <1>1, <1>2 DEF LineageIn

LEMMA WalkStays ==
  ASSUME TypeOK, Grows, NEW w \in Walks, WalkState(w), walk'[w] = walk[w]
  PROVE  WalkState(w)'
<1>1. walk[w].path \in Seq(Sessions) /\ cache \in [Sessions -> Parents \cup {None}]
  BY DEF TypeOK
<1>2. ASSUME walk[w].pc \in {"inspecting", "reading"}, walk[w].path # <<>>
      PROVE  cache'[Final(walk[w].path)] = walk[w].at
  <2>1. Final(walk[w].path) \in Sessions
    BY <1>1, <1>2 DEF Final
  <2> QED
    BY <1>2, <2>1, ResolverAssumption DEF WalkState, Grows
<1>3. ASSUME walk[w].at \in Sessions, cache[walk[w].at] \in Parents
      PROVE  cache'[walk[w].at] \in Parents
  BY <1>3, ResolverAssumption DEF Grows, Parents
<1> QED
  BY <1>1, <1>2, <1>3, ChainsStay DEF WalkState

LEMMA MemoStays ==
  ASSUME TypeOK, Grows, NEW s \in Sessions, MemoState(s), memo'[s] = memo[s]
  PROVE  MemoState(s)'
BY ChainsStay DEF TypeOK, MemoState

-----------------------------------------------------------------------------
(* What memoize() adds are lineages, and what it overwrites it had already.*)
LEMMA MemoizedLineages ==
  ASSUME NEW catalog, memo \in [Sessions -> Seq(Sessions)],
         \A s \in Sessions : memo[s] # <<>> => LineageIn(catalog, memo[s]) /\ First(memo[s]) = s,
         NEW path \in Seq(Sessions), LineageIn(catalog, path), NEW s \in Sessions
  PROVE  /\ Memoized(path)[s] \in Seq(Sessions)
         /\ Memoized(path)[s] # <<>> =>
              LineageIn(catalog, Memoized(path)[s]) /\ First(Memoized(path)[s]) = s
         /\ memo[s] # <<>> => Memoized(path)[s] = memo[s]
<1>1. CASE s \in Visited(path)
  <2> DEFINE i == CHOOSE i \in 1..Len(path) : path[i] = s
  <2>1. i \in 1..Len(path) /\ path[i] = s
    BY <1>1 DEF Visited
  <2>2. Memoized(path)[s] = SubSeq(path, i, Len(path))
    BY <1>1 DEF Memoized
  <2> HIDE DEF i
  <2>3. /\ Memoized(path)[s] \in Seq(Sessions) \ {<<>>}
        /\ LineageIn(catalog, Memoized(path)[s]) /\ First(Memoized(path)[s]) = s
    BY <2>1, <2>2, SuffixLineage
  <2>4. memo[s] # <<>> => Memoized(path)[s] = memo[s]
    BY <2>3, OneLineage
  <2> QED
    BY <2>3, <2>4
<1>2. CASE s \notin Visited(path)
  BY <1>2 DEF Memoized
<1> QED
  BY <1>1, <1>2

-----------------------------------------------------------------------------
WalkRecords == [pc : {"idle", "inspecting", "reading", "answered", "failed"},
                at : Sessions \cup {None}, path : Seq(Sessions),
                aborted : BOOLEAN, faulty : BOOLEAN]

(* A step of one walk: what it makes of the walk and of the memo.          *)
Moved(w) ==
  /\ walk' \in [Walks -> WalkRecords]
  /\ \A v \in Walks \ {w} : walk'[v] = walk[v]
  /\ WalkState(w)'
  /\ memo' \in [Sessions -> Seq(Sessions)]
  /\ \A s \in Sessions : MemoState(s)' /\ (memo[s] # <<>> => memo'[s] = memo[s])
  /\ phase' \in {phase, "degraded"}

LEMMA MovedKeeps ==
  ASSUME IInv, phase # "listing", Grows, cache' \in [Sessions -> Parents \cup {None}],
         NEW w \in Walks, Moved(w), pending' \subseteq Sessions, UNCHANGED bound
  PROVE  IInv' /\ Keeps(memo, <<>>)
<1>1. TypeOK /\ TypeOK' /\ phase' # "listing"
  BY DEF IInv, TypeOK, Moved, WalkRecords
<1>2. ASSUME NEW v \in Walks
      PROVE  WalkState(v)'
  BY <1>1, WalkStays DEF IInv, Moved
<1> QED
  BY <1>1, <1>2 DEF IInv, Moved, Keeps

(* Where a walk ends without an answer.                                    *)
LEMMA FailsMoves ==
  ASSUME IInv, NEW w \in Walks, Grows, NEW faulty \in BOOLEAN, Fails(w, faulty), UNCHANGED memo,
         ~faulty => /\ walk[w].at \in Sessions /\ ChainIn(cache', walk[w].path)
                    /\ \/ walk[w].at \in Visited(walk[w].path)
                       \/ Len(walk[w].path) = MaxHeaders /\ cache'[walk[w].at] \in Parents
  PROVE  Moved(w)
<1>1. walk[w] \in WalkRecords /\ TypeOK
  BY DEF IInv, TypeOK, WalkRecords
<1>2. /\ walk'[w].pc = "failed" /\ walk'[w].faulty = faulty
      /\ walk'[w].at = walk[w].at /\ walk'[w].path = walk[w].path
      /\ walk' \in [Walks -> WalkRecords]
      /\ \A v \in Walks \ {w} : walk'[v] = walk[v]
  BY <1>1 DEF TypeOK, Fails, WalkRecords
<1>3. WalkState(w)'
  BY <1>2 DEF WalkState
<1>4. \A s \in Sessions : MemoState(s)'
  BY <1>1, MemoStays DEF IInv
<1> QED
  BY <1>1, <1>2, <1>3, <1>4 DEF Moved, TypeOK, Fails

LEMMA ConsumeMoves ==
  ASSUME IInv, NEW w \in Walks, walk[w].pc \in {"inspecting", "reading"}, Grows,
         NEW parent \in Parents, cache'[walk[w].at] = parent, Consume(w, parent)
  PROVE  Moved(w)
<1> DEFINE s == walk[w].at
           old == walk[w].path
           path == Append(old, s)
<1>1. /\ walk[w] \in WalkRecords /\ TypeOK
      /\ s \in Sessions /\ old \in Seq(Sessions) /\ Len(old) \in Nat /\ MaxHeaders \in Nat
      /\ ChainIn(cache, old) /\ Len(old) <= MaxHeaders
      /\ old # <<>> => cache[Final(old)] = s
  BY ResolverAssumption DEF IInv, TypeOK, WalkRecords, WalkState
<1>2. ChainIn(cache', old) /\ (old # <<>> => cache'[Final(old)] = s)
  <2>1. old # <<>> => Final(old) \in Sessions
    BY <1>1 DEF Final
  <2> QED
    BY <1>1, <2>1, ChainsStay, ResolverAssumption DEF Grows
<1>3. CASE s \in Visited(old) \/ TooLong(path)
  <2>1. Fails(w, FALSE) /\ UNCHANGED memo
    BY <1>3 DEF Consume
  <2>2. TooLong(path) => Len(old) = MaxHeaders
    BY <1>1 DEF TooLong
  <2> QED
    BY <1>1, <1>2, <1>3, <2>1, <2>2, FailsMoves
<1>4. CASE s \notin Visited(old) /\ ~TooLong(path)
  <2>1. /\ path \in Seq(Sessions) /\ Len(path) = Len(old) + 1 /\ Final(path) = s
        /\ ChainIn(cache', path) /\ Len(path) \in 1..MaxHeaders
    BY <1>1, <1>2, <1>4, LongerChain DEF TooLong
  <2> HIDE DEF path
  <2>2. CASE parent = Root
    <3>1. Answers(w, path) /\ memo' = Memoized(path)
      BY <1>4, <2>2 DEF Consume, path
    <3>2. LineageIn(cache', path)
      BY <2>1, <2>2 DEF LineageIn
    <3>3. /\ walk'[w].pc = "answered" /\ walk'[w].path = path
          /\ walk' \in [Walks -> WalkRecords]
          /\ \A v \in Walks \ {w} : walk'[v] = walk[v]
      BY <1>1, <2>1, <3>1 DEF TypeOK, Answers, WalkRecords
    <3>4. WalkState(w)'
      BY <3>2, <3>3 DEF WalkState
    <3>5. \A t \in Sessions : memo[t] # <<>> => LineageIn(cache', memo[t]) /\ First(memo[t]) = t
      BY <1>1, ChainsStay DEF IInv, MemoState, TypeOK
    <3>6. ASSUME NEW t \in Sessions
          PROVE  /\ memo'[t] \in Seq(Sessions) /\ MemoState(t)'
                 /\ memo[t] # <<>> => memo'[t] = memo[t]
      <4>1. memo \in [Sessions -> Seq(Sessions)] /\ memo'[t] = Memoized(path)[t]
        BY <1>1, <3>1 DEF TypeOK
      <4>2. /\ Memoized(path)[t] \in Seq(Sessions)
            /\ Memoized(path)[t] # <<>> =>
                 LineageIn(cache', Memoized(path)[t]) /\ First(Memoized(path)[t]) = t
            /\ memo[t] # <<>> => Memoized(path)[t] = memo[t]
        BY <2>1, <3>2, <3>5, <4>1, MemoizedLineages
      <4> QED
        BY <4>1, <4>2 DEF MemoState
    <3>7. memo' \in [Sessions -> Seq(Sessions)]
      BY <3>1, <3>6 DEF Memoized
    <3>8. phase' = phase
      BY <3>1 DEF Answers
    <3> QED
      BY <3>3, <3>4, <3>6, <3>7, <3>8 DEF Moved
  <2>3. CASE parent # Root
    <3>1. Continues(w, parent, path) /\ UNCHANGED memo
      BY <1>4, <2>3 DEF Consume, path
    <3>2. /\ walk'[w].pc = "inspecting" /\ walk'[w].path = path /\ walk'[w].at = parent
          /\ parent \in Sessions
          /\ walk' \in [Walks -> WalkRecords]
          /\ \A v \in Walks \ {w} : walk'[v] = walk[v]
      BY <1>1, <2>1, <2>3, <3>1 DEF TypeOK, Continues, WalkRecords, Parents
    <3>3. WalkState(w)'
      BY <2>1, <3>2 DEF WalkState
    <3>4. \A t \in Sessions : MemoState(t)'
      BY <1>1, <3>1, MemoStays DEF IInv
    <3> QED
      BY <1>1, <3>1, <3>2, <3>3, <3>4 DEF Moved, Continues, TypeOK
  <2> QED
    BY <2>2, <2>3
<1> QED
  BY <1>3, <1>4

-----------------------------------------------------------------------------
(* A walk that does anything is not the first thing to happen.             *)
LEMMA NotListing ==
  ASSUME IInv, NEW w \in Walks, walk[w].pc # "idle"
  PROVE  phase # "listing"
BY DEF IInv, Untouched

(* A header that does not conflict is added to the catalog.                *)
LEMMA AddedGrows ==
  ASSUME IInv, NEW s \in Sessions, NEW parent \in Claims[s], ~Conflicts(s, parent),
         cache' = Added(s, parent)
  PROVE  /\ Grows /\ parent \in Parents /\ cache'[s] = parent
         /\ cache' \in [Sessions -> Parents \cup {None}]
<1>1. parent \in Parents /\ cache \in [Sessions -> Parents \cup {None}]
  BY ResolverAssumption DEF IInv, TypeOK, Parents
<1> QED
  BY <1>1 DEF Added, Conflicts, Grows

LEMMA LearnsMoves ==
  ASSUME IInv, NEW w \in Walks, walk[w].pc \in {"inspecting", "reading"},
         NEW parent \in Claims[walk[w].at], Learns(w, parent)
  PROVE  Moved(w) /\ Grows /\ cache' \in [Sessions -> Parents \cup {None}]
<1>1. walk[w].at \in Sessions
  BY DEF IInv, WalkState
<1>2. CASE Conflicts(walk[w].at, parent)
  <2>1. Fails(w, TRUE) /\ UNCHANGED <<cache, memo>>
    BY <1>2 DEF Learns
  <2>2. Grows /\ cache' \in [Sessions -> Parents \cup {None}]
    BY <2>1 DEF Grows, IInv, TypeOK
  <2> QED
    BY <2>1, <2>2, FailsMoves
<1>3. CASE ~Conflicts(walk[w].at, parent)
  BY <1>1, <1>3, AddedGrows, ConsumeMoves DEF Learns
<1> QED
  BY <1>2, <1>3

LEMMA StepKeeps ==
  ASSUME IInv, NEW w \in Walks, Step(w)
  PROVE  IInv' /\ Keeps(memo, <<>>) /\ UNCHANGED bound
<1>1. /\ walk[w].pc \in {"inspecting", "reading"} /\ UNCHANGED <<pending, bound>>
      /\ phase # "listing" /\ TypeOK
  <2>1. walk[w].pc \in {"inspecting", "reading"} /\ UNCHANGED <<pending, bound>>
    BY DEF Step, InspectLive, InspectCached, AskPersistence, PersistenceAnswers,
           InspectFails, Misanswered
  <2> QED
    BY <2>1, NotListing DEF IInv
<1> SUFFICES Moved(w) /\ Grows /\ cache' \in [Sessions -> Parents \cup {None}]
  BY <1>1, MovedKeeps DEF TypeOK
<1>2. CASE InspectLive(w) \/ PersistenceAnswers(w)
  BY <1>1, <1>2, LearnsMoves DEF InspectLive, PersistenceAnswers
<1>3. CASE UNCHANGED cache
  <2>1. Grows /\ cache' \in [Sessions -> Parents \cup {None}]
    BY <1>1, <1>3 DEF Grows, TypeOK
  <2>2. CASE InspectCached(w)
    <3>1. cache[walk[w].at] \in Parents
      BY <1>1, <2>2 DEF InspectCached, IInv, WalkState, TypeOK
    <3> QED
      BY <1>1, <1>3, <2>1, <2>2, <3>1, ConsumeMoves DEF InspectCached
  <2>3. CASE AskPersistence(w)
    <3>1. /\ walk'[w].pc = "reading" /\ walk'[w].at = walk[w].at
          /\ walk'[w].path = walk[w].path
          /\ walk' \in [Walks -> WalkRecords]
          /\ \A v \in Walks \ {w} : walk'[v] = walk[v]
      <4>1. walk \in [Walks -> WalkRecords]
        BY <1>1 DEF TypeOK, WalkRecords
      <4>2. walk' = [walk EXCEPT ![w].pc = "reading"]
        BY <2>3 DEF AskPersistence
      <4> QED
        BY <4>1, <4>2 DEF WalkRecords
    <3>2. WalkState(w)'
      <4>1. WalkState(w)
        BY DEF IInv
      <4> QED
        BY <1>1, <1>3, <3>1, <4>1 DEF WalkState
    <3>3. UNCHANGED <<phase, memo>>
      BY <2>3 DEF AskPersistence
    <3>4. \A s \in Sessions : MemoState(s)'
      BY <1>1, <2>1, <3>3, MemoStays DEF IInv
    <3> QED
      BY <1>1, <2>1, <3>1, <3>2, <3>3, <3>4 DEF Moved, TypeOK
  <2>4. CASE InspectFails(w)
    BY <2>1, <2>4, FailsMoves DEF InspectFails
  <2>5. CASE \E s \in Sessions : Misanswered(w, s)
    BY <2>1, <2>5, FailsMoves DEF Misanswered
  <2>6. CASE InspectLive(w) \/ PersistenceAnswers(w)
    BY <1>2, <2>6
  <2> QED
    BY <2>2, <2>3, <2>4, <2>5, <2>6 DEF Step
<1>4. ASSUME NEW s \in Sessions, Misanswered(w, s), cache' # cache
      PROVE  Moved(w) /\ Grows /\ cache' \in [Sessions -> Parents \cup {None}]
  <2>1. /\ \E parent \in Claims[s] : ~Conflicts(s, parent) /\ cache' = Added(s, parent)
        /\ Fails(w, TRUE) /\ UNCHANGED memo
    BY <1>4 DEF Misanswered
  <2>2. Grows /\ cache' \in [Sessions -> Parents \cup {None}]
    BY <2>1, AddedGrows
  <2> QED
    BY <2>1, <2>2, FailsMoves
<1>5. CASE AskPersistence(w) \/ InspectCached(w) \/ InspectFails(w)
  BY <1>3, <1>5 DEF AskPersistence, InspectCached, InspectFails
<1> QED
  BY <1>2, <1>3, <1>4, <1>5 DEF Step

LEMMA EnterKeeps ==
  ASSUME IInv, phase # "listing", NEW w \in Walks, NEW s \in Sessions, Enter(w, s),
         UNCHANGED <<phase, cache, memo, bound>>, pending' \subseteq Sessions
  PROVE  IInv' /\ Keeps(memo, <<>>) /\ UNCHANGED bound
<1>1. TypeOK /\ MemoState(s) /\ walk[w] \in WalkRecords /\ memo[s] \in Seq(Sessions)
  BY DEF IInv, TypeOK, WalkRecords
<1>2. Grows /\ cache' \in [Sessions -> Parents \cup {None}]
  BY <1>1 DEF Grows, TypeOK
<1>3. /\ walk' \in [Walks -> WalkRecords]
      /\ \A v \in Walks \ {w} : walk'[v] = walk[v]
      /\ \/ walk'[w].pc = "answered" /\ walk'[w].path = memo[s] /\ memo[s] # <<>>
         \/ walk'[w].pc = "inspecting" /\ walk'[w].path = <<>> /\ walk'[w].at = s
  <2>1. walk \in [Walks -> WalkRecords]
    BY <1>1 DEF TypeOK, WalkRecords
  <2>2. CASE memo[s] # <<>>
    <3>1. walk' = [walk EXCEPT ![w].pc = "answered", ![w].path = memo[s]]
      BY <2>2 DEF Enter
    <3> QED
      BY <1>1, <2>1, <2>2, <3>1 DEF WalkRecords
  <2>3. CASE memo[s] = <<>>
    <3>1. walk' = [walk EXCEPT ![w].pc = "inspecting", ![w].at = s, ![w].path = <<>>]
      BY <2>3 DEF Enter
    <3>2. /\ <<>> \in Seq(Sessions) /\ s \in Sessions \cup {None}
          /\ walk[w].aborted \in BOOLEAN /\ walk[w].faulty \in BOOLEAN
      BY <2>1 DEF WalkRecords
    <3>3. walk'[w] = [walk[w] EXCEPT !.pc = "inspecting", !.at = s, !.path = <<>>]
      BY <2>1, <3>1
    <3>4. walk'[w] \in WalkRecords
      BY <1>1, <3>2, <3>3 DEF WalkRecords
    <3>5. walk' \in [Walks -> WalkRecords] /\ \A v \in Walks \ {w} : walk'[v] = walk[v]
      BY <2>1, <3>1, <3>4
    <3> QED
      BY <1>1, <3>3, <3>5 DEF WalkRecords
  <2> QED
    BY <2>2, <2>3
<1>4. ChainIn(cache, <<>>) /\ Len(<<>>) <= MaxHeaders
  BY ResolverAssumption DEF ChainIn
<1>5. WalkState(w)'
  <2>1. CASE walk'[w].pc = "answered"
    BY <1>1, <1>3, <2>1 DEF WalkState, MemoState
  <2>2. CASE walk'[w].pc = "inspecting"
    BY <1>3, <1>4, <2>2 DEF WalkState
  <2> QED
    BY <1>3, <2>1, <2>2
<1>6. \A t \in Sessions : MemoState(t)'
  BY <1>1, <1>2, MemoStays DEF IInv
<1>7. Moved(w)
  BY <1>1, <1>3, <1>5, <1>6 DEF Moved, TypeOK
<1> QED
  BY <1>2, <1>7, MovedKeeps

LEMMA ResolveKeeps ==
  ASSUME IInv, NEW c \in Calls, NEW s \in Sessions, Resolve(c, s)
  PROVE  IInv' /\ Keeps(memo, <<>>) /\ UNCHANGED bound
<1>1. c \in Walks /\ c # Boot /\ phase # "listing" /\ TypeOK
      /\ UNCHANGED <<phase, pending, cache, memo, bound>>
  BY ResolverAssumption DEF Walks, Resolve, IInv
<1>2. CASE walk[c].aborted
  <2>1. Fails(c, TRUE) /\ Grows /\ cache' \in [Sessions -> Parents \cup {None}]
    BY <1>1, <1>2 DEF Resolve, Fails, Grows, TypeOK
  <2>2. Moved(c)
    BY <1>1, <2>1, FailsMoves
  <2> QED
    BY <1>1, <2>1, <2>2, MovedKeeps DEF TypeOK
<1>3. CASE ~walk[c].aborted
  BY <1>1, <1>3, EnterKeeps DEF Resolve, TypeOK
<1> QED
  BY <1>2, <1>3

LEMMA AbortKeeps ==
  ASSUME IInv, NEW c \in Calls, Abort(c)
  PROVE  IInv' /\ Keeps(memo, <<>>) /\ UNCHANGED bound
<1>1. c \in Walks /\ TypeOK /\ Grows /\ UNCHANGED <<phase, pending, cache, memo, bound>>
  BY DEF Walks, Abort, IInv, Grows
<1>2. /\ walk' \in [Walks -> WalkRecords] /\ \A v \in Walks \ {c} : walk'[v] = walk[v]
      /\ walk'[c].pc = walk[c].pc /\ walk'[c].at = walk[c].at
      /\ walk'[c].path = walk[c].path /\ walk'[c].faulty = walk[c].faulty
  <2>1. walk \in [Walks -> WalkRecords]
    BY <1>1 DEF TypeOK, WalkRecords
  <2>2. walk' = [walk EXCEPT ![c].aborted = TRUE]
    BY DEF Abort
  <2> QED
    BY <1>1, <2>1, <2>2 DEF WalkRecords
<1>3. ASSUME NEW w \in Walks
      PROVE  WalkState(w)'
  <2>1. WalkState(w)
    BY DEF IInv
  <2> QED
    BY <1>1, <1>2, <2>1 DEF WalkState
<1>4. \A s \in Sessions : MemoState(s)'
  BY <1>1, MemoStays DEF IInv
<1>5. phase' = "listing" => Untouched'
  BY <1>1, <1>2 DEF IInv, Untouched
<1>6. TypeOK'
  BY <1>1, <1>2 DEF TypeOK, WalkRecords
<1> QED
  BY <1>1, <1>3, <1>4, <1>5, <1>6 DEF IInv, Keeps

LEMMA BootKeeps ==
  ASSUME IInv, BootStep
  PROVE  IInv' /\ Keeps(memo, <<>>) /\ UNCHANGED bound
<1>1. CASE BootEnds
  <2>1. phase' = "running" /\ UNCHANGED <<pending, cache, memo, bound, walk>>
    BY <1>1 DEF BootEnds
  <2>2. TypeOK' /\ \A w \in Walks : WalkState(w)'
    BY <2>1 DEF IInv, TypeOK, WalkState
  <2> QED
    BY <2>1, <2>2 DEF IInv, MemoState, Keeps
<1>2. ASSUME NEW s \in Sessions, BootNext(s)
      PROVE  IInv' /\ Keeps(memo, <<>>) /\ UNCHANGED bound
  <2>1. Boot \in Walks /\ phase # "listing" /\ Enter(Boot, s) /\ pending' \subseteq Sessions
        /\ UNCHANGED <<phase, cache, memo, bound>>
    BY <1>2 DEF BootNext, Walks, IInv, TypeOK
  <2> QED
    BY <2>1, EnterKeeps
<1> QED
  BY <1>1, <1>2 DEF BootStep

LEMMA ListKeeps ==
  ASSUME IInv, ListSessions
  PROVE  IInv' /\ Keeps(memo, <<>>) /\ UNCHANGED bound
<1>1. Untouched /\ TypeOK /\ UNCHANGED <<memo, bound, walk>>
      /\ phase' \in {"degraded", "bootstrapping"} /\ pending' \subseteq Sessions
  BY DEF IInv, ListSessions, TypeOK
<1>2. cache' \in [Sessions -> Parents \cup {None}]
  BY <1>1 DEF ListSessions, TypeOK
<1>3. TypeOK'
  BY <1>1, <1>2 DEF TypeOK
<1> QED
  BY <1>1, <1>3 DEF IInv, Untouched, WalkState, MemoState, Keeps

LEMMA BindKeeps ==
  ASSUME IInv, NEW c \in Calls, NEW s \in Sessions, NEW local, BindChild(c, s, local)
  PROVE  IInv' /\ Keeps(memo, <<>>) /\ Keeps(bound, None)
<1>1. c \in Walks /\ TypeOK /\ UNCHANGED <<phase, pending, cache, memo, walk>>
      /\ LineageIn(cache, walk[c].path)
  BY DEF Walks, BindChild, IInv, WalkState
<1>2. Claim(c) \in [root : Sessions, parent : Sessions]
  <2>1. walk[c].path \in Seq(Sessions) /\ Len(walk[c].path) \in Nat \ {0}
    BY <1>1, ResolverAssumption DEF TypeOK, LineageIn
  <2> QED
    BY <2>1 DEF Claim, First, Final
<1>3. TypeOK' /\ \A w \in Walks : WalkState(w)'
  BY <1>1, <1>2 DEF IInv, TypeOK, WalkState, BindChild
<1>4. Keeps(bound, None)
  BY <1>1 DEF BindChild, Refuses, Keeps, TypeOK
<1>5. phase' = "listing" => Untouched'
  BY <1>1 DEF IInv, Untouched
<1> QED
  BY <1>1, <1>3, <1>4, <1>5 DEF IInv, MemoState, Keeps

-----------------------------------------------------------------------------
LEMMA Inductive ==
  ASSUME IInv, [Next]_vars
  PROVE  IInv' /\ Keeps(memo, <<>>) /\ Keeps(bound, None)
<1>1. CASE UNCHANGED vars
  <2>1. TypeOK' /\ \A w \in Walks : WalkState(w)'
    BY <1>1 DEF vars, IInv, TypeOK, WalkState
  <2> QED
    BY <1>1, <2>1 DEF vars, IInv, MemoState, Untouched, Keeps
<1>2. CASE ListSessions \/ BootStep
  BY <1>2, ListKeeps, BootKeeps DEF Keeps
<1>3. ASSUME NEW w \in Walks, Step(w)
      PROVE  IInv' /\ Keeps(memo, <<>>) /\ Keeps(bound, None)
  BY <1>3, StepKeeps DEF Keeps
<1>4. ASSUME NEW c \in Calls, NEW s \in Sessions, Resolve(c, s)
      PROVE  IInv' /\ Keeps(memo, <<>>) /\ Keeps(bound, None)
  BY <1>4, ResolveKeeps DEF Keeps
<1>5. ASSUME NEW c \in Calls, Abort(c)
      PROVE  IInv' /\ Keeps(memo, <<>>) /\ Keeps(bound, None)
  BY <1>5, AbortKeeps DEF Keeps
<1> QED
  BY <1>1, <1>2, <1>3, <1>4, <1>5, BindKeeps DEF Next

LEMMA InitHolds ==
  ASSUME Init
  PROVE  IInv
<1>1. Idle \in WalkRecords /\ Idle.pc = "idle"
  BY DEF Idle, WalkRecords
<1>2. walk \in [Walks -> WalkRecords] /\ \A w \in Walks : walk[w].pc = "idle"
  BY <1>1 DEF Init
<1>3. TypeOK
  BY <1>2 DEF Init, TypeOK, WalkRecords
<1> QED
  BY <1>2, <1>3 DEF Init, IInv, WalkState, MemoState, Untouched

(* Walks, memo and catalog are as the invariant says, whatever overlaps.   *)
THEOREM Invariance == Spec => []IInv
BY InitHolds, Inductive, PTL DEF Spec

(* No variable of the resolver leaves its type.                            *)
THEOREM TypeCorrect == Spec => []TypeOK
<1>1. IInv => TypeOK
  BY DEF IInv
<1> QED
  BY <1>1, Invariance, PTL

(* What is memoized or answered is the chain of known headers to the root, *)
(* not longer than the limit.                                              *)
THEOREM LineagesOnly == Spec => []AnswersAreLineages
<1>1. IInv => AnswersAreLineages
  BY DEF IInv, MemoState, WalkState, AnswersAreLineages, Lineage, LineageIn, Chained, ChainIn
<1> QED
  BY <1>1, Invariance, PTL

(* A walk that nobody failed or aborted fails at a circle or at the limit. *)
THEOREM FailuresHaveCause == Spec => []FailsOnlyWithCause
<1>1. IInv => FailsOnlyWithCause
  BY DEF IInv, WalkState, FailsOnlyWithCause, Chained, ChainIn
<1> QED
  BY <1>1, Invariance, PTL

(* A session keeps its lineage, and a bound child its binding.             *)
THEOREM LineagesStay == Spec => AnswersNeverChange
<1>1. IInv /\ [Next]_vars => [Keeps(memo, <<>>) /\ Keeps(bound, None)]_vars
  BY Inductive
<1> QED
  BY <1>1, Invariance, PTL DEF Spec, AnswersNeverChange
================================================================================
