---------------------------- MODULE Flow_proofs ----------------------------
(***************************************************************************)
(* The two ends of the case flow that CaseFlow takes as given: the rules,   *)
(* which FlowVersions publishes (part 1), and the loop that calls for its   *)
(* jobs, FlowWorker (part 2).                                               *)
(***************************************************************************)
EXTENDS FlowVersions, FlowWorker, SequenceTheorems, TLAPS

(***************************************************************************)
(* Part 1. Whatever editors, administrators and merchants do beside one     *)
(* another, what is published is sound when it becomes active, the search   *)
(* for a circle is exact, and the rules a merchant is pinned to are those   *)
(* of that moment and never change, so CaseFlow takes them as constants.    *)
(***************************************************************************)

(* Locks on rows exclude one another. *)
RowsExclude ==
  \A a, b \in Actors :
    a # b => tx[a].update \cap (tx[b].update \cup tx[b].share) = {}

(* What a publication has checked stays true until it commits. *)
Publishing(e) ==
  /\ tx[e].at \in {"editing", "checking", "searching", "valid"} =>
       /\ tx[e].revision <= current.revision
       /\ tx[e].revision = current.revision => tx[e].seen = current.active
  /\ tx[e].at \in {"checking", "searching", "valid"} =>
       /\ "current" \in tx[e].update /\ tx[e].revision = current.revision
       /\ Len(version) < MaxVersions
       /\ tx[e].draft \in Drafts \cup {Baseline}
  /\ tx[e].at \in {"editing", "checking"} => tx[e].visited = {} /\ tx[e].path = <<>>
  /\ tx[e].at \in {"searching", "valid"} =>
       /\ Named(tx[e].draft) \subseteq tx[e].share
       /\ \A q \in Named(tx[e].draft) : queue[q].lifecycle = "active"

(* What the search has visited leads nowhere else and has no circle; every  *)
(* set of visited nodes has one that leads to none of the set.              *)
Explored(edges, visited) ==
  /\ \A v \in visited : Adjacent(edges, v) \subseteq visited
  /\ \A S \in (SUBSET visited) \ {{}} : \E p \in S : \A q \in S : <<p, q>> \notin edges

Chained(edges, path) == \A i \in 1 .. Len(path) - 1 : <<path[i], path[i + 1]>> \in edges

(* What a transaction knows of the rules it checks. *)
Knows(t) ==
  /\ t.at = "searching" => Explored(Edges(t), t.visited) /\ Chained(Edges(t), t.path)
  /\ t.at = "circular" => IsCircle(t.draft, t.path)
  /\ t.at = "valid" => ~CircularWait(t.draft)

Searched == \A a \in Actors : Knows(tx[a])

(* A submission holds the active version, an administrator the queue. *)
Submitting(m) ==
  /\ tx[m].at \in {"pinned", "started"} =>
       "current" \in tx[m].share /\ tx[m].seen = current.active
  /\ tx[m].at = "started" => tx[m].cases = version[current.active].start

Administering(a) ==
  /\ tx[a].at \in {"read", "bumped"} => tx[a].queue \in Queues
  /\ tx[a].at = "bumped" => tx[a].queue \in tx[a].update

Holds(a) == Publishing(a) /\ Submitting(a) /\ Administering(a)

Versioned ==
  /\ TypeOK
  /\ current.active = Len(version)
  /\ RowsExclude
  /\ \A a \in Actors : Holds(a)

LEMMA VersionIs ==
  ASSUME TypeOK
  PROVE  /\ version \in Seq(Drafts \cup {Baseline}) /\ DOMAIN version = 1 .. Len(version)
         /\ Len(version) \in 1 .. MaxVersions
<1>1. PICK n \in 1 .. MaxVersions : version \in [1 .. n -> Drafts \cup {Baseline}]
  BY DEF TypeOK, Versions
<1>2. QED  BY <1>1

LEMMA AppendIs ==
  ASSUME TypeOK, NEW d \in Drafts \cup {Baseline}, Len(version) < MaxVersions, MaxVersions \in Nat,
         version' = Append(version, d)
  PROVE  /\ version' \in UNION {[1 .. n -> Drafts \cup {Baseline}] : n \in 1 .. MaxVersions}
         /\ Len(version') = Len(version) + 1 /\ version'[Len(version')] = d
         /\ \A v \in 1 .. Len(version) : version'[v] = version[v]
<1>1. /\ version \in Seq(Drafts \cup {Baseline}) /\ Len(version) \in 1 .. MaxVersions
      /\ Len(version) + 1 \in 1 .. MaxVersions
  BY VersionIs
<1>2. /\ version' \in Seq(Drafts \cup {Baseline}) /\ Len(version') = Len(version) + 1
      /\ \A v \in 1 .. Len(version) : version'[v] = version[v]
      /\ version'[Len(version) + 1] = d
  BY <1>1, AppendProperties
<1>3. version' \in [1 .. Len(version') -> Drafts \cup {Baseline}]
  BY <1>2, LenProperties
<1>4. QED  BY <1>1, <1>2, <1>3

LEMMA IdleIs ==
  /\ Idle \in Tx
  /\ Idle.at = "idle" /\ Idle.share = {} /\ Idle.update = {}
  BY DEF Idle, Tx, Lifecycles, Rows

(* Rules name queues. *)
LEMMA DraftsNameQueues ==
  \A rules \in Drafts \cup {Baseline} : Named(rules) \subseteq Queues
<1> SUFFICES ASSUME NEW rules \in Drafts \cup {Baseline}, NEW q \in Named(rules)
             PROVE  q \in Queues
  OBVIOUS
<1>1. rules \in Rules
  BY FlowVersionsAssumption
<1>2. RulePairs(rules) \subseteq Queues \X Queues /\ rules.start \subseteq Queues
  BY <1>1 DEF Rules, RulePairs, Pairs
<1> QED BY <1>2 DEF Named

-----------------------------------------------------------------------------
(* The search *)

(* A node waits for another when there is an edge in the last graph, and in *)
(* each graph only then.                                                    *)
LEMMA EdgesAreWaits ==
  ASSUME NEW t \in Tx
  PROVE  /\ \A p, q : <<p, q>> \in Edges(t) => p \in Queues /\ q \in Queues /\ Waits(t.draft, p, q)
         /\ t.graph = 3 => \A p, q : Waits(t.draft, p, q) => <<p, q>> \in Edges(t)
<1>1. t.draft \in Rules /\ t.graph \in 1 .. 3
  BY FlowVersionsAssumption DEF Tx
<1>2. \A p, q : <<p, q>> \in DependencyEdges(t.draft) <=> Waits(t.draft, p, q)
  BY <1>1 DEF DependencyEdges, Waits, Rules, Pairs
<1>3. /\ t.draft.requirements \subseteq DependencyEdges(t.draft)
      /\ t.draft.blockers \subseteq DependencyEdges(t.draft)
      /\ DependencyEdges(t.draft) \subseteq Queues \X Queues
  BY <1>1 DEF DependencyEdges, Rules, Pairs
<1>4. /\ Edges(t) \subseteq DependencyEdges(t.draft)
      /\ t.graph = 3 => Edges(t) = DependencyEdges(t.draft)
  <2>1. CASE t.graph = 1
    BY <1>3, <2>1 DEF Edges, Graphs
  <2>2. CASE t.graph = 2
    BY <1>3, <2>2 DEF Edges, Graphs
  <2>3. CASE t.graph = 3
    BY <2>3 DEF Edges, Graphs
  <2> QED BY <1>1, <2>1, <2>2, <2>3
<1> QED BY <1>2, <1>3, <1>4

(* The search grows by a node that leads to visited ones only. *)
LEMMA ExploredGrows ==
  ASSUME NEW edges, NEW visited \in SUBSET Queues, NEW node \in Queues,
         Explored(edges, visited), Adjacent(edges, node) \subseteq visited
  PROVE  Explored(edges, visited \cup {node})
<1>1. CASE node \in visited
  <2>1. visited \cup {node} = visited
    BY <1>1
  <2> QED BY <2>1
<1>2. CASE node \notin visited
  <2>1. \A v \in visited \cup {node} : Adjacent(edges, v) \subseteq visited
    BY DEF Explored
  <2>2. ASSUME NEW S \in (SUBSET (visited \cup {node})) \ {{}}
        PROVE  \E p \in S : \A q \in S : <<p, q>> \notin edges
    <3>1. CASE S \subseteq {node}
      <4>1. <<node, node>> \notin edges
        BY <1>2 DEF Adjacent
      <4>2. S = {node}
        BY <2>2, <3>1
      <4> QED BY <4>1, <4>2
    <3>2. CASE ~(S \subseteq {node})
      <4>1. S \ {node} \in (SUBSET visited) \ {{}}
        BY <3>2
      <4>2. PICK p \in S \ {node} : \A q \in S \ {node} : <<p, q>> \notin edges
        BY <4>1 DEF Explored
      <4>3. p \in visited /\ <<p, node>> \notin edges
        BY <1>2, <2>1, <4>2 DEF Adjacent
      <4> QED BY <4>2, <4>3
    <3> QED BY <3>1, <3>2
  <2> QED BY <2>1, <2>2 DEF Explored
<1> QED BY <1>1, <1>2

(* When every node that waits was visited, nobody waits in a circle. *)
LEMMA ExploredAll ==
  ASSUME NEW t \in Tx, t.graph = 3,
         Explored(Edges(t), t.visited), From(Edges(t)) \subseteq t.visited
  PROVE  ~CircularWait(t.draft)
<1> SUFFICES ASSUME NEW S \in (SUBSET Queues) \ {{}},
                    \A p \in S : \E q \in S : Waits(t.draft, p, q)
             PROVE  FALSE
  BY DEF CircularWait
<1>1. \A p \in S : \E q \in S : <<p, q>> \in Edges(t)
  BY EdgesAreWaits
<1>2. S \subseteq t.visited
  BY <1>1 DEF From, Adjacent
<1> QED BY <1>1, <1>2 DEF Explored

(* A chain that comes back to a node of it is a circle. *)
LEMMA ChainCloses ==
  ASSUME NEW t \in Tx, Chained(Edges(t), t.path),
         NEW start \in DOMAIN t.path, NEW next \in Queues,
         t.path[start] = next, next \in ToVisit(t)
  PROVE  /\ Append(SubSeq(t.path, start, Len(t.path)), next) \in Seq(Queues)
         /\ IsCircle(t.draft, Append(SubSeq(t.path, start, Len(t.path)), next))
<1> DEFINE path == t.path
           tail == SubSeq(path, start, Len(path))
           circle == Append(tail, next)
<1>1. path \in Seq(Queues) /\ Len(path) \in Nat /\ start \in 1 .. Len(path)
  BY LenProperties DEF Tx
<1>2. path # <<>> /\ <<path[Len(path)], next>> \in Edges(t)
  BY <1>1 DEF ToVisit, Adjacent, Node
<1> HIDE DEF path
<1>3. /\ tail \in Seq(Queues) /\ Len(tail) = Len(path) - start + 1
      /\ \A i \in 1 .. Len(tail) : tail[i] = path[start + i - 1]
  <2>1. \A i \in start .. Len(path) : path[i] \in Queues
    BY <1>1, ElementOfSeq
  <2>2. start \in Int /\ Len(path) \in Int /\ start <= Len(path)
    BY <1>1
  <2>3. /\ SubSeq(path, start, Len(path)) \in Seq(Queues)
        /\ Len(SubSeq(path, start, Len(path))) = Len(path) - start + 1
        /\ \A i \in 1 .. Len(path) - start + 1 :
             SubSeq(path, start, Len(path))[i] = path[start + i - 1]
    BY <2>1, <2>2, SubSeqProperties
  <2> QED BY <2>3
<1> HIDE DEF tail
<1>4. /\ circle \in Seq(Queues) /\ Len(circle) = Len(tail) + 1
      /\ \A i \in 1 .. Len(tail) : circle[i] = tail[i]
      /\ circle[Len(tail) + 1] = next
  BY <1>3, AppendProperties
<1> HIDE DEF circle
<1>5. Len(circle) > 1 /\ circle[1] = path[start] /\ circle[Len(circle)] = path[start]
  <2>1. Len(tail) \in Nat /\ 1 \in 1 .. Len(tail) /\ Len(circle) = Len(tail) + 1
    BY <1>1, <1>3, <1>4
  <2>2. circle[1] = path[start]
    BY <1>1, <1>3, <1>4, <2>1
  <2>3. circle[Len(circle)] = path[start]
    BY <1>4, <2>1 DEF path
  <2> QED BY <2>1, <2>2, <2>3
<1>6. ASSUME NEW i \in 1 .. Len(circle) - 1 PROVE Waits(t.draft, circle[i], circle[i + 1])
  <2>1. i \in 1 .. Len(tail) /\ circle[i] = path[start + i - 1]
    <3>1. Len(tail) \in Nat /\ Len(circle) - 1 = Len(tail)
      BY <1>1, <1>3, <1>4
    <3> QED BY <1>3, <1>4, <3>1
  <2>2. CASE i = Len(tail)
    <3>1. circle[i] = path[Len(path)] /\ circle[i + 1] = next
      BY <1>1, <1>3, <1>4, <2>1, <2>2
    <3> QED BY <1>2, <3>1, EdgesAreWaits
  <2>3. CASE i # Len(tail)
    <3>1. /\ circle[i + 1] = path[start + i] /\ start + i - 1 \in 1 .. Len(path) - 1
          /\ start + i = (start + i - 1) + 1
      <4>1. i + 1 \in 1 .. Len(tail)
        BY <1>1, <1>3, <2>1, <2>3
      <4>2. circle[i + 1] = path[start + (i + 1) - 1] /\ start + (i + 1) - 1 = start + i
        BY <1>1, <1>3, <1>4, <4>1
      <4> QED BY <1>1, <1>3, <4>1, <4>2
    <3>2. <<path[start + i - 1], path[start + i]>> \in Edges(t)
      BY <3>1 DEF Chained, path
    <3> QED BY <2>1, <3>1, <3>2, EdgesAreWaits
  <2> QED BY <2>2, <2>3
<1> QED BY <1>4, <1>5, <1>6 DEF IsCircle, circle, tail, path

(* Who is in a circle waits in a circle. *)
LEMMA CirclesWait ==
  ASSUME NEW rules, NEW circle \in Seq(Queues), IsCircle(rules, circle)
  PROVE  CircularWait(rules)
<1> DEFINE S == {circle[i] : i \in 1 .. Len(circle) - 1}
<1>1. Len(circle) \in Nat /\ Len(circle) > 1 /\ circle[1] = circle[Len(circle)]
  BY LenProperties DEF IsCircle
<1>2. S \in (SUBSET Queues) \ {{}}
  <2>1. \A i \in 1 .. Len(circle) - 1 : circle[i] \in Queues
    BY <1>1, ElementOfSeq
  <2>2. circle[1] \in S
    BY <1>1
  <2>3. \A p \in S : p \in Queues
    BY <2>1
  <2> HIDE DEF S
  <2>4. S \subseteq Queues /\ S # {}
    BY <2>2, <2>3
  <2> QED BY <2>4
<1>3. ASSUME NEW p \in S PROVE \E q \in S : Waits(rules, p, q)
  <2>1. PICK i \in 1 .. Len(circle) - 1 : p = circle[i]
    OBVIOUS
  <2>2. Waits(rules, p, circle[i + 1])
    BY <2>1 DEF IsCircle
  <2>3. circle[i + 1] \in S
    <3>1. CASE i = Len(circle) - 1
      BY <1>1, <3>1
    <3>2. CASE i # Len(circle) - 1
      <4>1. i + 1 \in 1 .. Len(circle) - 1
        BY <1>1, <3>2
      <4> QED BY <4>1
    <3> QED BY <3>1, <3>2
  <2> QED BY <2>2, <2>3
<1> QED BY <1>2, <1>3 DEF CircularWait

-----------------------------------------------------------------------------
(* A step of a leaves the others' transactions alone. *)
Only(a) == \A b \in Actors : b # a => tx'[b] = tx[b]

(* A transaction that ends. *)
LEMMA Ends ==
  ASSUME TypeOK, NEW a \in Actors, Stop(a)
  PROVE  tx' \in [Actors -> Tx] /\ Only(a) /\ tx'[a] = Idle
  BY IdleIs DEF TypeOK, Stop, Only

(* One that goes on. *)
LEMMA GoesOn ==
  ASSUME TypeOK, NEW a \in Actors, NEW t \in Tx, tx' = [tx EXCEPT ![a] = t]
  PROVE  tx' \in [Actors -> Tx] /\ Only(a) /\ tx'[a] = t
  BY DEF TypeOK, Only

-----------------------------------------------------------------------------

LEMMA ExcludeStep ==
  ASSUME RowsExclude, NEW a \in Actors, Only(a),
         \A b \in Actors : b # a =>
           /\ tx'[a].update \cap (tx[b].update \cup tx[b].share) = {}
           /\ tx[b].update \cap tx'[a].share = {}
  PROVE  RowsExclude'
<1> SUFFICES ASSUME NEW b \in Actors, NEW c \in Actors, b # c
             PROVE  tx'[b].update \cap (tx'[c].update \cup tx'[c].share) = {}
  BY DEF RowsExclude, Actors
<1>1. CASE b = a
  BY <1>1 DEF Only
<1>2. CASE c = a
  BY <1>2 DEF Only
<1>3. CASE b # a /\ c # a
  BY <1>3 DEF Only, RowsExclude
<1> QED BY <1>1, <1>2, <1>3

(* No lock of another transaction grows, none of a is taken without it:     *)
(* a transaction that changes its own state only.                           *)
LEMMA Keeps ==
  ASSUME Versioned, NEW a \in Actors, Only(a), tx' \in [Actors -> Tx],
         UNCHANGED <<current, version, queue, merchant>>, Holds(a)',
         \A b \in Actors : b # a =>
           /\ tx'[a].update \cap (tx[b].update \cup tx[b].share) = {}
           /\ tx[b].update \cap tx'[a].share = {}
  PROVE  Versioned'
<1>1. RowsExclude'
  BY ExcludeStep DEF Versioned
<1>2. ASSUME NEW b \in Actors, b # a PROVE Holds(b)'
  <2>1. Holds(b) /\ tx'[b] = tx[b]
    BY <1>2 DEF Versioned, Only
  <2>2. Publishing(b)'
    BY <2>1 DEF Holds, Publishing, Named, RulePairs
  <2>3. Submitting(b)' /\ Administering(b)'
    BY <2>1 DEF Holds, Submitting, Administering
  <2> QED BY <2>2, <2>3 DEF Holds
<1>3. TypeOK'
  BY DEF Versioned, TypeOK, Versions, Actors, Tx, Rows, Lifecycles
<1> QED BY <1>1, <1>2, <1>3 DEF Versioned, Actors

(* A step of the search keeps what the transaction holds. *)
GoesOnSearching(s, t) ==
  /\ t.at \in {"searching", "circular", "valid"}
  /\ t.seen = s.seen /\ t.revision = s.revision /\ t.draft = s.draft
  /\ t.share = s.share /\ t.update = s.update

LEMMA VisitIs ==
  ASSUME TypeOK, NEW e \in Editors, NEW next \in Queues, Visit(e, next)
  PROVE  /\ tx[e].at = "searching" /\ next \in ToVisit(tx[e])
         /\ UNCHANGED <<current, version, queue, merchant>>
         /\ \E t \in Tx :
              /\ tx' = [tx EXCEPT ![e] = t]
              /\ GoesOnSearching(tx[e], t) /\ t.graph = tx[e].graph /\ t.visited = tx[e].visited
              /\ \/ t.at = "searching" /\ t.path = Append(tx[e].path, next)
                 \/ \E start \in DOMAIN tx[e].path :
                      /\ tx[e].path[start] = next /\ t.at = "circular"
                      /\ t.path = Append(SubSeq(tx[e].path, start, Len(tx[e].path)), next)
<1>0. tx[e] \in Tx /\ tx[e].path \in Seq(Queues) /\ e \in Actors /\ tx \in [Actors -> Tx]
  BY DEF TypeOK, Actors, Tx
<1>1. tx[e].at = "searching" /\ next \in ToVisit(tx[e]) /\ UNCHANGED <<current, version, queue, merchant>>
  BY DEF Visit
<1>2. CASE tx' = [tx EXCEPT ![e].path = Append(tx[e].path, next)]
  <2> DEFINE t == [tx[e] EXCEPT !.path = Append(tx[e].path, next)]
  <2>1. Append(tx[e].path, next) \in Seq(Queues)
    BY <1>0, AppendProperties
  <2>2. t \in Tx
    BY <1>0, <2>1 DEF Tx
  <2>3. /\ GoesOnSearching(tx[e], t) /\ t.graph = tx[e].graph /\ t.visited = tx[e].visited
        /\ t.at = "searching" /\ t.path = Append(tx[e].path, next)
    BY <1>0, <1>1 DEF Tx, GoesOnSearching
  <2>4. tx' = [tx EXCEPT ![e] = t]
    BY <1>0, <1>2 DEF Tx
  <2> QED BY <1>1, <2>2, <2>3, <2>4
<1>3. ASSUME NEW start \in DOMAIN tx[e].path, tx[e].path[start] = next,
             tx' = [tx EXCEPT ![e].at = "circular",
                       ![e].path = Append(SubSeq(tx[e].path, start, Len(tx[e].path)), next)]
      PROVE  \E t \in Tx :
               /\ tx' = [tx EXCEPT ![e] = t]
               /\ GoesOnSearching(tx[e], t) /\ t.graph = tx[e].graph /\ t.visited = tx[e].visited
               /\ tx[e].path[start] = next /\ t.at = "circular"
               /\ t.path = Append(SubSeq(tx[e].path, start, Len(tx[e].path)), next)
  <2> DEFINE circle == Append(SubSeq(tx[e].path, start, Len(tx[e].path)), next)
             t      == [tx[e] EXCEPT !.at = "circular", !.path = circle]
  <2>1. SubSeq(tx[e].path, start, Len(tx[e].path)) \in Seq(Queues)
    BY <1>0, <1>3, LenProperties, ElementOfSeq, SubSeqProperties
  <2>2. circle \in Seq(Queues)
    BY <2>1, AppendProperties
  <2>3. tx' = [tx EXCEPT ![e].at = "circular", ![e].path = circle]
    BY <1>3
  <2> HIDE DEF circle
  <2>4. t \in Tx
    BY <1>0, <2>2 DEF Tx
  <2>5. /\ GoesOnSearching(tx[e], t) /\ t.graph = tx[e].graph /\ t.visited = tx[e].visited
        /\ t.at = "circular" /\ t.path = circle
    BY <1>0, <1>1 DEF Tx, GoesOnSearching
  <2>6. tx' = [tx EXCEPT ![e] = t]
    BY <1>0, <2>3 DEF Tx
  <2> HIDE DEF t
  <2> QED BY <1>3, <2>4, <2>5, <2>6 DEF circle
<1>4. \/ tx' = [tx EXCEPT ![e].path = Append(tx[e].path, next)]
      \/ \E start \in DOMAIN tx[e].path :
           /\ tx[e].path[start] = next
           /\ tx' = [tx EXCEPT ![e].at = "circular",
                       ![e].path = Append(SubSeq(tx[e].path, start, Len(tx[e].path)), next)]
  BY DEF Visit
<1>5. ASSUME NEW start \in DOMAIN tx[e].path, tx[e].path[start] = next,
             tx' = [tx EXCEPT ![e].at = "circular",
                       ![e].path = Append(SubSeq(tx[e].path, start, Len(tx[e].path)), next)]
      PROVE  \E t \in Tx :
              /\ tx' = [tx EXCEPT ![e] = t]
              /\ GoesOnSearching(tx[e], t) /\ t.graph = tx[e].graph /\ t.visited = tx[e].visited
              /\ \/ t.at = "searching" /\ t.path = Append(tx[e].path, next)
                 \/ \E i \in DOMAIN tx[e].path :
                      /\ tx[e].path[i] = next /\ t.at = "circular"
                      /\ t.path = Append(SubSeq(tx[e].path, i, Len(tx[e].path)), next)
  BY <1>3, <1>5, Zenon
<1> QED BY <1>1, <1>2, <1>4, <1>5, Zenon

LEMMA LeaveIs ==
  ASSUME TypeOK, NEW e \in Editors, Leave(e)
  PROVE  /\ tx[e].at = "searching" /\ ToVisit(tx[e]) = {} /\ tx[e].path # <<>>
         /\ UNCHANGED <<current, version, queue, merchant>>
         /\ Node(tx[e]) \in Queues
         /\ \E t \in Tx :
              /\ tx' = [tx EXCEPT ![e] = t]
              /\ GoesOnSearching(tx[e], t) /\ t.graph = tx[e].graph /\ t.at = "searching"
              /\ t.path = SubSeq(tx[e].path, 1, Len(tx[e].path) - 1)
              /\ t.visited = tx[e].visited \cup {Node(tx[e])}
<1>0. tx[e] \in Tx /\ tx[e].path \in Seq(Queues) /\ e \in Actors /\ tx \in [Actors -> Tx]
  BY DEF TypeOK, Actors, Tx
<1>1. /\ tx[e].at = "searching" /\ ToVisit(tx[e]) = {} /\ tx[e].path # <<>>
      /\ UNCHANGED <<current, version, queue, merchant>>
  BY DEF Leave
<1> DEFINE rest == SubSeq(tx[e].path, 1, Len(tx[e].path) - 1)
           t    == [tx[e] EXCEPT !.path = rest, !.visited = tx[e].visited \cup {Node(tx[e])}]
<1>2. Len(tx[e].path) \in Nat \ {0}
  BY <1>0, <1>1, EmptySeq, LenProperties
<1>3. Node(tx[e]) \in Queues
  BY <1>0, <1>2, ElementOfSeq DEF Node
<1>4. rest \in Seq(Queues)
  <2>1. \A i \in 1 .. Len(tx[e].path) - 1 : tx[e].path[i] \in Queues
    BY <1>0, <1>2, ElementOfSeq
  <2> QED BY <1>2, <2>1, SubSeqProperties
<1>5. tx' = [tx EXCEPT ![e].path = rest, ![e].visited = tx[e].visited \cup {Node(tx[e])}]
  BY <1>0 DEF Leave
<1> HIDE DEF rest
<1>6. t \in Tx
  BY <1>0, <1>3, <1>4 DEF Tx
<1>7. /\ GoesOnSearching(tx[e], t) /\ t.graph = tx[e].graph /\ t.at = "searching"
      /\ t.path = rest /\ t.visited = tx[e].visited \cup {Node(tx[e])}
  BY <1>0, <1>1 DEF Tx, GoesOnSearching
<1>8. tx' = [tx EXCEPT ![e] = t]
  BY <1>0, <1>5 DEF Tx
<1> HIDE DEF t
<1> QED BY <1>1, <1>3, <1>6, <1>7, <1>8 DEF rest

LEMMA NextGraphIs ==
  ASSUME TypeOK, NEW e \in Editors, NextGraph(e)
  PROVE  /\ tx[e].at = "searching" /\ ToVisit(tx[e]) = {} /\ tx[e].path = <<>>
         /\ UNCHANGED <<current, version, queue, merchant>>
         /\ \/ Stop(e)
            \/ \E t \in Tx :
                 /\ tx' = [tx EXCEPT ![e] = t]
                 /\ GoesOnSearching(tx[e], t) /\ t.path = tx[e].path /\ t.visited = {}
                 /\ \/ t.at = "searching" /\ t.graph = tx[e].graph + 1
                    \/ t.at = "valid" /\ tx[e].graph = 3
<1>0. tx[e] \in Tx /\ e \in Actors /\ tx \in [Actors -> Tx]
  BY DEF TypeOK, Actors, Tx
<1>1. /\ tx[e].at = "searching" /\ ToVisit(tx[e]) = {} /\ tx[e].path = <<>>
      /\ UNCHANGED <<current, version, queue, merchant>>
  BY DEF NextGraph
<1>2. CASE tx[e].graph < 3
  <2> DEFINE t == [tx[e] EXCEPT !.graph = tx[e].graph + 1, !.visited = {}]
  <2>0. tx[e].graph + 1 \in 1 .. 3 /\ {} \in SUBSET Queues
    BY <1>0, <1>2 DEF Tx
  <2>1. t \in Tx
    BY <1>0, <2>0 DEF Tx
  <2>2. /\ GoesOnSearching(tx[e], t) /\ t.path = tx[e].path /\ t.visited = {}
        /\ t.at = "searching" /\ t.graph = tx[e].graph + 1
    BY <1>0, <1>1 DEF Tx, GoesOnSearching
  <2>3. tx' = [tx EXCEPT ![e] = t]
    BY <1>0, <1>2 DEF Tx, NextGraph
  <2> QED BY <1>1, <2>1, <2>2, <2>3
<1>3. CASE ~(tx[e].graph < 3) /\ Possible(tx[e].draft)
  <2> DEFINE t == [tx[e] EXCEPT !.at = "valid", !.graph = 1, !.visited = {}]
  <2>0. 1 \in 1 .. 3 /\ {} \in SUBSET Queues
    OBVIOUS
  <2>1. t \in Tx
    BY <1>0, <2>0 DEF Tx
  <2>2. /\ GoesOnSearching(tx[e], t) /\ t.path = tx[e].path /\ t.visited = {}
        /\ t.at = "valid" /\ tx[e].graph = 3
    BY <1>0, <1>3 DEF Tx, GoesOnSearching
  <2>3. tx' = [tx EXCEPT ![e] = t]
    BY <1>0, <1>3 DEF Tx, NextGraph
  <2> QED BY <1>1, <2>1, <2>2, <2>3
<1>4. CASE ~(tx[e].graph < 3) /\ ~Possible(tx[e].draft)
  BY <1>1, <1>4 DEF NextGraph
<1> QED BY <1>2, <1>3, <1>4

LEMMA EditorStep ==
  ASSUME Versioned, NEW e \in Editors,
         \/ PublishCheck(e) \/ \E shown \in Versions : Load(e, shown)
         \/ \E draft \in Drafts \cup {Baseline} : PublishLock(e, draft)
         \/ \E next \in Queues : Visit(e, next)
         \/ Leave(e) \/ NextGraph(e)
  PROVE  Versioned'
<1>0. /\ e \in Actors /\ tx[e] \in Tx /\ Holds(e) /\ TypeOK
      /\ current.active \in 1 .. MaxVersions /\ current.revision \in Nat
  BY DEF Versioned, TypeOK, Actors, Versions
<1>1. ASSUME NEW shown \in Versions, Load(e, shown) PROVE Versioned'
  <2> DEFINE t == [Idle EXCEPT !.at = "editing", !.draft = version[shown],
                                   !.seen = current.active, !.revision = current.revision]
  <2>9. version[shown] \in Drafts \cup {Baseline}
    <3>1. PICK n \in Versions : version \in [1 .. n -> Drafts \cup {Baseline}]
      BY <1>0 DEF TypeOK
    <3>2. shown \in DOMAIN version
      BY <1>1 DEF Load
    <3> QED BY <3>1, <3>2
  <2>0. t \in Tx
    BY <1>0, <2>9, IdleIs DEF Tx, Versions
  <2>1. /\ t \in Tx /\ t.at = "editing" /\ t.seen = current.active
        /\ t.revision = current.revision /\ t.share = {} /\ t.update = {}
        /\ t.visited = {} /\ t.path = <<>>
    BY <2>0 DEF Idle
  <2>2. tx' = [tx EXCEPT ![e] = t] /\ UNCHANGED <<current, version, queue, merchant>>
    BY <1>1 DEF Load
  <2> HIDE DEF t
  <2>3. tx' \in [Actors -> Tx] /\ Only(e) /\ tx'[e] = t
    BY <1>0, <2>1, <2>2, GoesOn
  <2>4. Holds(e)'
    BY <1>0, <2>1, <2>2, <2>3 DEF Holds, Publishing, Submitting, Administering
  <2> QED BY <1>0, <2>1, <2>2, <2>3, <2>4, Keeps
<1>2. ASSUME Stop(e), UNCHANGED <<current, version, queue, merchant>> PROVE Versioned'
  <2>1. tx' \in [Actors -> Tx] /\ Only(e) /\ tx'[e] = Idle
    BY <1>0, <1>2, Ends
  <2>2. Holds(e)'
    BY <2>1, IdleIs DEF Holds, Publishing, Submitting, Administering
  <2> QED BY <1>0, <1>2, <2>1, <2>2, IdleIs, Keeps
<1>3. ASSUME NEW draft \in Drafts \cup {Baseline}, PublishLock(e, draft), current.revision = tx[e].revision
      PROVE  Versioned'
  <2> DEFINE t == [tx[e] EXCEPT !.at = "checking", !.draft = draft, !.update = {"current"}]
  <2>1. /\ t \in Tx /\ t.at = "checking" /\ t.seen = tx[e].seen /\ t.draft = draft
        /\ t.revision = tx[e].revision /\ t.share = tx[e].share /\ t.update = {"current"}
        /\ t.visited = tx[e].visited /\ t.path = tx[e].path
    BY <1>0 DEF Tx, Rows
  <2>2. tx' = [tx EXCEPT ![e] = t] /\ UNCHANGED <<current, version, queue, merchant>>
    BY <1>0, <1>3 DEF PublishLock, TypeOK, Tx
  <2>3. /\ tx[e].at = "editing" /\ Len(version) < MaxVersions
        /\ \A b \in Actors : b # e => "current" \notin tx[b].update \cup tx[b].share
    BY <1>3 DEF PublishLock, UpdateFree, Others
  <2> HIDE DEF t
  <2>4. tx' \in [Actors -> Tx] /\ Only(e) /\ tx'[e] = t
    BY <1>0, <2>1, <2>2, GoesOn
  <2>5. Holds(e)'
    <3>1. t.visited = {} /\ t.path = <<>>
      BY <1>0, <2>1, <2>3 DEF Holds, Publishing
    <3> QED BY <1>0, <1>3, <2>1, <2>2, <2>3, <2>4, <3>1 DEF Holds, Publishing, Submitting, Administering
  <2>6. \A b \in Actors : b # e => tx[b].update \cap tx[e].share = {}
    BY <1>0 DEF Versioned, RowsExclude
  <2> QED BY <1>0, <2>1, <2>2, <2>3, <2>4, <2>5, <2>6, Keeps
<1>4. ASSUME PublishCheck(e), QueuesUsable(tx[e].draft) PROVE Versioned'
  <2> DEFINE t == [tx[e] EXCEPT !.at = "searching", !.share = QueueLocks(e)]
  <2>1. QueueLocks(e) = Named(tx[e].draft) /\ tx[e].at = "checking"
    BY <1>4 DEF QueueLocks, PublishCheck
  <2>2. /\ t.at = "searching" /\ t.seen = tx[e].seen /\ t.draft = tx[e].draft
        /\ t.revision = tx[e].revision /\ t.share = Named(tx[e].draft)
        /\ t.update = tx[e].update
    BY <1>0, <2>1 DEF Tx
  <2>3. Named(tx[e].draft) \subseteq Queues
    BY <1>0, DraftsNameQueues DEF Tx
  <2>4. t \in Tx
    BY <1>0, <2>1, <2>3 DEF Tx, Rows
  <2>5. tx' = [tx EXCEPT ![e] = t] /\ UNCHANGED <<current, version, queue, merchant>>
    BY <1>0, <1>4 DEF PublishCheck, TypeOK, Tx
  <2>6. \A b \in Actors : b # e =>
          /\ tx[b].update \cap Named(tx[e].draft) = {}
          /\ tx[e].update \cap (tx[b].update \cup tx[b].share) = {}
    BY <1>0, <1>4 DEF PublishCheck, QueuesFree, ShareFree, Others,
       Versioned, RowsExclude
  <2>7. \A q \in Named(tx[e].draft) : queue[q].lifecycle = "active"
    BY <1>4 DEF QueuesUsable
  <2> HIDE DEF t
  <2>8. tx' \in [Actors -> Tx] /\ Only(e) /\ tx'[e] = t
    BY <1>0, <2>4, <2>5, GoesOn
  <2>9. Holds(e)'
    <3>1. Publishing(e)'
      BY <1>0, <2>1, <2>2, <2>5, <2>7, <2>8 DEF Holds, Publishing, Named, RulePairs
    <3>2. Submitting(e)' /\ Administering(e)'
      BY <2>2, <2>8 DEF Submitting, Administering
    <3> QED BY <3>1, <3>2 DEF Holds
  <2> QED BY <1>0, <2>2, <2>4, <2>5, <2>6, <2>8, <2>9, Keeps
<1>5. CASE PublishCheck(e)
  BY <1>2, <1>4, <1>5 DEF PublishCheck
<1>6. CASE \E draft \in Drafts \cup {Baseline} : PublishLock(e, draft)
  BY <1>2, <1>3, <1>6 DEF PublishLock
<1>7. ASSUME tx[e].at = "searching", NEW t \in Tx, tx' = [tx EXCEPT ![e] = t], GoesOnSearching(tx[e], t),
             UNCHANGED <<current, version, queue, merchant>>
      PROVE  Versioned'
  <2>1. tx' \in [Actors -> Tx] /\ Only(e) /\ tx'[e] = t
    BY <1>0, <1>7, GoesOn
  <2>2. Holds(e)'
    <3>1. Publishing(e)'
      BY <1>0, <1>7, <2>1 DEF Holds, Publishing, GoesOnSearching, Named, RulePairs
    <3>2. Submitting(e)' /\ Administering(e)'
      BY <1>7, <2>1 DEF Submitting, Administering, GoesOnSearching
    <3> QED BY <3>1, <3>2 DEF Holds
  <2>3. \A b \in Actors : b # e =>
          /\ tx[e].update \cap (tx[b].update \cup tx[b].share) = {}
          /\ tx[b].update \cap tx[e].share = {}
    BY <1>0 DEF Versioned, RowsExclude
  <2> QED BY <1>0, <1>7, <2>1, <2>2, <2>3, Keeps DEF GoesOnSearching
<1>8. CASE \E next \in Queues : Visit(e, next)
  BY <1>0, <1>7, <1>8, VisitIs
<1>9. CASE Leave(e)
  BY <1>0, <1>7, <1>9, LeaveIs
<1>10. CASE NextGraph(e)
  BY <1>0, <1>2, <1>7, <1>10, NextGraphIs
<1> QED BY <1>1, <1>5, <1>6, <1>8, <1>9, <1>10

(* The commit of a publication: nobody else holds the active version.       *)
LEMMA PublishStep ==
  ASSUME Versioned, NEW e \in Editors, PublishCommit(e)
  PROVE  Versioned'
<1>0. /\ e \in Actors /\ tx[e] \in Tx /\ Holds(e) /\ TypeOK
      /\ current.active \in 1 .. MaxVersions /\ current.revision \in Nat
      /\ MaxVersions \in Nat /\ tx[e].at = "valid"
  BY FlowVersionsAssumption DEF Versioned, TypeOK, Actors, Versions,
     PublishCommit
<1>1. tx[e].draft \in Drafts \cup {Baseline} /\ Len(version) < MaxVersions /\ "current" \in tx[e].update
  BY <1>0 DEF Holds, Publishing
<1>2. /\ version' = Append(version, tx[e].draft)
      /\ current' = [active |-> Len(version'), revision |-> current.revision + 1]
      /\ UNCHANGED <<queue, merchant>>
  BY DEF PublishCommit
<1>3. tx' \in [Actors -> Tx] /\ Only(e) /\ tx'[e] = Idle
  BY <1>0, Ends DEF PublishCommit
<1>4. /\ version' \in UNION {[1 .. n -> Drafts \cup {Baseline}] : n \in 1 .. MaxVersions}
      /\ Len(version') \in 1 .. MaxVersions
  BY <1>0, <1>1, <1>2, AppendIs, VersionIs
<1>5. TypeOK'
  BY <1>0, <1>2, <1>3, <1>4 DEF TypeOK, Versions
<1>6. RowsExclude'
  BY <1>0, <1>3, IdleIs, ExcludeStep DEF Versioned
<1>7. ASSUME NEW b \in Actors, b # e PROVE Holds(b)'
  <2>1. /\ Holds(b) /\ tx'[b] = tx[b] /\ tx[b] \in Tx
        /\ "current" \notin tx[b].update \cup tx[b].share
    BY <1>0, <1>1, <1>3, <1>7 DEF Versioned, RowsExclude, Only, TypeOK
  <2>2. tx[b].at \notin {"checking", "searching", "valid", "pinned", "started"}
    BY <2>1 DEF Holds, Publishing, Submitting
  <2>3. tx[b].at = "editing" => tx[b].revision <= current.revision /\ tx[b].revision \in Nat
    BY <2>1 DEF Holds, Publishing, Tx
  <2>4. Publishing(b)'
    BY <1>0, <1>2, <2>1, <2>2, <2>3 DEF Holds, Publishing
  <2>5. Submitting(b)' /\ Administering(b)'
    BY <2>1, <2>2 DEF Holds, Submitting, Administering
  <2> QED BY <2>4, <2>5 DEF Holds
<1>8. Holds(e)'
  BY <1>3, IdleIs DEF Holds, Publishing, Submitting, Administering
<1> QED BY <1>2, <1>5, <1>6, <1>7, <1>8 DEF Versioned, Actors

(* Administrators: a queue changes only under its lock, so it is none that  *)
(* a publication relies on.                                                 *)
LEMMA ReadStep ==
  ASSUME Versioned, NEW a \in Admins, NEW q \in Queues, NEW next \in Lifecycles,
         NEW n \in Nat, ReadQueue(a, q, next, n)
  PROVE  Versioned'
<1>0. a \in Actors /\ TypeOK /\ queue[q].lifecycle \in Lifecycles
  BY DEF Versioned, TypeOK, Actors
<1> DEFINE t == [Idle EXCEPT !.at = "read", !.queue = q, !.next = next,
                                 !.was = queue[q].lifecycle, !.revision = n]
<1>1. t \in Tx /\ t.at = "read" /\ t.queue = q /\ t.share = {} /\ t.update = {}
  <2>1. t \in Tx
    BY <1>0, IdleIs DEF Tx, Rows
  <2> QED BY <2>1 DEF Idle
<1>2. tx' = [tx EXCEPT ![a] = t] /\ UNCHANGED <<current, version, queue, merchant>>
  BY DEF ReadQueue
<1> HIDE DEF t
<1>3. tx' \in [Actors -> Tx] /\ Only(a) /\ tx'[a] = t
  BY <1>0, <1>1, <1>2, GoesOn
<1>4. Holds(a)'
  BY <1>1, <1>3 DEF Holds, Publishing, Submitting, Administering
<1> QED BY <1>0, <1>1, <1>2, <1>3, <1>4, Keeps

LEMMA StopStep ==
  ASSUME Versioned, NEW a \in Actors, Stop(a),
         UNCHANGED <<current, version, queue, merchant>>
  PROVE  Versioned'
<1>0. TypeOK
  BY DEF Versioned
<1>1. tx' \in [Actors -> Tx] /\ Only(a) /\ tx'[a] = Idle
  BY <1>0, Ends
<1>2. Holds(a)'
  BY <1>1, IdleIs DEF Holds, Publishing, Submitting, Administering
<1> QED BY <1>1, <1>2, IdleIs, Keeps

LEMMA BumpStep ==
  ASSUME Versioned, NEW a \in Admins, BumpRevision(a)
  PROVE  Versioned'
<1>0. a \in Actors /\ TypeOK /\ tx[a] \in Tx /\ Holds(a)
  BY DEF Versioned, TypeOK, Actors
<1>1. CASE Stop(a)
  BY <1>0, <1>1, StopStep DEF BumpRevision
<1>2. CASE SameRevision(a)
  <2> DEFINE t == [tx[a] EXCEPT !.at = "bumped", !.update = {tx[a].queue}]
  <2>1. tx[a].at = "read" /\ tx[a].queue \in Queues
    BY <1>0 DEF BumpRevision, Holds, Administering
  <2>2. /\ t \in Tx /\ t.at = "bumped" /\ t.queue = tx[a].queue
        /\ t.share = tx[a].share /\ t.update = {tx[a].queue}
    BY <1>0, <2>1 DEF Tx, Rows
  <2>3. tx' = [tx EXCEPT ![a] = t] /\ UNCHANGED <<current, version, queue, merchant>>
    BY <1>0, <1>2 DEF BumpRevision, TypeOK, Tx
  <2>4. \A b \in Actors : b # a =>
          /\ tx[a].queue \notin tx[b].update \cup tx[b].share
          /\ tx[b].update \cap tx[a].share = {}
    BY <1>0 DEF BumpRevision, UpdateFree, Others, Versioned, RowsExclude
  <2> HIDE DEF t
  <2>5. tx' \in [Actors -> Tx] /\ Only(a) /\ tx'[a] = t
    BY <1>0, <2>2, <2>3, GoesOn
  <2>6. Holds(a)'
    BY <2>1, <2>2, <2>5 DEF Holds, Publishing, Submitting, Administering
  <2> QED BY <1>0, <2>2, <2>3, <2>4, <2>5, <2>6, Keeps
<1> QED BY <1>1, <1>2 DEF BumpRevision

LEMMA QueueStep ==
  ASSUME Versioned, NEW a \in Admins, QueueCommit(a)
  PROVE  Versioned'
<1>0. a \in Actors /\ TypeOK /\ tx[a] \in Tx /\ Holds(a) /\ tx[a].at = "bumped"
  BY DEF Versioned, TypeOK, Actors, QueueCommit
<1>1. tx[a].queue \in Queues /\ tx[a].queue \in tx[a].update
  BY <1>0 DEF Holds, Administering
<1>2. /\ tx' \in [Actors -> Tx] /\ Only(a) /\ tx'[a] = Idle
      /\ UNCHANGED <<current, version, merchant>>
  BY <1>0, Ends DEF QueueCommit
<1>3. /\ queue' \in [Queues -> [lifecycle : Lifecycles, revision : Nat]]
      /\ \A q \in Queues : q # tx[a].queue => queue'[q] = queue[q]
  BY <1>0, <1>1 DEF QueueCommit, TypeOK, Tx
<1>4. TypeOK'
  BY <1>0, <1>2, <1>3 DEF TypeOK, Versions, Lifecycles, Actors, Tx, Rows
<1>5. RowsExclude'
  BY <1>0, <1>2, IdleIs, ExcludeStep DEF Versioned
<1>6. ASSUME NEW b \in Actors, b # a PROVE Holds(b)'
  <2>1. /\ Holds(b) /\ tx'[b] = tx[b] /\ tx[b] \in Tx
        /\ tx[a].queue \notin tx[b].share
    BY <1>0, <1>1, <1>2, <1>6 DEF Versioned, RowsExclude, Only, TypeOK
  <2>2. tx[b].at \in {"searching", "valid"} =>
          \A q \in Named(tx[b].draft) : queue'[q].lifecycle = "active"
    BY <1>3, <2>1, DraftsNameQueues DEF Holds, Publishing, Tx
  <2>3. Publishing(b)'
    BY <1>2, <2>1, <2>2 DEF Holds, Publishing, Named, RulePairs
  <2>4. Submitting(b)' /\ Administering(b)'
    BY <1>2, <2>1 DEF Holds, Submitting, Administering
  <2> QED BY <2>3, <2>4 DEF Holds
<1>7. Holds(a)'
  BY <1>2, IdleIs DEF Holds, Publishing, Submitting, Administering
<1> QED BY <1>2, <1>4, <1>5, <1>6, <1>7 DEF Versioned, Actors

(* Submissions hold the active version from the trigger to the commit.      *)
LEMMA SubmissionStep ==
  ASSUME Versioned, NEW m \in Merchants,
         Pin(m) \/ StartCases(m) \/ SubmitCommit(m) \/ FlowEnds(m)
  PROVE  Versioned'
<1>0. /\ m \in Actors /\ TypeOK /\ tx[m] \in Tx /\ Holds(m)
      /\ current.active \in 1 .. MaxVersions
      /\ version[current.active] \in Drafts \cup {Baseline}
  <2>1. TypeOK /\ current.active = Len(version)
    BY DEF Versioned
  <2> QED BY <2>1, VersionIs DEF Versioned, TypeOK, Actors
<1>1. CASE Pin(m)
  <2> DEFINE t == [Idle EXCEPT !.at = "pinned", !.seen = current.active,
                                   !.share = PinLocks]
  <2>0. t \in Tx
    BY <1>0, IdleIs DEF Tx, Rows, Versions, PinLocks
  <2>1. /\ t \in Tx /\ t.at = "pinned" /\ t.seen = current.active
        /\ t.share = {"current"} /\ t.update = {}
    BY <2>0 DEF Idle, PinLocks
  <2>2. tx' = [tx EXCEPT ![m] = t] /\ UNCHANGED <<current, version, queue, merchant>>
    BY <1>1 DEF Pin
  <2>3. \A b \in Actors : b # m => "current" \notin tx[b].update
    BY <1>1 DEF Pin, ShareFree, Others
  <2> HIDE DEF t
  <2>4. tx' \in [Actors -> Tx] /\ Only(m) /\ tx'[m] = t
    BY <1>0, <2>1, <2>2, GoesOn
  <2>5. Holds(m)'
    BY <2>1, <2>2, <2>4 DEF Holds, Publishing, Submitting, Administering
  <2> QED BY <1>0, <2>1, <2>2, <2>3, <2>4, <2>5, Keeps
<1>2. CASE StartCases(m)
  <2> DEFINE start == version[tx[m].seen].start
             t     == [tx[m] EXCEPT !.at = "started", !.cases = start]
  <2>1. tx[m].at = "pinned" /\ tx[m].seen = current.active /\ "current" \in tx[m].share
    BY <1>0, <1>2 DEF StartCases, Holds, Submitting
  <2>2. start = version[current.active].start /\ start \subseteq Queues
    BY <1>0, <2>1, DraftsNameQueues DEF Named
  <2>3. CASE Stop(m)
    BY <1>0, <1>2, <2>3, StopStep DEF StartCases
  <2>4. CASE \A q \in start : queue[q].lifecycle = "active"
    <3>1. /\ t \in Tx /\ t.at = "started" /\ t.seen = tx[m].seen /\ t.cases = start
          /\ t.share = tx[m].share /\ t.update = tx[m].update
      BY <1>0, <2>2 DEF Tx
    <3>2. tx' = [tx EXCEPT ![m] = t] /\ UNCHANGED <<current, version, queue, merchant>>
      BY <1>0, <1>2, <2>4 DEF StartCases, TypeOK, Tx
    <3> HIDE DEF t
    <3>3. tx' \in [Actors -> Tx] /\ Only(m) /\ tx'[m] = t
      BY <1>0, <3>1, <3>2, GoesOn
    <3>4. Holds(m)'
      BY <2>1, <2>2, <3>1, <3>2, <3>3 DEF Holds, Publishing, Submitting, Administering
    <3>5. \A b \in Actors : b # m =>
            /\ tx[m].update \cap (tx[b].update \cup tx[b].share) = {}
            /\ tx[b].update \cap tx[m].share = {}
      BY <1>0 DEF Versioned, RowsExclude
    <3> QED BY <1>0, <3>1, <3>2, <3>3, <3>4, <3>5, Keeps
  <2> QED BY <1>2, <2>3, <2>4 DEF StartCases
<1>3. CASE SubmitCommit(m)
  <2>1. tx' \in [Actors -> Tx] /\ Only(m) /\ tx'[m] = Idle
    BY <1>0, <1>3, Ends DEF SubmitCommit
  <2>2. UNCHANGED <<current, version, queue>>
    BY <1>3 DEF SubmitCommit
  <2>3. merchant' \in [Merchants -> [version : {0} \cup Versions, cases : SUBSET Queues, open : BOOLEAN]]
    BY <1>0, <1>3 DEF SubmitCommit, TypeOK, Tx
  <2>4. TypeOK'
    BY <1>0, <2>1, <2>2, <2>3 DEF TypeOK, Versions, Lifecycles, Actors,
       Tx, Rows
  <2>5. RowsExclude'
    BY <1>0, <2>1, IdleIs, ExcludeStep DEF Versioned
  <2>6. ASSUME NEW b \in Actors, b # m PROVE Holds(b)'
    <3>1. Holds(b) /\ tx'[b] = tx[b]
      BY <2>1, <2>6 DEF Versioned, Only
    <3>2. Publishing(b)'
      BY <2>2, <3>1 DEF Holds, Publishing, Named, RulePairs
    <3>3. Submitting(b)' /\ Administering(b)'
      BY <2>2, <3>1 DEF Holds, Submitting, Administering
    <3> QED BY <3>2, <3>3 DEF Holds
  <2>7. Holds(m)'
    BY <2>1, IdleIs DEF Holds, Publishing, Submitting, Administering
  <2> QED BY <2>2, <2>4, <2>5, <2>6, <2>7 DEF Versioned, Actors
<1>4. CASE FlowEnds(m)
  <2>1. UNCHANGED <<current, version, queue, tx>>
    BY <1>4 DEF FlowEnds
  <2>2. merchant' \in [Merchants -> [version : {0} \cup Versions, cases : SUBSET Queues,
                                    open : BOOLEAN]]
    BY <1>0, <1>4 DEF FlowEnds, TypeOK
  <2>3. TypeOK'
    BY <1>0, <2>1, <2>2 DEF TypeOK, Versions, Lifecycles, Actors, Tx, Rows
  <2> QED BY <2>1, <2>3 DEF Versioned, RowsExclude, Holds, Publishing, Submitting,
          Administering, Actors, Named, RulePairs
<1> QED BY <1>1, <1>2, <1>3, <1>4

LEMMA VersionedInit == Init => Versioned
<1> SUFFICES ASSUME Init PROVE Versioned
  OBVIOUS
<1>1. 1 \in 1 .. MaxVersions /\ version \in [1 .. 1 -> Drafts \cup {Baseline}] /\ Len(version) = 1
  BY FlowVersionsAssumption DEF Init
<1>2. tx \in [Actors -> Tx] /\ \A a \in Actors : tx[a] = Idle
  BY IdleIs DEF Init
<1>3. TypeOK
  <2>1. current \in [active : Versions, revision : Nat]
    BY <1>1 DEF Init, Versions
  <2>2. queue \in [Queues -> [lifecycle : Lifecycles, revision : Nat]]
    BY DEF Init, Lifecycles
  <2>3. merchant \in [Merchants -> [version : {0} \cup Versions, cases : SUBSET Queues, open : BOOLEAN]]
    BY DEF Init, Unsubmitted
  <2> QED BY <1>1, <1>2, <2>1, <2>2, <2>3 DEF TypeOK, Versions
<1>4. current.active = Len(version)
  BY <1>1 DEF Init
<1>5. RowsExclude /\ \A a \in Actors : Holds(a)
  BY <1>2, IdleIs DEF RowsExclude, Holds, Publishing, Submitting, Administering
<1> QED BY <1>3, <1>4, <1>5 DEF Versioned

LEMMA VersionedStep ==
  Versioned /\ [Next]_vars => Versioned'
<1> SUFFICES ASSUME Versioned, [Next]_vars
             PROVE  Versioned'
  OBVIOUS
<1>1. ASSUME NEW e \in Editors,
             \/ PublishCheck(e) \/ PublishCommit(e) \/ \E shown \in Versions : Load(e, shown)
             \/ \E draft \in Drafts \cup {Baseline} : PublishLock(e, draft)
             \/ \E next \in Queues : Visit(e, next)
             \/ Leave(e) \/ NextGraph(e)
      PROVE  Versioned'
  BY <1>1, EditorStep, PublishStep
<1>2. ASSUME NEW a \in Admins, NEW q \in Queues,
             \/ UpdateQueueSla(a, q)
             \/ \E next \in Lifecycles :
                  \/ UpdateQueueStatus(a, q, next)
                  \/ \E loaded \in 1 .. MaxRevision : UpdateQueue(a, q, next, loaded)
      PROVE  Versioned'
  <2>1. queue[q].lifecycle \in Lifecycles /\ queue[q].revision \in Nat
    BY DEF Versioned, TypeOK
  <2>2. CASE UpdateQueueSla(a, q)
    BY <2>1, <2>2, ReadStep DEF UpdateQueueSla
  <2>3. ASSUME NEW next \in Lifecycles, UpdateQueueStatus(a, q, next)
        PROVE  Versioned'
    BY <2>1, <2>3, ReadStep DEF UpdateQueueStatus
  <2>4. ASSUME NEW next \in Lifecycles, NEW loaded \in 1 .. MaxRevision,
               UpdateQueue(a, q, next, loaded)
        PROVE  Versioned'
    BY <2>1, <2>4, ReadStep DEF UpdateQueue
  <2> QED BY <1>2, <2>2, <2>3, <2>4
<1>3. ASSUME NEW a \in Admins, BumpRevision(a) \/ QueueCommit(a)
      PROVE  Versioned'
  BY <1>3, BumpStep, QueueStep
<1>4. ASSUME NEW m \in Merchants, Pin(m) \/ StartCases(m) \/ SubmitCommit(m) \/ FlowEnds(m)
      PROVE  Versioned'
  BY <1>4, SubmissionStep
<1>5. ASSUME NEW a \in Actors, Dies(a) PROVE Versioned'
  BY <1>5, StopStep DEF Dies
<1>6. CASE UNCHANGED vars
  BY <1>6 DEF vars, Versioned, TypeOK, RowsExclude, Holds, Publishing, Submitting,
     Administering, Versions, Lifecycles, Actors, Tx, Rows,
     Named, RulePairs
<1> QED BY <1>1, <1>2, <1>3, <1>4, <1>5, <1>6 DEF Next
(* The versions, queues and submissions stay what they are.                 *)
THEOREM VersionsStayTyped ==
  Spec => []TypeOK
<1>1. Versioned => TypeOK
  BY DEF Versioned
<1> QED BY <1>1, VersionedInit, VersionedStep, PTL DEF Spec

(* What steps the versions, and how. *)
LEMMA VersionMoves ==
  ASSUME Versioned, [Next]_vars
  PROVE  \/ UNCHANGED <<current, version>>
         \/ \E e \in Editors : PublishCommit(e)
  BY DEF Next, vars, Load, PublishCheck, PublishLock, Visit, Leave, NextGraph, UpdateQueueSla,
     UpdateQueueStatus, UpdateQueue, ReadQueue, BumpRevision, QueueCommit,
     Pin, StartCases, SubmitCommit, FlowEnds, Dies

LEMMA MerchantMoves ==
  ASSUME Versioned, [Next]_vars
  PROVE  \/ UNCHANGED merchant
         \/ \E m \in Merchants : SubmitCommit(m) \/ FlowEnds(m)
  BY DEF Next, vars, Load, PublishCheck, PublishLock, Visit, Leave, NextGraph, UpdateQueueSla,
     UpdateQueueStatus, UpdateQueue, ReadQueue, BumpRevision, QueueCommit,
     Pin, StartCases, PublishCommit, Dies

(* A merchant is pinned to the version that is active at its commit, and    *)
(* has the start cases of that version (0075_case_flow_versions.sql:91).    *)
THEOREM MerchantsArePinned ==
  Spec => PinnedToActive
<1>1. Versioned /\ [Next]_vars =>
        [\A m \in Merchants : merchant[m] = Unsubmitted /\ merchant'[m] # Unsubmitted =>
           /\ merchant'[m].version = current'.active
           /\ merchant'[m].cases = version'[current'.active].start]_vars
  <2> SUFFICES ASSUME Versioned, [Next]_vars,
                      NEW m \in Merchants, merchant[m] = Unsubmitted, merchant'[m] # Unsubmitted
               PROVE  /\ merchant'[m].version = current'.active
                      /\ merchant'[m].cases = version'[current'.active].start
    OBVIOUS
  <2>1. PICK k \in Merchants : SubmitCommit(k)
    <3>1. ASSUME NEW k \in Merchants, FlowEnds(k) PROVE merchant'[m] = merchant[m]
      <4>1. merchant[k].open /\ ~merchant[m].open
        BY <3>1 DEF FlowEnds, Unsubmitted
      <4> QED BY <3>1, <4>1 DEF FlowEnds, Versioned, TypeOK
    <3> QED BY <3>1, MerchantMoves
  <2>2. /\ k = m
        /\ merchant'[m] = [version |-> tx[m].seen, cases |-> tx[m].cases, open |-> TRUE]
    BY <2>1 DEF SubmitCommit, Versioned, TypeOK
  <2>3. tx[m].at = "started" /\ UNCHANGED <<current, version>>
    BY <2>1, <2>2 DEF SubmitCommit
  <2>4. Holds(m)
    BY DEF Versioned, Actors
  <2> QED BY <2>2, <2>3, <2>4 DEF Holds, Submitting
<1> QED BY <1>1, VersionedInit, VersionedStep, PTL DEF Spec, PinnedToActive

(* The rules a merchant is pinned to never change: neither its pin nor the  *)
(* version. CaseFlow, which takes them as constants, relies on it.          *)
RulesStay ==
  \A m \in Merchants : merchant[m].version # 0 =>
    /\ merchant'[m].version = merchant[m].version
    /\ version'[merchant[m].version] = version[merchant[m].version]

THEOREM RulesOfAMerchantNeverChange ==
  Spec => [][RulesStay]_vars
<1> DEFINE Pinned == \A m \in Merchants :
             /\ merchant[m].version <= Len(version)
             /\ merchant[m].version # 0 => tx[m].at \notin {"pinned", "started"}
<1>1. Init => Pinned
  BY IdleIs DEF Init, Unsubmitted, Actors
<1>2. Versioned /\ Pinned /\ [Next]_vars => Pinned' /\ [RulesStay]_vars
  <2> SUFFICES ASSUME Versioned, Pinned, [Next]_vars PROVE Pinned' /\ RulesStay
    OBVIOUS
  <2>1. /\ TypeOK /\ current.active = Len(version) /\ Len(version) \in Nat
        /\ \A m \in Merchants : m \in Actors /\ merchant[m].version \in Nat
    BY VersionIs DEF Versioned, TypeOK, Versions, Actors
  <2>2. /\ Len(version') \in Nat /\ Len(version) <= Len(version')
        /\ \A v \in 1 .. Len(version) : version'[v] = version[v]
    <3>1. CASE UNCHANGED <<current, version>>
      BY <2>1, <3>1
    <3>2. ASSUME NEW e \in Editors, PublishCommit(e)
          PROVE  /\ Len(version') = Len(version) + 1
                 /\ \A v \in 1 .. Len(version) : version'[v] = version[v]
      <4>1. tx[e].draft \in Drafts \cup {Baseline} /\ Len(version) < MaxVersions
        BY <3>2 DEF PublishCommit, Versioned, Actors, Holds, Publishing
      <4> QED BY <2>1, <3>2, <4>1, AppendIs, FlowVersionsAssumption DEF PublishCommit
    <3> QED BY <2>1, <3>1, <3>2, VersionMoves
  <2>3. ASSUME NEW m \in Merchants, merchant'[m] = merchant[m]
        PROVE  /\ merchant'[m].version <= Len(version')
               /\ merchant[m].version # 0 => version'[merchant[m].version] = version[merchant[m].version]
    BY <2>1, <2>2, <2>3
  <2>4. CASE \E k \in Merchants : SubmitCommit(k)
    <3>1. PICK k \in Merchants : SubmitCommit(k)
      BY <2>4
    <3>2. /\ tx[k].at = "started" /\ tx'[k].at = "idle" /\ UNCHANGED version
          /\ merchant'[k].version = current.active /\ merchant[k].version = 0
          /\ \A m \in Merchants : m # k => merchant'[m] = merchant[m] /\ tx'[m] = tx[m]
      <4>1. tx[k].at = "started" /\ tx[k].seen = current.active
        BY <2>1, <3>1 DEF SubmitCommit, Versioned, Holds, Submitting
      <4>2. tx' = [tx EXCEPT ![k] = Idle]
        BY <3>1 DEF SubmitCommit, Stop
      <4> QED BY <2>1, <3>1, <4>1, <4>2, IdleIs DEF SubmitCommit, TypeOK
    <3>3. Pinned'
      BY <2>1, <2>3, <3>2
    <3>4. RulesStay
      BY <2>3, <3>2 DEF RulesStay
    <3> QED BY <3>3, <3>4
  <2>5. CASE UNCHANGED merchant
    <3>1. ASSUME NEW m \in Merchants, merchant[m].version # 0
          PROVE  tx'[m].at \notin {"pinned", "started"}
      <4>1. tx[m].at \notin {"pinned", "started"} /\ merchant[m] # Unsubmitted
        BY <3>1 DEF Unsubmitted
      <4>2. tx[m] \in Tx /\ tx \in [Actors -> Tx]
        BY <2>1 DEF TypeOK
      <4>3. ASSUME NEW a \in Actors, Stop(a) PROVE tx'[m].at \notin {"pinned", "started"}
        BY <2>1, <4>1, <4>3, Ends, IdleIs DEF Only
      <4>4. ASSUME NEW e \in Editors,
                   \/ PublishCheck(e) \/ PublishCommit(e)
                   \/ \E shown \in Versions : Load(e, shown)
                   \/ \E draft \in Drafts \cup {Baseline} : PublishLock(e, draft)
                   \/ \E next \in Queues : Visit(e, next)
                   \/ Leave(e) \/ NextGraph(e)
            PROVE  tx'[m].at \notin {"pinned", "started"}
        <5>1. ASSUME NEW shown, Load(e, shown)
              PROVE  tx'[m].at \notin {"pinned", "started"}
          BY <4>1, <4>2, <5>1 DEF Load, Idle, Actors
        <5>2. CASE PublishCheck(e)
          BY <4>1, <4>2, <4>3, <5>2 DEF PublishCheck, Tx, Actors
        <5>3. CASE PublishCommit(e)
          BY <4>3, <5>3 DEF PublishCommit, Actors
        <5>4. ASSUME NEW draft \in Drafts \cup {Baseline}, PublishLock(e, draft)
              PROVE  tx'[m].at \notin {"pinned", "started"}
          BY <4>1, <4>2, <4>3, <5>4 DEF PublishLock, Tx, Actors
        <5>5. ASSUME tx[e].at = "searching", NEW t \in Tx, tx' = [tx EXCEPT ![e] = t],
                     t.at \in {"searching", "circular", "valid"}
              PROVE  tx'[m].at \notin {"pinned", "started"}
          BY <4>1, <4>2, <5>5 DEF Actors
        <5>6. CASE \E next \in Queues : Visit(e, next)
          BY <2>1, <5>5, <5>6, VisitIs DEF GoesOnSearching
        <5>7. CASE Leave(e)
          BY <2>1, <5>5, <5>7, LeaveIs DEF GoesOnSearching
        <5>8. CASE NextGraph(e)
          BY <2>1, <4>3, <5>5, <5>8, NextGraphIs DEF GoesOnSearching, Actors
        <5> QED BY <4>4, <5>1, <5>2, <5>3, <5>4, <5>6, <5>7, <5>8
      <4>5. ASSUME NEW a \in Admins, NEW q \in Queues, NEW next, NEW n, ReadQueue(a, q, next, n)
            PROVE  tx'[m].at \notin {"pinned", "started"}
        BY <4>1, <4>2, <4>5 DEF ReadQueue, Idle, Tx, Actors
      <4>6. ASSUME NEW a \in Admins, BumpRevision(a) \/ QueueCommit(a)
            PROVE  tx'[m].at \notin {"pinned", "started"}
        BY <4>1, <4>2, <4>3, <4>6 DEF BumpRevision, QueueCommit, Tx, Actors
      <4>7. ASSUME NEW k \in Merchants, Pin(k) \/ StartCases(k) \/ SubmitCommit(k) \/ FlowEnds(k)
            PROVE  tx'[m].at \notin {"pinned", "started"}
        <5>1. CASE k = m
          BY <4>1, <4>3, <4>7, <5>1, <2>1 DEF Pin, StartCases, SubmitCommit, FlowEnds
        <5>2. CASE k # m
          BY <4>1, <4>2, <4>3, <4>7, <5>2, <2>1 DEF Pin, StartCases, SubmitCommit, FlowEnds
        <5> QED BY <5>1, <5>2
      <4>8. CASE UNCHANGED vars
        BY <4>1, <4>8 DEF vars
      <4> QED BY <4>3, <4>4, <4>5, <4>6, <4>7, <4>8 DEF Next, Dies, UpdateQueueSla,
              UpdateQueueStatus, UpdateQueue
    <3> QED BY <2>3, <2>5, <3>1 DEF RulesStay
  <2>6. CASE \E k \in Merchants : FlowEnds(k)
    <3>1. PICK k \in Merchants : FlowEnds(k)
      BY <2>6
    <3>2. UNCHANGED <<version, tx>> /\ \A m \in Merchants : merchant'[m].version = merchant[m].version
      BY <2>1, <3>1 DEF FlowEnds, TypeOK
    <3> QED BY <3>2 DEF RulesStay
  <2> QED BY <2>4, <2>5, <2>6, MerchantMoves
<1> QED BY <1>1, <1>2, VersionedInit, VersionedStep, PTL DEF Spec

-----------------------------------------------------------------------------
(* The search is exact *)

LEMMA EdgesStay ==
  ASSUME NEW s, NEW t, t.draft = s.draft, t.graph = s.graph
  PROVE  Edges(t) = Edges(s)
  BY DEF Edges

(* A node is put on the path over an edge from the last one. *)
LEMMA ChainGrows ==
  ASSUME NEW s \in Tx, NEW next \in Queues, Chained(Edges(s), s.path), next \in ToVisit(s)
  PROVE  Chained(Edges(s), Append(s.path, next))
<1> DEFINE path == Append(s.path, next)
<1>1. /\ Len(s.path) \in Nat /\ Len(path) = Len(s.path) + 1 /\ path[Len(s.path) + 1] = next
      /\ \A i \in 1 .. Len(s.path) : path[i] = s.path[i]
  BY AppendProperties, LenProperties DEF Tx
<1> HIDE DEF path
<1> SUFFICES ASSUME NEW i \in 1 .. Len(path) - 1 PROVE <<path[i], path[i + 1]>> \in Edges(s)
  BY DEF Chained, path
<1>2. CASE i = Len(s.path)
  <2>1. s.path # <<>>
    BY <1>1, <1>2
  <2>2. <<s.path[i], next>> \in Edges(s)
    BY <1>2, <2>1 DEF ToVisit, Adjacent, Node
  <2> QED BY <1>1, <1>2, <2>2
<1>3. CASE i # Len(s.path)
  <2>1. i \in 1 .. Len(s.path) - 1 /\ i \in 1 .. Len(s.path) /\ i + 1 \in 1 .. Len(s.path)
    BY <1>1, <1>3
  <2>2. path[i] = s.path[i] /\ path[i + 1] = s.path[i + 1]
    BY <1>1, <2>1
  <2>3. <<s.path[i], s.path[i + 1]>> \in Edges(s)
    BY <2>1 DEF Chained
  <2> QED BY <2>2, <2>3
<1> QED BY <1>2, <1>3

(* A path without its last node. *)
LEMMA ButLast ==
  ASSUME NEW path \in Seq(Queues), path # <<>>
  PROVE  /\ Len(path) \in Nat \ {0}
         /\ Len(SubSeq(path, 1, Len(path) - 1)) = Len(path) - 1
         /\ \A i \in 1 .. Len(path) - 1 : SubSeq(path, 1, Len(path) - 1)[i] = path[i]
<1> DEFINE rest == SubSeq(path, 1, Len(path) - 1)
<1>1. Len(path) \in Nat \ {0}
  BY EmptySeq, LenProperties
<1>2. \A i \in 1 .. Len(path) - 1 : path[i] \in Queues
  BY <1>1, ElementOfSeq
<1>3. /\ Len(rest) = Len(path) - 1
      /\ \A i \in 1 .. Len(path) - 1 : rest[i] = path[i]
  <2>1. 1 \in Int /\ Len(path) - 1 \in Int
    BY <1>1
  <2>2. /\ Len(rest) = IF 1 <= Len(path) - 1 THEN Len(path) - 1 - 1 + 1 ELSE 0
        /\ \A i \in 1 .. Len(path) - 1 - 1 + 1 : rest[i] = path[1 + i - 1]
    BY <1>2, <2>1, SubSeqProperties
  <2>3. Len(path) - 1 - 1 + 1 = Len(path) - 1 /\ \A i \in Int : 1 + i - 1 = i
    BY <1>1
  <2>4. \A i \in 1 .. Len(path) - 1 : rest[i] = path[1 + i - 1]
    BY <2>2, <2>3
  <2> HIDE DEF rest
  <2>5. Len(rest) = Len(path) - 1
    <3>1. \A n \in Nat \ {0} : (IF 1 <= n - 1 THEN n - 1 - 1 + 1 ELSE 0) = n - 1
      OBVIOUS
    <3> QED BY <1>1, <2>2, <3>1, Zenon
  <2> QED BY <2>3, <2>4, <2>5
<1> QED BY <1>1, <1>3

LEMMA ChainShrinks ==
  ASSUME NEW edges, NEW path \in Seq(Queues), path # <<>>, Chained(edges, path)
  PROVE  Chained(edges, SubSeq(path, 1, Len(path) - 1))
<1> DEFINE rest == SubSeq(path, 1, Len(path) - 1)
<1>1. Len(path) \in Nat \ {0}
  BY ButLast
<1>3. /\ Len(rest) = Len(path) - 1
      /\ \A i \in 1 .. Len(path) - 1 : rest[i] = path[i]
  BY ButLast
<1> HIDE DEF rest
<1> SUFFICES ASSUME NEW i \in 1 .. Len(rest) - 1 PROVE <<rest[i], rest[i + 1]>> \in edges
  BY DEF Chained, rest
<1>4. i \in 1 .. Len(path) - 1 /\ i + 1 \in 1 .. Len(path) - 1
  BY <1>1, <1>3
<1> QED BY <1>3, <1>4 DEF Chained

(* A step knows what its own transaction knows. *)
LEMMA SearchedKeeps ==
  ASSUME Searched, NEW a \in Actors, Only(a), Knows(tx'[a])
  PROVE  Searched'
<1> SUFFICES ASSUME NEW b \in Actors PROVE Knows(tx'[b])
  BY DEF Searched, Actors
<1>1. CASE b = a
  BY <1>1
<1>2. CASE b # a
  BY <1>2 DEF Searched, Only
<1> QED BY <1>1, <1>2

LEMMA VisitKnows ==
  ASSUME TypeOK, Searched, NEW e \in Editors, NEW next \in Queues, Visit(e, next)
  PROVE  Searched'
<1>0. e \in Actors /\ tx[e] \in Tx /\ tx[e].at = "searching" /\ next \in ToVisit(tx[e])
  BY VisitIs DEF Actors, TypeOK
<1>1. Explored(Edges(tx[e]), tx[e].visited) /\ Chained(Edges(tx[e]), tx[e].path)
  BY <1>0 DEF Searched, Knows
<1>2. PICK t \in Tx :
        /\ tx' = [tx EXCEPT ![e] = t]
        /\ GoesOnSearching(tx[e], t) /\ t.graph = tx[e].graph /\ t.visited = tx[e].visited
        /\ \/ t.at = "searching" /\ t.path = Append(tx[e].path, next)
           \/ \E start \in DOMAIN tx[e].path :
                /\ tx[e].path[start] = next /\ t.at = "circular"
                /\ t.path = Append(SubSeq(tx[e].path, start, Len(tx[e].path)), next)
  BY VisitIs
<1>3. Only(e) /\ tx'[e] = t
  BY <1>0, <1>2, GoesOn
<1>4. t.draft = tx[e].draft /\ Edges(t) = Edges(tx[e])
  BY <1>2, EdgesStay DEF GoesOnSearching
<1>5. CASE t.at = "searching" /\ t.path = Append(tx[e].path, next)
  <2>1. Chained(Edges(tx[e]), Append(tx[e].path, next))
    BY <1>0, <1>1, ChainGrows
  <2>2. Knows(t)
    BY <1>1, <1>2, <1>4, <1>5, <2>1 DEF Knows
  <2> QED BY <1>0, <1>3, <2>2, SearchedKeeps
<1>6. ASSUME NEW start \in DOMAIN tx[e].path, tx[e].path[start] = next, t.at = "circular",
             t.path = Append(SubSeq(tx[e].path, start, Len(tx[e].path)), next)
      PROVE  Searched'
  <2>1. IsCircle(tx[e].draft, Append(SubSeq(tx[e].path, start, Len(tx[e].path)), next))
    BY <1>0, <1>1, <1>6, ChainCloses
  <2>2. Knows(t)
    BY <1>4, <1>6, <2>1 DEF Knows
  <2> QED BY <1>0, <1>3, <2>2, SearchedKeeps
<1> QED BY <1>2, <1>5, <1>6

LEMMA LeaveKnows ==
  ASSUME TypeOK, Searched, NEW e \in Editors, Leave(e)
  PROVE  Searched'
<1>0. /\ e \in Actors /\ tx[e] \in Tx /\ tx[e].at = "searching" /\ ToVisit(tx[e]) = {}
      /\ tx[e].path # <<>> /\ Node(tx[e]) \in Queues
  BY LeaveIs DEF Actors, TypeOK
<1>1. Explored(Edges(tx[e]), tx[e].visited) /\ Chained(Edges(tx[e]), tx[e].path)
  BY <1>0 DEF Searched, Knows
<1>2. PICK t \in Tx :
        /\ tx' = [tx EXCEPT ![e] = t]
        /\ GoesOnSearching(tx[e], t) /\ t.graph = tx[e].graph /\ t.at = "searching"
        /\ t.path = SubSeq(tx[e].path, 1, Len(tx[e].path) - 1)
        /\ t.visited = tx[e].visited \cup {Node(tx[e])}
  BY LeaveIs
<1>3. Only(e) /\ tx'[e] = t
  BY <1>0, <1>2, GoesOn
<1>4. Edges(t) = Edges(tx[e])
  BY <1>2, EdgesStay DEF GoesOnSearching
<1>5. Adjacent(Edges(tx[e]), Node(tx[e])) \subseteq tx[e].visited
  BY <1>0 DEF ToVisit
<1>6. Explored(Edges(tx[e]), tx[e].visited \cup {Node(tx[e])})
  <2>1. tx[e].visited \in SUBSET Queues
    BY <1>0 DEF Tx
  <2> QED BY <1>0, <1>1, <1>5, <2>1, ExploredGrows
<1>7. Chained(Edges(tx[e]), SubSeq(tx[e].path, 1, Len(tx[e].path) - 1))
  <2>1. tx[e].path \in Seq(Queues)
    BY <1>0 DEF Tx
  <2> QED BY <1>0, <1>1, <2>1, ChainShrinks
<1>8. Knows(t)
  BY <1>2, <1>4, <1>6, <1>7 DEF Knows
<1> QED BY <1>0, <1>3, <1>8, SearchedKeeps

(* Nothing is visited and there is no path yet. *)
LEMMA SearchStarts ==
  ASSUME NEW t, t.at = "searching", t.visited = {}, t.path = <<>>
  PROVE  Knows(t)
<1>1. Explored(Edges(t), t.visited)
  BY DEF Explored
<1>2. Chained(Edges(t), t.path)
  BY DEF Chained
<1> QED BY <1>1, <1>2 DEF Knows

LEMMA NextGraphKnows ==
  ASSUME TypeOK, Searched, NEW e \in Editors, NextGraph(e)
  PROVE  Searched'
<1>0. /\ e \in Actors /\ tx[e] \in Tx /\ tx[e].at = "searching" /\ ToVisit(tx[e]) = {}
      /\ tx[e].path = <<>>
  BY NextGraphIs DEF Actors, TypeOK
<1>1. CASE Stop(e)
  <2>1. Only(e) /\ Knows(tx'[e])
    BY <1>0, <1>1, Ends, IdleIs DEF Knows
  <2> QED BY <1>0, <2>1, SearchedKeeps
<1>2. ASSUME NEW t \in Tx, tx' = [tx EXCEPT ![e] = t], GoesOnSearching(tx[e], t),
             t.path = tx[e].path, t.visited = {},
             t.at = "searching" \/ (t.at = "valid" /\ tx[e].graph = 3)
      PROVE  Searched'
  <2>1. Only(e) /\ tx'[e] = t
    BY <1>0, <1>2, GoesOn
  <2>2. CASE t.at = "searching"
    <3>1. Knows(t)
      BY <1>0, <1>2, <2>2, SearchStarts
    <3> QED BY <1>0, <2>1, <3>1, SearchedKeeps
  <2>3. CASE t.at = "valid" /\ tx[e].graph = 3
    <3>1. Explored(Edges(tx[e]), tx[e].visited) /\ From(Edges(tx[e])) \subseteq tx[e].visited
      BY <1>0 DEF Searched, Knows, ToVisit
    <3>2. ~CircularWait(tx[e].draft)
      BY <1>0, <2>3, <3>1, ExploredAll
    <3>3. Knows(t)
      BY <1>2, <2>3, <3>2 DEF Knows, GoesOnSearching
    <3> QED BY <1>0, <2>1, <3>3, SearchedKeeps
  <2> QED BY <1>2, <2>2, <2>3
<1> QED BY <1>1, <1>2, NextGraphIs

(* No other step is one of the search. *)
LEMMA SearchMoves ==
  ASSUME TypeOK, [Next]_vars
  PROVE  \/ \E e \in Editors : Leave(e) \/ NextGraph(e) \/ \E next \in Queues : Visit(e, next)
         \/ \E e \in Editors : PublishCheck(e) /\ QueuesUsable(tx[e].draft)
         \/ tx' = tx
         \/ \E a \in Actors : /\ Only(a)
                            /\ tx'[a].at \notin {"searching", "circular", "valid"}
<1>0. tx \in [Actors -> Tx]
  BY DEF TypeOK
<1>1. ASSUME NEW a \in Actors, Stop(a)
      PROVE  Only(a) /\ tx'[a].at \notin {"searching", "circular", "valid"}
  BY <1>1, Ends, IdleIs
<1>2. ASSUME NEW a \in Actors, NEW t, t.at \notin {"searching", "circular", "valid"},
             tx' = [tx EXCEPT ![a] = t]
      PROVE  Only(a) /\ tx'[a].at \notin {"searching", "circular", "valid"}
  BY <1>0, <1>2 DEF Only
<1>3. ASSUME NEW e \in Editors, NEW shown, Load(e, shown)
      PROVE  Only(e) /\ tx'[e].at \notin {"searching", "circular", "valid"}
  BY <1>0, <1>3 DEF Load, Idle, Only, Actors
<1>4. ASSUME NEW e \in Editors, NEW draft \in Drafts \cup {Baseline}, PublishLock(e, draft)
      PROVE  Only(e) /\ tx'[e].at \notin {"searching", "circular", "valid"}
  BY <1>0, <1>1, <1>4 DEF PublishLock, Only, Actors, Tx
<1>5. ASSUME NEW e \in Editors, PublishCheck(e), ~QueuesUsable(tx[e].draft)
      PROVE  Only(e) /\ tx'[e].at \notin {"searching", "circular", "valid"}
  BY <1>1, <1>5 DEF PublishCheck, Actors
<1>6. ASSUME NEW a \in Admins, NEW q, NEW next, NEW n, ReadQueue(a, q, next, n)
      PROVE  Only(a) /\ tx'[a].at \notin {"searching", "circular", "valid"}
  BY <1>0, <1>6 DEF ReadQueue, Idle, Only, Actors
<1>7. ASSUME NEW a \in Admins, BumpRevision(a) \/ QueueCommit(a)
      PROVE  Only(a) /\ tx'[a].at \notin {"searching", "circular", "valid"}
  <2>1. CASE BumpRevision(a)
    BY <1>0, <1>1, <2>1 DEF BumpRevision, Only, Actors, Tx
  <2>2. CASE QueueCommit(a)
    BY <1>1, <2>2 DEF QueueCommit, Actors
  <2> QED BY <1>7, <2>1, <2>2
<1>8. ASSUME NEW m \in Merchants, Pin(m) \/ StartCases(m) \/ SubmitCommit(m)
      PROVE  Only(m) /\ tx'[m].at \notin {"searching", "circular", "valid"}
  <2>1. CASE Pin(m)
    BY <1>0, <2>1 DEF Pin, Idle, Only, Actors
  <2>2. CASE StartCases(m)
    BY <1>0, <1>1, <2>2 DEF StartCases, Only, Actors, Tx
  <2>3. CASE SubmitCommit(m)
    BY <1>1, <2>3 DEF SubmitCommit, Actors
  <2> QED BY <1>8, <2>1, <2>2, <2>3
<1>9. Editors \subseteq Actors /\ Admins \subseteq Actors /\ Merchants \subseteq Actors
  BY DEF Actors
<1>10. CASE \E e \in Editors : \/ PublishCheck(e) \/ PublishCommit(e)
                               \/ \E shown \in Versions : Load(e, shown)
                               \/ \E draft \in Drafts \cup {Baseline} : PublishLock(e, draft)
                               \/ \E next \in Queues : Visit(e, next)
                               \/ Leave(e) \/ NextGraph(e)
  BY <1>1, <1>3, <1>4, <1>5, <1>9, <1>10 DEF PublishCommit
<1>11. CASE \E a \in Admins : \/ BumpRevision(a) \/ QueueCommit(a)
                              \/ \E q \in Queues : UpdateQueueSla(a, q)
                              \/ \E q \in Queues, next \in Lifecycles :
                                   \/ UpdateQueueStatus(a, q, next)
                                   \/ \E loaded \in 1 .. MaxRevision : UpdateQueue(a, q, next, loaded)
  BY <1>6, <1>7, <1>9, <1>11 DEF UpdateQueueSla, UpdateQueueStatus, UpdateQueue
<1>12. CASE \E m \in Merchants : Pin(m) \/ StartCases(m) \/ SubmitCommit(m) \/ FlowEnds(m)
  BY <1>8, <1>9, <1>12 DEF FlowEnds
<1>13. CASE \E a \in Actors : Dies(a)
  BY <1>1, <1>13 DEF Dies
<1>14. CASE UNCHANGED vars
  BY <1>14 DEF vars
<1> QED BY <1>10, <1>11, <1>12, <1>13, <1>14 DEF Next

LEMMA SearchedStep == Versioned /\ Searched /\ [Next]_vars => Searched'
<1> SUFFICES ASSUME Versioned, Searched, [Next]_vars PROVE Searched'
  OBVIOUS
<1>0. TypeOK
  BY DEF Versioned
<1>1. ASSUME NEW e \in Editors,
             Leave(e) \/ NextGraph(e) \/ \E next \in Queues : Visit(e, next)
      PROVE  Searched'
  BY <1>0, <1>1, VisitKnows, LeaveKnows, NextGraphKnows
<1>2. ASSUME NEW e \in Editors, PublishCheck(e), QueuesUsable(tx[e].draft) PROVE Searched'
  <2>1. /\ e \in Actors /\ tx[e] \in Tx /\ tx \in [Actors -> Tx] /\ Holds(e)
        /\ tx[e].at = "checking"
    BY <1>2 DEF Versioned, TypeOK, Actors, PublishCheck
  <2>2. tx[e].visited = {} /\ tx[e].path = <<>>
    BY <2>1 DEF Holds, Publishing
  <2> DEFINE t == [tx[e] EXCEPT !.at = "searching", !.share = QueueLocks(e)]
  <2>3. t.at = "searching" /\ t.visited = {} /\ t.path = <<>>
    BY <2>1, <2>2 DEF Tx
  <2>4. tx' = [tx EXCEPT ![e] = t]
    BY <1>2, <2>1 DEF PublishCheck, Tx
  <2> HIDE DEF t
  <2>5. Knows(t) /\ Only(e) /\ tx'[e] = t
    BY <2>1, <2>3, <2>4, SearchStarts DEF Only
  <2> QED BY <2>1, <2>5, SearchedKeeps
<1>3. CASE tx' = tx
  BY <1>3 DEF Searched
<1>4. ASSUME NEW a \in Actors, Only(a), tx'[a].at \notin {"searching", "circular", "valid"}
      PROVE  Searched'
  BY <1>4, SearchedKeeps DEF Knows
<1> QED BY <1>0, <1>1, <1>2, <1>3, <1>4, SearchMoves

LEMMA SearchedInit == Init => Searched
<1> SUFFICES ASSUME Init, NEW a \in Actors PROVE Knows(tx[a])
  BY DEF Searched
<1>1. tx[a] = Idle
  BY DEF Init
<1> QED BY <1>1, IdleIs DEF Knows

(* The search for a cycle refuses rules only for a circle that waits, and   *)
(* lets pass none that has one: what ChecksAreExact says of the depth-first *)
(* search, for any number of queues and any rules (case-flow-graph.ts:30).  *)
THEOREM ChecksStayExact == Spec => []ChecksAreExact
<1>1. Versioned /\ Searched => ChecksAreExact
  <2> SUFFICES ASSUME Versioned, Searched, NEW e \in Editors
               PROVE  /\ tx[e].at = "circular" => /\ IsCircle(tx[e].draft, tx[e].path)
                                                  /\ CircularWait(tx[e].draft)
                      /\ tx[e].at = "valid" => ~CircularWait(tx[e].draft)
    BY DEF ChecksAreExact
  <2>1. Knows(tx[e]) /\ tx[e].path \in Seq(Queues)
    BY DEF Versioned, Searched, TypeOK, Actors, Tx
  <2> QED BY <2>1, CirclesWait DEF Knows
<1> QED BY <1>1, VersionedInit, VersionedStep, SearchedInit, SearchedStep, PTL DEF Spec

(* Queues that flows need. Which versions are unfinished changes with a     *)
(* publication and the end of a flow; a submission adds the active one.     *)
PinsExist == \A m \in Merchants : merchant[m].open => merchant[m].version \in 1 .. Len(version)

InUse == PinsExist /\ FlowsUsable

LEMMA InUseInit == Init => InUse
<1> SUFFICES ASSUME Init PROVE InUse
  OBVIOUS
<1>1. PinsExist /\ Unfinished = {1}
  BY DEF Init, Unsubmitted, PinsExist, Unfinished
<1>2. version[1] = Baseline
  BY DEF Init
<1> QED BY <1>1, <1>2 DEF InUse, FlowsUsable, Usable, Init

(* Flows stay usable while no queue of theirs changes its lifecycle.        *)
LEMMA UsableStays ==
  ASSUME NEW rules, Usable(rules),
         \A q \in Named(rules) : queue'[q].lifecycle = queue[q].lifecycle
  PROVE  Usable(rules)'
  BY DEF Usable, Named, RulePairs

LEMMA InUseStep ==
  ASSUME Versioned, InUse, [Next]_vars
  PROVE  InUse'
<1>0. /\ TypeOK /\ current.active = Len(version) /\ Len(version) \in Nat
      /\ \A m \in Merchants : m \in Actors /\ Holds(m)
  BY VersionIs DEF Versioned, Actors
<1>1. ASSUME NEW e \in Editors, PublishCommit(e) PROVE InUse'
  <2>1. /\ Holds(e) /\ tx[e].at = "valid" /\ tx[e].draft \in Drafts \cup {Baseline}
        /\ Len(version) < MaxVersions
    BY <1>1 DEF Versioned, Actors, PublishCommit, Holds, Publishing
  <2>2. /\ Len(version') = Len(version) + 1 /\ version'[Len(version')] = tx[e].draft
        /\ \A v \in 1 .. Len(version) : version'[v] = version[v]
        /\ current'.active = Len(version') /\ UNCHANGED <<queue, merchant>>
    BY <1>0, <1>1, <2>1, AppendIs, FlowVersionsAssumption DEF PublishCommit
  <2>3. PinsExist'
    BY <1>0, <2>2 DEF InUse, PinsExist
  <2>4. Usable(tx[e].draft)
    BY <2>1 DEF Holds, Publishing, Usable
  <2>5. ASSUME NEW m \in Merchants, merchant[m].open
        PROVE  Usable(version'[merchant[m].version])
    <3>1. merchant[m].version \in 1 .. Len(version) /\ merchant[m].version \in Unfinished
      BY <2>5 DEF InUse, PinsExist, Unfinished
    <3>2. version'[merchant[m].version] = version[merchant[m].version]
      BY <2>2, <3>1
    <3> QED BY <3>1, <3>2 DEF InUse, FlowsUsable
  <2>6. FlowsUsable'
    <3>1. Unfinished' = {Len(version')} \cup {merchant[m].version : m \in {n \in Merchants : merchant[n].open}}
      BY <2>2 DEF Unfinished
    <3>2. ASSUME NEW v \in Unfinished' PROVE Usable(version'[v])
      BY <2>2, <2>4, <2>5, <3>1
    <3>3. ASSUME NEW v \in Unfinished', NEW q \in Named(version'[v])
          PROVE  queue'[q].lifecycle = "active"
      BY <2>2, <3>2, <3>3 DEF Usable
    <3> QED BY <3>3 DEF FlowsUsable, Usable, Named, RulePairs
  <2> QED BY <2>3, <2>6 DEF InUse
<1>2. ASSUME NEW a \in Admins, QueueCommit(a) PROVE InUse'
  <2>1. UNCHANGED <<current, version, merchant>>
    BY <1>2 DEF QueueCommit
  <2>2. ASSUME NEW v \in Unfinished, NEW q \in Named(version[v])
        PROVE  queue'[q].lifecycle = queue[q].lifecycle
    <3>1. CASE ChangesLifecycle(a) /\ Needed(tx[a].queue)
      BY <1>2, <3>1 DEF QueueCommit
    <3>2. CASE ~ChangesLifecycle(a)
      BY <1>0, <1>2, <3>2 DEF QueueCommit, ChangesLifecycle, TypeOK
    <3>3. CASE ~Needed(tx[a].queue)
      <4>1. q # tx[a].queue
        BY <3>3 DEF Needed
      <4> QED BY <1>0, <1>2, <4>1 DEF QueueCommit, TypeOK
    <3> QED BY <3>1, <3>2, <3>3
  <2>3. FlowsUsable'
    BY <2>1, <2>2 DEF InUse, FlowsUsable, Unfinished, Usable, Named, RulePairs
  <2> QED BY <2>1, <2>3 DEF InUse, PinsExist
<1>3. ASSUME NEW m \in Merchants, SubmitCommit(m) PROVE InUse'
  <2>1. tx[m].seen = current.active /\ UNCHANGED <<current, version, queue>>
    BY <1>0, <1>3 DEF SubmitCommit, Holds, Submitting
  <2>2. /\ merchant'[m].version = current.active
        /\ \A n \in Merchants : n # m => merchant'[n] = merchant[n]
    BY <1>0, <1>3, <2>1 DEF SubmitCommit, TypeOK
  <2>3. PinsExist'
    BY <1>0, <2>1, <2>2, VersionIs DEF InUse, PinsExist
  <2>4. Unfinished' \subseteq Unfinished
    BY <2>1, <2>2 DEF Unfinished
  <2>5. FlowsUsable'
    BY <2>1, <2>4 DEF InUse, FlowsUsable, Usable, Named, RulePairs
  <2> QED BY <2>3, <2>5 DEF InUse
<1>4. ASSUME NEW m \in Merchants, FlowEnds(m) PROVE InUse'
  <2>1. /\ UNCHANGED <<current, version, queue>>
        /\ \A n \in Merchants : /\ merchant'[n].version = merchant[n].version
                                /\ merchant'[n].open => merchant[n].open
    BY <1>0, <1>4 DEF FlowEnds, TypeOK
  <2>2. PinsExist'
    BY <2>1 DEF InUse, PinsExist
  <2>3. Unfinished' \subseteq Unfinished
    BY <2>1 DEF Unfinished
  <2>4. FlowsUsable'
    BY <2>1, <2>3 DEF InUse, FlowsUsable, Usable, Named, RulePairs
  <2> QED BY <2>2, <2>4 DEF InUse
<1>5. CASE UNCHANGED <<current, version, queue, merchant>>
  BY <1>5 DEF InUse, PinsExist, FlowsUsable, Unfinished, Usable, Named, RulePairs
<1>6. \/ UNCHANGED <<current, version, queue, merchant>>
      \/ \E e \in Editors : PublishCommit(e)
      \/ \E a \in Admins : QueueCommit(a)
      \/ \E m \in Merchants : SubmitCommit(m) \/ FlowEnds(m)
  BY DEF Next, vars, Load, PublishCheck, PublishLock, Visit, Leave, NextGraph, UpdateQueueSla,
     UpdateQueueStatus, UpdateQueue, ReadQueue, BumpRevision, Pin, StartCases, Dies
<1> QED BY <1>1, <1>2, <1>3, <1>4, <1>5, <1>6

(* What becomes active has no circle of queues that wait for one another    *)
(* and replaces what was active when its editor loaded; and the queues of   *)
(* the active version and of open flows are active, however editors         *)
(* publish, administrators retire queues and merchants submit beside one    *)
(* another (updateCaseFlowConfiguration, queues_protect_case_flow).         *)
THEOREM FlowsStayUsable ==
  Spec => FlowsStaySound
<1>1. Versioned /\ Searched /\ InUse /\ [Next]_vars =>
        /\ InUse'
        /\ [/\ Published => OnTop /\ ~CircularWait(version'[current'.active])
            /\ FlowsUsable']_vars
  <2> SUFFICES ASSUME Versioned, Searched, InUse, [Next]_vars
               PROVE  /\ InUse'
                      /\ Published => OnTop /\ ~CircularWait(version'[current'.active])
    BY DEF InUse
  <2>1. ASSUME Published PROVE OnTop /\ ~CircularWait(version'[current'.active])
    <3>1. PICK e \in Editors : PublishCommit(e)
      BY <2>1, VersionMoves DEF Published
    <3>2. Holds(e) /\ tx[e].at = "valid" /\ TypeOK /\ e \in Actors
      BY <3>1 DEF Versioned, Actors, PublishCommit
    <3>3. tx[e].draft \in Drafts \cup {Baseline} /\ Len(version) < MaxVersions
      BY <3>2, FlowVersionsAssumption DEF Holds, Publishing
    <3>4. version'[current'.active] = tx[e].draft
      BY <3>1, <3>2, <3>3, AppendIs, FlowVersionsAssumption DEF PublishCommit
    <3>5. OnTop
      BY <3>1, <3>2, Ends, IdleIs DEF OnTop, PublishCommit, Holds, Publishing
    <3>6. ~CircularWait(tx[e].draft)
      BY <3>2 DEF Searched, Knows
    <3> QED BY <3>4, <3>5, <3>6
  <2> QED BY <2>1, InUseStep
<1> QED BY <1>1, VersionedInit, VersionedStep, SearchedInit, SearchedStep, InUseInit, PTL
        DEF Spec, FlowsStaySound

-----------------------------------------------------------------------------
(* The search comes to an end *)

(* The path names no node twice and none that was left. *)
OnceOnPath(t) ==
  t.at = "searching" =>
    /\ \A i, j \in 1 .. Len(t.path) : t.path[i] = t.path[j] => i = j
    /\ \A i \in 1 .. Len(t.path) : t.path[i] \notin t.visited

Straight == \A a \in Actors : OnceOnPath(tx[a])

(* The next graph, or one more node left for good, or, with the same nodes  *)
(* left, a longer path.                                                     *)
Advances(s, t) ==
  \/ t.graph = s.graph + 1
  \/ /\ t.graph = s.graph
     /\ s.visited \subseteq t.visited /\ s.visited # t.visited
  \/ /\ t.graph = s.graph /\ t.visited = s.visited
     /\ \E next \in Queues : t.path = Append(s.path, next)

LEMMA StraightKeeps ==
  ASSUME Straight, NEW a \in Actors, Only(a), OnceOnPath(tx'[a])
  PROVE  Straight'
<1> SUFFICES ASSUME NEW b \in Actors PROVE OnceOnPath(tx'[b])
  BY DEF Straight, Actors
<1> QED BY DEF Straight, Only

LEMMA VisitAdvances ==
  ASSUME TypeOK, Straight, NEW e \in Editors, NEW next \in Queues, Visit(e, next)
  PROVE  /\ Only(e) /\ OnceOnPath(tx'[e])
         /\ tx'[e].at = "searching" => Advances(tx[e], tx'[e])
<1>0. /\ e \in Actors /\ tx[e] \in Tx /\ tx[e].at = "searching" /\ next \notin tx[e].visited
      /\ tx[e].path \in Seq(Queues)
  BY VisitIs DEF Actors, TypeOK, ToVisit, Tx
<1>1. PICK t \in Tx :
        /\ tx' = [tx EXCEPT ![e] = t]
        /\ GoesOnSearching(tx[e], t) /\ t.graph = tx[e].graph /\ t.visited = tx[e].visited
        /\ \/ t.at = "searching" /\ t.path = Append(tx[e].path, next)
           \/ \E start \in DOMAIN tx[e].path :
                /\ tx[e].path[start] = next /\ t.at = "circular"
                /\ t.path = Append(SubSeq(tx[e].path, start, Len(tx[e].path)), next)
  BY VisitIs
<1>2. Only(e) /\ tx'[e] = t
  BY <1>0, <1>1, GoesOn
<1>3. ASSUME t.at = "searching"
      PROVE  OnceOnPath(t) /\ Advances(tx[e], t)
  <2>1. t.path = Append(tx[e].path, next)
    BY <1>1, <1>3
  <2>2. /\ Len(tx[e].path) \in Nat /\ Len(t.path) = Len(tx[e].path) + 1
        /\ t.path[Len(tx[e].path) + 1] = next
        /\ \A i \in 1 .. Len(tx[e].path) : t.path[i] = tx[e].path[i]
    BY <1>0, <2>1, AppendProperties, LenProperties
  <2>3. \A i \in 1 .. Len(tx[e].path) : tx[e].path[i] # next
    <3>1. tx'[e].path = Append(tx[e].path, next) /\ tx'[e].at = "searching"
      BY <1>2, <1>3, <2>1
    <3>2. CASE \A i \in DOMAIN tx[e].path : tx[e].path[i] # next
      BY <1>0, <3>2, LenProperties
    <3>3. CASE \E start \in DOMAIN tx[e].path :
                 /\ tx[e].path[start] = next
                 /\ tx' = [tx EXCEPT ![e].at = "circular",
                           ![e].path = Append(SubSeq(tx[e].path, start, Len(tx[e].path)), next)]
      <4>1. tx'[e].at = "circular"
        BY <1>0, <3>3 DEF TypeOK, Tx
      <4> QED BY <3>1, <4>1
    <3> QED BY <3>2, <3>3 DEF Visit
  <2>4. /\ \A i, j \in 1 .. Len(tx[e].path) : tx[e].path[i] = tx[e].path[j] => i = j
        /\ \A i \in 1 .. Len(tx[e].path) : tx[e].path[i] \notin tx[e].visited
    BY <1>0 DEF Straight, OnceOnPath
  <2>5. ASSUME NEW i \in 1 .. Len(t.path)
        PROVE  i = Len(tx[e].path) + 1 \/ i \in 1 .. Len(tx[e].path)
    BY <2>2
  <2>6. OnceOnPath(t)
    <3>1. \A i, j \in 1 .. Len(t.path) : t.path[i] = t.path[j] => i = j
      BY <2>2, <2>3, <2>4, <2>5
    <3>2. \A i \in 1 .. Len(t.path) : t.path[i] \notin t.visited
      BY <1>0, <1>1, <2>2, <2>4, <2>5
    <3> QED BY <3>1, <3>2 DEF OnceOnPath
  <2> QED BY <1>1, <2>1, <2>6 DEF Advances
<1> QED BY <1>2, <1>3 DEF OnceOnPath

LEMMA LeaveAdvances ==
  ASSUME TypeOK, Straight, NEW e \in Editors, Leave(e)
  PROVE  Only(e) /\ OnceOnPath(tx'[e]) /\ Advances(tx[e], tx'[e])
<1>0. /\ e \in Actors /\ tx[e] \in Tx /\ tx[e].at = "searching"
      /\ tx[e].path # <<>> /\ tx[e].path \in Seq(Queues)
  BY LeaveIs DEF Actors, TypeOK, Tx
<1>1. PICK t \in Tx :
        /\ tx' = [tx EXCEPT ![e] = t]
        /\ GoesOnSearching(tx[e], t) /\ t.graph = tx[e].graph /\ t.at = "searching"
        /\ t.path = SubSeq(tx[e].path, 1, Len(tx[e].path) - 1)
        /\ t.visited = tx[e].visited \cup {Node(tx[e])}
  BY LeaveIs
<1>2. Only(e) /\ tx'[e] = t
  BY <1>0, <1>1, GoesOn
<1>3. /\ Len(tx[e].path) \in Nat \ {0} /\ Len(t.path) = Len(tx[e].path) - 1
      /\ \A i \in 1 .. Len(tx[e].path) - 1 : t.path[i] = tx[e].path[i]
  BY <1>0, <1>1, ButLast
<1>4. /\ \A i, j \in 1 .. Len(tx[e].path) : tx[e].path[i] = tx[e].path[j] => i = j
      /\ \A i \in 1 .. Len(tx[e].path) : tx[e].path[i] \notin tx[e].visited
  BY <1>0 DEF Straight, OnceOnPath
<1>5. Node(tx[e]) \notin tx[e].visited
  BY <1>3, <1>4 DEF Node
<1>6. OnceOnPath(t)
  <2>1. \A i, j \in 1 .. Len(t.path) : t.path[i] = t.path[j] => i = j
    BY <1>3, <1>4
  <2>2. \A i \in 1 .. Len(t.path) : t.path[i] \notin t.visited
    BY <1>1, <1>3, <1>4 DEF Node
  <2> QED BY <2>1, <2>2 DEF OnceOnPath
<1> QED BY <1>1, <1>2, <1>5, <1>6 DEF Advances

LEMMA NextGraphAdvances ==
  ASSUME TypeOK, NEW e \in Editors, NextGraph(e)
  PROVE  /\ Only(e) /\ OnceOnPath(tx'[e])
         /\ tx'[e].at = "searching" => Advances(tx[e], tx'[e])
<1>0. e \in Actors /\ tx[e].path = <<>>
  BY NextGraphIs DEF Actors
<1>1. CASE Stop(e)
  BY <1>0, <1>1, Ends, IdleIs DEF OnceOnPath
<1>2. ASSUME NEW t \in Tx, tx' = [tx EXCEPT ![e] = t], t.path = <<>>,
             t.at = "searching" => t.graph = tx[e].graph + 1
      PROVE  /\ Only(e) /\ OnceOnPath(tx'[e])
             /\ tx'[e].at = "searching" => Advances(tx[e], tx'[e])
  <2>1. Only(e) /\ tx'[e] = t
    BY <1>0, <1>2, GoesOn
  <2>2. OnceOnPath(t)
    BY <1>2 DEF OnceOnPath
  <2> QED BY <1>2, <2>1, <2>2 DEF Advances
<1> QED BY <1>0, <1>1, <1>2, NextGraphIs

LEMMA SearchAdvances ==
  ASSUME Versioned, Straight, [Next]_vars
  PROVE  /\ Straight'
         /\ \A e \in Editors :
              tx[e].at = "searching" /\ tx'[e].at = "searching" /\ tx'[e] # tx[e] =>
                Advances(tx[e], tx'[e])
<1>0. TypeOK /\ Editors \subseteq Actors
  BY DEF Versioned, Actors
<1>1. ASSUME NEW a \in Actors, Only(a), OnceOnPath(tx'[a]),
             a \in Editors /\ tx[a].at = "searching" /\ tx'[a].at = "searching" =>
               Advances(tx[a], tx'[a])
      PROVE  /\ Straight'
             /\ \A e \in Editors :
                  tx[e].at = "searching" /\ tx'[e].at = "searching" /\ tx'[e] # tx[e] =>
                    Advances(tx[e], tx'[e])
  BY <1>0, <1>1, StraightKeeps DEF Only
<1>2. ASSUME NEW e \in Editors,
             Leave(e) \/ NextGraph(e) \/ \E next \in Queues : Visit(e, next)
      PROVE  /\ Only(e) /\ OnceOnPath(tx'[e])
             /\ tx'[e].at = "searching" => Advances(tx[e], tx'[e])
  BY <1>0, <1>2, VisitAdvances, LeaveAdvances, NextGraphAdvances
<1>3. ASSUME NEW e \in Editors, PublishCheck(e), QueuesUsable(tx[e].draft)
      PROVE  Only(e) /\ OnceOnPath(tx'[e]) /\ tx[e].at # "searching"
  <2>1. /\ tx[e] \in Tx /\ tx \in [Actors -> Tx] /\ tx[e].at = "checking" /\ e \in Actors
        /\ Holds(e)
    BY <1>0, <1>3 DEF Versioned, TypeOK, PublishCheck
  <2>2. tx[e].path = <<>>
    BY <2>1 DEF Holds, Publishing
  <2>3. Only(e) /\ tx'[e].path = tx[e].path
    BY <1>3, <2>1 DEF PublishCheck, Only, Tx
  <2> QED BY <2>1, <2>2, <2>3 DEF OnceOnPath
<1>4. CASE tx' = tx
  BY <1>4 DEF Straight
<1>5. ASSUME NEW a \in Actors, Only(a), tx'[a].at \notin {"searching", "circular", "valid"}
      PROVE  Only(a) /\ OnceOnPath(tx'[a]) /\ tx'[a].at # "searching"
  BY <1>5 DEF OnceOnPath
<1> QED BY <1>0, <1>1, <1>2, <1>3, <1>4, <1>5, SearchMoves

(* Every step of a search takes up the next of its three graphs, leaves a   *)
(* node for good, or lengthens a path that names no node twice, so among    *)
(* finitely many queues each search ends, whatever the rules                *)
(* (case-flow-graph.ts:30).                                                 *)
SearchGoesOn ==
  /\ []Straight
  /\ [][\A e \in Editors :
          tx[e].at = "searching" /\ tx'[e].at = "searching" /\ tx'[e] # tx[e] =>
            Advances(tx[e], tx'[e])]_vars

(* What the recursive search of case-flow-graph.ts:40 relies on to return:  *)
(* SearchGoesOn, for any rules, queues and editors beside one another.      *)
THEOREM SearchesAdvance == Spec => SearchGoesOn
<1>1. Init => Straight
  <2> SUFFICES ASSUME Init, NEW a \in Actors PROVE OnceOnPath(tx[a])
    BY DEF Straight
  <2>1. tx[a] = Idle
    BY DEF Init
  <2> QED BY <2>1, IdleIs DEF OnceOnPath
<1>2. Versioned /\ Straight /\ [Next]_vars =>
        /\ Straight'
        /\ [\A e \in Editors :
              tx[e].at = "searching" /\ tx'[e].at = "searching" /\ tx'[e] # tx[e] =>
                Advances(tx[e], tx'[e])]_vars
  BY SearchAdvances
<1> QED BY <1>1, <1>2, VersionedInit, VersionedStep, PTL DEF Spec, SearchGoesOn

(***************************************************************************)
(* Part 2. The worker loop never stops, and it keeps up with its jobs, for  *)
(* every poll, back-off, batch, set of jobs and set of retry delays.        *)
(***************************************************************************)

(* A mark on a job is about the job as it is, and a job is late only while  *)
(* it is due and the loop waits.                                            *)
MarksFor(j) ==
  /\ told[j] = "request" => job[j] = 0
  /\ told[j] = "schedule" => job[j] \in Nat
  /\ j \notin Due => late[j] = 0
  /\ cycle # "none" => late[j] = 0

(* A job requested while a cycle runs is claimed by it, or leaves the drain *)
(* flag or a full batch behind, and both make the next delay zero.          *)
RequestFor(j) ==
  told[j] = "request" =>
    /\ cycle = "asking" => drain
    /\ cycle = "finishing" /\ ~failed => drain \/ claimed >= Batch
    /\ Resting /\ ~failed => timer = 0

(* A cycle that found nothing knows a due date no scheduled job precedes.   *)
FoundFor(j) ==
  cycle = "finishing" /\ claimed = 0 /\ ~failed /\ told[j] = "schedule" =>
    nextDue # None /\ nextDue <= job[j]

(* What is left of the timer is counted with the time already lost, so the  *)
(* sum can only shrink while the loop waits.                                *)
WaitFor(j) ==
  Resting =>
    /\ late[j] + timer <= IdlePoll
    /\ ~failed /\ told[j] = "schedule" =>
         IF job[j] = 0 THEN late[j] + timer <= Poll
         ELSE timer <= Greater(Poll, job[j])

JobFor(j) == MarksFor(j) /\ RequestFor(j) /\ FoundFor(j) /\ WaitFor(j)

(* The same sum for the health check.                                       *)
Fresh == Resting => lastCycle # None /\ lastCycle + timer <= IdlePoll

LoopInv == LoopTypeOK /\ OneCycleOrTimer

Inv == LoopInv /\ Fresh /\ \A j \in Jobs : JobFor(j)

-----------------------------------------------------------------------------
(* Durations *)

LEMMA LongestIs ==
  /\ Longest \in Nat /\ IdlePoll <= Longest
  /\ \A d \in RetryDelays : d \in Nat /\ d <= Longest
<1> DEFINE longest == CHOOSE d \in RetryDelays \cup {0} : \A e \in RetryDelays : d >= e
<1>0. \E d \in RetryDelays \cup {0} : \A e \in RetryDelays : d >= e
  BY FlowWorkerAssumption
<1>1. longest \in RetryDelays \cup {0} /\ \A e \in RetryDelays : longest >= e
  BY <1>0, Zenon
<1> HIDE DEF longest
<1>2. longest \in Nat
  BY <1>1, FlowWorkerAssumption
<1>3. Longest = Greater(IdlePoll, longest)
  BY DEF Longest, longest
<1> QED BY <1>1, <1>2, <1>3, FlowWorkerAssumption DEF Greater

(* nextCaseFlowWorkerDelay returns a number whatever the cycle found, and   *)
(* the loop never waits longer than the idle poll.                          *)
LEMMA DelaysAreBounded ==
  LoopTypeOK => /\ BackedOff \in Poll..IdlePoll
                /\ NextDelay \in 0..IdlePoll
                /\ drain \/ claimed >= Batch => NextDelay = 0
                /\ claimed # 0 => NextDelay <= Poll
                /\ nextDue # None => NextDelay <= Greater(Poll, nextDue)
<1> SUFFICES ASSUME LoopTypeOK
             PROVE  /\ BackedOff \in Poll..IdlePoll
                    /\ NextDelay \in 0..IdlePoll
                    /\ drain \/ claimed >= Batch => NextDelay = 0
                    /\ claimed # 0 => NextDelay <= Poll
                    /\ nextDue # None => NextDelay <= Greater(Poll, nextDue)
  OBVIOUS
<1>0. /\ Poll \in Nat \ {0} /\ IdlePoll \in Nat /\ Poll <= IdlePoll
      /\ Batch \in Nat \ {0}
  BY FlowWorkerAssumption
<1>1. BackedOff \in Poll..IdlePoll
  BY <1>0 DEF LoopTypeOK, BackedOff, Lesser, Greater
<1>2. nextDue # None => nextDue \in Nat
  BY LongestIs DEF LoopTypeOK, Spans
<1>3. /\ IdleDelay \in Poll..IdlePoll
      /\ nextDue # None => IdleDelay <= Greater(Poll, nextDue)
  <2>1. CASE nextDue = None
    BY <1>1, <2>1 DEF IdleDelay
  <2>2. CASE nextDue # None
    <3>1. IdleDelay = Greater(Poll, Lesser(BackedOff, nextDue))
      BY <2>2 DEF IdleDelay
    <3>2. Lesser(BackedOff, nextDue) \in Nat /\ Lesser(BackedOff, nextDue) <= IdlePoll
          /\ Lesser(BackedOff, nextDue) <= nextDue
      BY <1>0, <1>1, <1>2, <2>2 DEF Lesser
    <3> QED BY <1>0, <1>2, <2>2, <3>1, <3>2 DEF Greater
  <2> QED BY <2>1, <2>2
<1>4. claimed \in Nat
  BY DEF LoopTypeOK
<1>6. CASE drain \/ claimed >= Batch
  <2>1. NextDelay = 0
    BY <1>6, Zenon DEF NextDelay
  <2> QED BY <1>0, <1>1, <1>2, <1>4, <2>1 DEF Greater
<1>7. CASE ~(drain \/ claimed >= Batch) /\ claimed = 0
  <2>1. NextDelay = IdleDelay
    BY <1>7 DEF NextDelay
  <2> QED BY <1>0, <1>1, <1>3, <1>7, <2>1
<1>8. CASE ~(drain \/ claimed >= Batch) /\ claimed # 0
  <2>1. NextDelay = Poll
    BY <1>8 DEF NextDelay
  <2> QED BY <1>0, <1>1, <1>2, <1>8, <2>1 DEF Greater
<1> QED BY <1>6, <1>7, <1>8

LEMMA MinusOne ==
  /\ \A w \in Nat : Minus1(w) = IF w = 0 THEN 0 ELSE w - 1
  /\ \A w \in Nat : Minus1(w) \in 0..w
  /\ Minus1(None) = None /\ Minus1(Completed) = Completed
  BY FlowWorkerAssumption DEF Minus1

-----------------------------------------------------------------------------
(* Types *)

LEMMA InitType == LoopInit => LoopTypeOK
<1> SUFFICES ASSUME LoopInit PROVE LoopTypeOK
  OBVIOUS
<1>1. job = [j \in Jobs |-> Completed] /\ told = [j \in Jobs |-> "no"] /\ late = [j \in Jobs |-> 0]
  BY DEF LoopInit
<1>2. delay \in Poll..IdlePoll /\ claimed \in 0..Batch /\ 0 \in 0..(Longest + 1)
  BY FlowWorkerAssumption, LongestIs DEF LoopInit
<1> QED BY <1>1, <1>2 DEF LoopInit, LoopTypeOK

LEMMA StepType == LoopTypeOK /\ [LoopNext]_loopVars => LoopTypeOK'
<1> SUFFICES ASSUME LoopTypeOK, [LoopNext]_loopVars PROVE LoopTypeOK'
  OBVIOUS
<1> USE FlowWorkerAssumption, LongestIs DEF LoopTypeOK, Spans
<1>1. ASSUME NEW j \in Jobs, NEW here \in BOOLEAN, Enqueue(j, here) PROVE LoopTypeOK'
  BY <1>1 DEF Enqueue, loop
<1>2. ASSUME NEW j \in Jobs, Request(j) PROVE LoopTypeOK'
  <2>1. timer' \in 0..Longest \cup {None} /\ drain' \in BOOLEAN
    <3>1. CASE cycle = "none"
      BY <1>2, <3>1 DEF Request
    <3>2. CASE cycle # "none"
      BY <1>2, <3>2 DEF Request
    <3> QED BY <3>1, <3>2
  <2>2. calling' \subseteq Jobs /\ told' \in [Jobs -> {"no", "request", "schedule"}]
    BY <1>2 DEF Request, Told
  <2> QED BY <1>2, <2>1, <2>2 DEF Request, Told
<1>3. CASE Start
  BY <1>3 DEF Start
<1>4. ASSUME NEW j \in Jobs, NEW next \in RetryDelays \cup {Completed}, Process(j, next)
      PROVE LoopTypeOK'
  BY <1>4 DEF Process
<1>5. CASE ClaimedAll
  BY <1>5 DEF ClaimedAll
<1>6. CASE AskNextDue
  BY <1>6 DEF AskNextDue
<1>7. CASE CycleError
  BY <1>7 DEF CycleError
<1>8. CASE Finish
  <2>1. NextDelay \in 0..Longest /\ BackedOff \in Poll..IdlePoll /\ Poll \in Poll..IdlePoll
    BY DelaysAreBounded
  <2>2. delay' \in Poll..IdlePoll /\ timer' \in 0..Longest \cup {None}
    BY <1>8, <2>1, Zenon DEF Finish
  <2>3. lastCycle' \in 0..(StaleAfter + 1)
    BY <1>8 DEF Finish, StaleAfter
  <2> QED BY <1>8, <2>2, <2>3 DEF Finish
<1>9. CASE Shutdown
  BY <1>9 DEF Shutdown
<1>10. CASE Exit
  BY <1>10 DEF Exit, loop
<1>11. CASE Tick
  <2>1. timer' \in 0..Longest \cup {None} /\ nextDue' \in 0..Longest \cup {None}
    BY <1>11, MinusOne DEF Tick
  <2>2. job' \in [Jobs -> 0..Longest \cup {Completed}]
    BY <1>11, MinusOne DEF Tick
  <2>3. late' \in [Jobs -> 0..(Longest + 1)]
    BY <1>11 DEF Tick, Lesser
  <2>4. lastCycle' \in 0..(StaleAfter + 1) \cup {None}
    BY <1>11 DEF Tick, Lesser, StaleAfter
  <2> QED BY <1>11, <2>1, <2>2, <2>3, <2>4 DEF Tick
<1>12. CASE UNCHANGED loopVars
  BY <1>12 DEF loopVars
<1> QED
  BY <1>1, <1>2, <1>3, <1>4, <1>5, <1>6, <1>7, <1>8, <1>9, <1>10, <1>11, <1>12 DEF LoopNext

-----------------------------------------------------------------------------
(* The loop *)

LEMMA LoopStarts == LoopInit => LoopInv
  BY InitType, FlowWorkerAssumption DEF LoopInit, LoopInv, OneCycleOrTimer

LEMMA LoopSteps == LoopInv /\ [LoopNext]_loopVars => LoopInv'
<1> SUFFICES ASSUME LoopInv, [LoopNext]_loopVars PROVE OneCycleOrTimer'
  BY StepType DEF LoopInv
<1> USE FlowWorkerAssumption DEF LoopInv, OneCycleOrTimer
<1>1. ASSUME NEW j \in Jobs, NEW here \in BOOLEAN, Enqueue(j, here) PROVE OneCycleOrTimer'
  BY <1>1 DEF Enqueue, loop
<1>2. ASSUME NEW j \in Jobs, Request(j) PROVE OneCycleOrTimer'
  BY <1>2 DEF Request, Told
<1>3. CASE Start
  BY <1>3 DEF Start
<1>4. ASSUME NEW j \in Jobs, NEW next \in RetryDelays \cup {Completed}, Process(j, next)
      PROVE OneCycleOrTimer'
  BY <1>4 DEF Process
<1>5. CASE ClaimedAll
  BY <1>5 DEF ClaimedAll
<1>6. CASE AskNextDue
  BY <1>6 DEF AskNextDue
<1>7. CASE CycleError
  BY <1>7 DEF CycleError
<1>8. CASE Finish
  <2>1. process' = "up" => cycle' = "none" /\ timer' \in Int
    BY <1>8, DelaysAreBounded DEF Finish
  <2> QED BY <2>1
<1>9. CASE Shutdown
  BY <1>9 DEF Shutdown
<1>10. CASE Exit
  BY <1>10 DEF Exit, loop
<1>11. CASE Tick
  <2>1. timer' = None <=> timer = None
    BY <1>11, MinusOne, LongestIs DEF Tick, LoopTypeOK, Spans
  <2> QED BY <1>11, <2>1 DEF Tick
<1>12. CASE UNCHANGED loopVars
  BY <1>12 DEF loopVars
<1> QED
  BY <1>1, <1>2, <1>3, <1>4, <1>5, <1>6, <1>7, <1>8, <1>9, <1>10, <1>11, <1>12 DEF LoopNext

(* While the process is up there is either a cycle or a timer for the next  *)
(* one: no request, error or back-off stops the loop or doubles it.         *)
THEOREM LoopGoesOn == LoopSpec => []OneCycleOrTimer
<1>1. LoopInv => OneCycleOrTimer
  BY DEF LoopInv
<1> QED BY LoopStarts, LoopSteps, <1>1, PTL DEF LoopSpec

(* Every delay, counter and mark of the loop stays in its range: the        *)
(* back-off does not pass the idle poll.                                    *)
THEOREM WorkerStaysInRange == LoopSpec => []LoopTypeOK
  BY InitType, StepType, PTL DEF LoopSpec

-----------------------------------------------------------------------------
(* Keeping up *)

LEMMA InitKeeps == LoopInit => Fresh /\ \A j \in Jobs : JobFor(j)
  BY FlowWorkerAssumption
     DEF LoopInit, Fresh, Resting, JobFor, MarksFor, RequestFor, FoundFor, WaitFor, Due

(* The numbers a leaf needs. *)
LEMMA JobNumbers ==
  ASSUME LoopInv, NEW j \in Jobs
  PROVE  /\ job[j] \in Nat \/ job[j] = Completed
         /\ late[j] \in Nat /\ claimed \in Nat
         /\ nextDue # None => nextDue \in Nat
         /\ lastCycle # None => lastCycle \in Nat
         /\ timer # None => timer \in Nat
         /\ Resting => timer \in Nat
         /\ Poll \in Nat \ {0} /\ IdlePoll \in Nat /\ Poll <= IdlePoll
         /\ Batch \in Nat \ {0} /\ None \notin Int /\ Completed \notin Int
  BY FlowWorkerAssumption, LongestIs
     DEF LoopInv, LoopTypeOK, OneCycleOrTimer, Resting, Spans, StaleAfter

LEMMA StepFresh == LoopInv /\ Fresh /\ [LoopNext]_loopVars => Fresh'
<1> SUFFICES ASSUME LoopInv, Fresh, [LoopNext]_loopVars PROVE Fresh'
  OBVIOUS
<1>0. /\ timer # None => timer \in Nat
      /\ lastCycle # None => lastCycle \in Nat
      /\ Resting => timer # None
      /\ None \notin Int /\ IdlePoll \in Nat
  BY FlowWorkerAssumption, LongestIs
     DEF LoopInv, LoopTypeOK, OneCycleOrTimer, Resting, Spans, StaleAfter
<1> USE <1>0 DEF Fresh, Resting
<1>1. ASSUME NEW j \in Jobs, NEW here \in BOOLEAN, Enqueue(j, here) PROVE Fresh'
  BY <1>1 DEF Enqueue, loop
<1>2. ASSUME NEW j \in Jobs, Request(j) PROVE Fresh'
  BY <1>2 DEF Request, Told
<1>3. CASE Start
  BY <1>3 DEF Start
<1>4. ASSUME NEW j \in Jobs, NEW next \in RetryDelays \cup {Completed}, Process(j, next)
      PROVE Fresh'
  BY <1>4 DEF Process
<1>5. CASE ClaimedAll
  BY <1>5 DEF ClaimedAll
<1>6. CASE AskNextDue
  BY <1>6 DEF AskNextDue
<1>7. CASE CycleError
  BY <1>7 DEF CycleError
<1>8. CASE Finish
  BY <1>8, DelaysAreBounded DEF Finish, LoopInv
<1>9. CASE Shutdown
  BY <1>9 DEF Shutdown
<1>10. CASE Exit
  BY <1>10 DEF Exit, loop
<1>11. CASE Tick
  BY <1>11, MinusOne DEF Tick, Lesser, StaleAfter
<1>12. CASE UNCHANGED loopVars
  BY <1>12 DEF loopVars
<1> QED
  BY <1>1, <1>2, <1>3, <1>4, <1>5, <1>6, <1>7, <1>8, <1>9, <1>10, <1>11, <1>12 DEF LoopNext

LEMMA StepJob ==
  ASSUME LoopInv, [LoopNext]_loopVars, NEW j \in Jobs, JobFor(j)
  PROVE  JobFor(j)'
<1>0. /\ job \in [Jobs -> Spans \cup {Completed}]
      /\ late \in [Jobs -> 0..(Longest + 1)]
      /\ told \in [Jobs -> {"no", "request", "schedule"}]
  BY DEF LoopInv, LoopTypeOK
<1> USE <1>0, JobNumbers DEF JobFor, Resting, Due
<1>1. ASSUME NEW k \in Jobs, NEW here \in BOOLEAN, Enqueue(k, here) PROVE JobFor(j)'
  <2>1. CASE k = j
    <3>1. job'[j] = 0 /\ told'[j] = "no" /\ late'[j] = late[j]
      BY <1>1, <2>1 DEF Enqueue
    <3> QED BY <1>1, <3>1 DEF Enqueue, loop, MarksFor, RequestFor, FoundFor, WaitFor
  <2>2. CASE k # j
    <3>1. job'[j] = job[j] /\ told'[j] = told[j] /\ late'[j] = late[j]
      BY <1>1, <2>2 DEF Enqueue
    <3> QED BY <1>1, <3>1 DEF Enqueue, loop, MarksFor, RequestFor, FoundFor, WaitFor
  <2> QED BY <2>1, <2>2
<1>2. ASSUME NEW k \in Jobs, Request(k) PROVE JobFor(j)'
  <2>1. job' = job /\ late' = late /\ (told'[j] = told[j] \/ (told'[j] = "request" /\ job[j] = 0))
    BY <1>2 DEF Request, Told
  <2>2. MarksFor(j)'
    BY <1>2, <2>1 DEF Request, Told, MarksFor
  <2>3. RequestFor(j)'
    BY <1>2, <2>1 DEF Request, Told, RequestFor
  <2>4. FoundFor(j)'
    BY <1>2, <2>1 DEF Request, Told, FoundFor
  <2>5. WaitFor(j)'
    <3>1. process' = process /\ cycle' = cycle /\ failed' = failed
      BY <1>2 DEF Request, Told
    <3>2. Resting => timer' = 0
      BY <1>2 DEF Request
    <3> QED BY <2>1, <3>1, <3>2 DEF WaitFor, MarksFor, Greater
  <2> QED BY <2>2, <2>3, <2>4, <2>5
<1>3. CASE Start
  BY <1>3 DEF Start, MarksFor, RequestFor, FoundFor, WaitFor
<1>4. ASSUME NEW k \in Jobs, NEW next \in RetryDelays \cup {Completed}, Process(k, next)
      PROVE JobFor(j)'
  <2>1. CASE k = j
    <3>1. /\ job'[j] = next /\ late'[j] = 0
          /\ told'[j] = IF next = Completed THEN "no" ELSE "schedule"
      BY <1>4, <2>1 DEF Process
    <3>2. next # Completed => next \in Nat
      BY LongestIs
    <3> QED BY <1>4, <3>1, <3>2 DEF Process, MarksFor, RequestFor, FoundFor, WaitFor
  <2>2. CASE k # j
    <3>1. job'[j] = job[j] /\ told'[j] = told[j] /\ late'[j] = late[j]
      BY <1>4, <2>2 DEF Process
    <3> QED BY <1>4, <3>1 DEF Process, MarksFor, RequestFor, FoundFor, WaitFor
  <2> QED BY <2>1, <2>2
<1>5. CASE ClaimedAll
  <2>1. told[j] = "request" => claimed = Batch
    BY <1>5 DEF ClaimedAll, MarksFor
  <2> QED BY <1>5, <2>1 DEF ClaimedAll, MarksFor, RequestFor, FoundFor, WaitFor
<1>6. CASE AskNextDue
  <2>1. told[j] = "schedule" => nextDue' # None /\ nextDue' <= job[j]
    <3> SUFFICES ASSUME told[j] = "schedule" PROVE nextDue' # None /\ nextDue' <= job[j]
      OBVIOUS
    <3>1. job[j] \in Nat /\ job[j] # Completed
      BY DEF MarksFor
    <3>2. PICK i \in Jobs : /\ job[i] # Completed /\ nextDue' = job[i]
                            /\ \A k \in {l \in Jobs : job[l] # Completed} : job[i] <= job[k]
      BY <1>6, <3>1 DEF AskNextDue
    <3>3. job[i] \in Nat
      BY <3>2, JobNumbers
    <3> QED BY <3>1, <3>2, <3>3
  <2> QED BY <1>6, <2>1 DEF AskNextDue, MarksFor, RequestFor, FoundFor, WaitFor
<1>7. CASE CycleError
  BY <1>7 DEF CycleError, MarksFor, RequestFor, FoundFor, WaitFor
<1>8. CASE Finish
  <2>1. process = "up" => timer' = NextDelay
    BY <1>8 DEF Finish
  <2>2. MarksFor(j)' /\ late[j] = 0
    BY <1>8 DEF Finish, MarksFor
  <2>3. RequestFor(j)'
    BY <1>8, <2>1, DelaysAreBounded DEF Finish, RequestFor, LoopInv
  <2>4. FoundFor(j)'
    BY <1>8 DEF Finish, FoundFor
  <2>5. WaitFor(j)'
    <3>1. process = "up" => NextDelay \in Nat /\ late[j] + NextDelay <= IdlePoll
      BY <2>2, DelaysAreBounded DEF LoopInv
    <3>2. ~failed /\ told[j] = "schedule" =>
            job[j] \in Nat /\ NextDelay \in Nat /\ NextDelay <= Greater(Poll, job[j])
      BY <1>8, DelaysAreBounded DEF Finish, FoundFor, MarksFor, LoopInv, Greater
    <3> QED BY <1>8, <2>1, <2>2, <3>1, <3>2 DEF Finish, WaitFor, Greater
  <2> QED BY <2>2, <2>3, <2>4, <2>5
<1>9. CASE Shutdown
  BY <1>9 DEF Shutdown, MarksFor, RequestFor, FoundFor, WaitFor
<1>10. CASE Exit
  BY <1>10 DEF Exit, loop, MarksFor, RequestFor, FoundFor, WaitFor
<1>11. CASE Tick
  <2>1. /\ job'[j] = Minus1(job[j])
        /\ late'[j] = IF j \in Due /\ cycle = "none"
                      THEN Lesser(late[j] + 1, Longest + 1) ELSE late[j]
        /\ told' = told /\ timer' = Minus1(timer) /\ nextDue' = Minus1(nextDue)
        /\ UNCHANGED <<process, cycle, claimed, drain, failed>>
        /\ timer # 0
    BY <1>11 DEF Tick
  <2>2. /\ late'[j] \in Nat /\ late'[j] <= late[j] + 1
        /\ job[j] # 0 \/ cycle # "none" => late'[j] = late[j]
    BY <2>1, LongestIs DEF Lesser
  <2>3. /\ job[j] \in Nat => job'[j] = IF job[j] = 0 THEN 0 ELSE job[j] - 1
        /\ job[j] = Completed => job'[j] = Completed
        /\ nextDue # None => nextDue' = IF nextDue = 0 THEN 0 ELSE nextDue - 1
        /\ Resting => timer' = timer - 1
    BY <2>1, MinusOne
  <2>4. MarksFor(j)'
    BY <2>1, <2>2, <2>3 DEF MarksFor
  <2>5. RequestFor(j)'
    BY <2>1 DEF RequestFor
  <2>6. FoundFor(j)'
    BY <2>1, <2>3 DEF FoundFor, MarksFor
  <2>7. WaitFor(j)'
    BY <2>1, <2>2, <2>3 DEF WaitFor, MarksFor, Greater
  <2> QED BY <2>4, <2>5, <2>6, <2>7
<1>12. CASE UNCHANGED loopVars
  BY <1>12 DEF loopVars, MarksFor, RequestFor, FoundFor, WaitFor
<1> QED
  BY <1>1, <1>2, <1>3, <1>4, <1>5, <1>6, <1>7, <1>8, <1>9, <1>10, <1>11, <1>12 DEF LoopNext

LEMMA InvKeepsUp == Inv => KeepsUp
<1> SUFFICES ASSUME Inv PROVE KeepsUp
  OBVIOUS
<1> USE DEF Inv
<1>1. RequestedJobsRunNow
  BY DEF RequestedJobsRunNow, JobFor, RequestFor, Due
<1>2. JobsAreNotLate
  <2> SUFFICES ASSUME Resting, NEW j \in Due
               PROVE  late[j] <= IF told[j] = "schedule" /\ ~failed THEN Poll ELSE IdlePoll
    BY DEF JobsAreNotLate
  <2>1. j \in Jobs /\ job[j] = 0 /\ WaitFor(j)
    BY DEF Due, JobFor
  <2> QED BY <2>1, JobNumbers DEF WaitFor
<1>3. HealthyWorkerIsReady
  BY FlowWorkerAssumption, LongestIs
     DEF HealthyWorkerIsReady, Ready, Resting, Fresh, LoopInv, LoopTypeOK, OneCycleOrTimer,
         StaleAfter, Spans
<1> QED BY <1>1, <1>2, <1>3 DEF KeepsUp

(* The loop keeps up with its jobs although it backs off: a job this        *)
(* process was told about runs at once, a scheduled one within a poll of    *)
(* its due date, any other within the idle poll, and the health check calls *)
(* a working loop ready.                                                    *)
THEOREM LoopKeepsUp == LoopSpec => []KeepsUp
<1>1. LoopInit => Inv
  BY LoopStarts, InitKeeps DEF Inv
<1>2. Inv /\ [LoopNext]_loopVars => Inv'
  BY LoopSteps, StepFresh, StepJob DEF Inv
<1> QED BY <1>1, <1>2, InvKeepsUp, PTL DEF LoopSpec
=============================================================================
