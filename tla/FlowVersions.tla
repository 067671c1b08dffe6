---------------------------- MODULE FlowVersions ----------------------------
(***************************************************************************)
(* Flow versions and the queues they name (configuration.service.ts,        *)
(* case-flow-graph.ts, queues.service.ts, drizzle/0075): editors publish    *)
(* rules against the revision they loaded, administrators activate and      *)
(* retire queues, and every submission is pinned to the version that is     *)
(* active when it commits.                                                  *)
(*                                                                          *)
(* One row says which version is active; publishing locks it FOR UPDATE,    *)
(* loading, submitting and changing a queue's lifecycle FOR SHARE. A        *)
(* version that is published is never changed again, so the rules a         *)
(* merchant is pinned to are a constant of CaseFlow, whose assumptions on   *)
(* them are what is checked here.                                           *)
(***************************************************************************)
EXTENDS Integers, Sequences

CONSTANTS
  Queues,
  Staged,       \* queues that have a usable initial and terminal stage
  Editors, Admins, Merchants,
  Drafts,       \* the active rules an editor may save
  Baseline,     \* the rules of the version the migration made
  MaxVersions,  \* bound: versions published
  MaxRevision   \* bound: changes of one queue

Pairs == Queues \X Queues

(* A trigger is <<source, target>>, a blocker <<blocked, prerequisite>>, a   *)
(* creation requirement <<target, prerequisite>>. No rule relates a queue   *)
(* to itself (configuration.schemas.ts:253).                                *)
Rules == [start : SUBSET Queues, triggers : SUBSET Pairs,
          blockers : SUBSET Pairs, requirements : SUBSET Pairs]
RulePairs(rules) == rules.triggers \cup rules.blockers \cup rules.requirements
SelfRelated(rules) == \E q \in Queues : <<q, q>> \in RulePairs(rules)

ASSUME FlowVersionsAssumption ==
  /\ Staged \subseteq Queues
  /\ Drafts \subseteq Rules /\ Baseline \in Rules
  /\ \A rules \in Drafts \cup {Baseline} : ~SelfRelated(rules)
  /\ MaxVersions \in Nat \ {0} /\ MaxRevision \in Nat \ {0}

VARIABLES
  current,   \* flow_configuration_revisions: the active version, its revision
  version,   \* case_flow_versions that are published, with their rules
  queue,     \* lifecycle and revision of every queue
  merchant,  \* the version every merchant is pinned to, its start cases, and
             \* whether its flow is open: not live yet, or a case or job is left
  tx         \* the transaction of every actor

vars == <<current, version, queue, merchant, tx>>

Actors     == Editors \cup Admins \cup Merchants
Lifecycles == {"draft", "active", "inactive"}
Versions   == 1 .. MaxVersions
Rows       == Queues \cup {"current"}

Unsubmitted == [version |-> 0, cases |-> {}, open |-> FALSE]

(* seen: the version that was active when an editor loaded one, or a        *)
(* submission was pinned, with its revision; or the lifecycle and revision  *)
(* an administrator read. draft: the rules loaded, then the ones to save.   *)
(* graph, path and visited: where the search for a cycle is, in which of    *)
(* the three graphs; path is the cycle once there is one.                   *)
Tx == [at : {"idle", "editing", "checking", "searching", "circular", "valid",
             "read", "bumped", "pinned", "started"},
       seen : {0} \cup Versions, revision : Nat,
       draft : Drafts \cup {Baseline}, cases : SUBSET Queues,
       graph : 1 .. 3, path : Seq(Queues), visited : SUBSET Queues,
       queue : Rows, was : Lifecycles, next : Lifecycles,
       share : SUBSET Rows, update : SUBSET Rows]

Idle == [at |-> "idle", seen |-> 0, revision |-> 0, draft |-> Baseline, cases |-> {},
         graph |-> 1, path |-> <<>>, visited |-> {},
         queue |-> "current", was |-> "draft", next |-> "draft",
         share |-> {}, update |-> {}]

TypeOK ==
  /\ current \in [active : Versions, revision : Nat]
  /\ version \in UNION {[1 .. n -> Drafts \cup {Baseline}] : n \in Versions}
  /\ queue \in [Queues -> [lifecycle : Lifecycles, revision : Nat]]
  /\ merchant \in [Merchants -> [version : {0} \cup Versions, cases : SUBSET Queues,
                               open : BOOLEAN]]
  /\ tx \in [Actors -> Tx]

(* The queues the baseline uses are active, the others may be anything.     *)
Named(rules) == rules.start \cup UNION {{p[1], p[2]} : p \in RulePairs(rules)}

Init ==
  /\ current = [active |-> 1, revision |-> 1]
  /\ version = <<Baseline>>
  /\ queue \in [Queues -> [lifecycle : {"draft", "active"}, revision : {1}]]
  /\ \A q \in Queues : queue[q].lifecycle = "active" => q \in Staged
  /\ \A q \in Named(Baseline) : queue[q].lifecycle = "active"
  /\ merchant = [m \in Merchants |-> Unsubmitted]
  /\ tx = [a \in Actors |-> Idle]

Others(a)         == Actors \ {a}
ShareFree(row, a)  == \A b \in Others(a) : row \notin tx[b].update
UpdateFree(row, a) == \A b \in Others(a) : row \notin tx[b].update \cup tx[b].share
Stop(a) == tx' = [tx EXCEPT ![a] = Idle]

---------------------------------------------------------------------------
(* The checks of a publication. *)

QueuesUsable(rules) == \A q \in Named(rules) : queue[q].lifecycle = "active" /\ q \in Staged

(* What waits for what: the target of a trigger for its source, the target  *)
(* of a requirement and the blocked of a blocker for the prerequisite.      *)
DependencyEdges(rules) ==
  {<<t[2], t[1]>> : t \in rules.triggers} \cup rules.requirements \cup rules.blockers

(* The graphs that are searched, one after the other. *)
Graphs(rules) == <<rules.requirements, rules.blockers, DependencyEdges(rules)>>
Edges(t)      == Graphs(t.draft)[t.graph]

Adjacent(edges, node) == {q \in Queues : <<node, q>> \in edges}

(* Mutant: the search starts where nothing leads to. *)
FromRoots(edges) == {q \in Queues : Adjacent(edges, q) # {} /\ \A e \in edges : e[2] # q}

From(edges) == {q \in Queues : Adjacent(edges, q) # {}}

(* The path is the stack of the recursive search (dfs's visiting set too).  *)
(* A call for a node that was visited changes nothing, so the loop over the *)
(* neighbours, or over the nodes, is at the ones that were not.             *)
Node(t)    == t.path[Len(t.path)]
ToVisit(t) == (IF t.path = <<>> THEN From(Edges(t)) ELSE Adjacent(Edges(t), Node(t))) \ t.visited

(* A first case cannot require another one, a case cannot wait for the one  *)
(* that its close opens.                                                    *)
Possible(rules) ==
  /\ rules.start \cap {p[1] : p \in rules.requirements} = {}
  /\ rules.triggers \cap rules.blockers = {}

---------------------------------------------------------------------------
(* Editors: load, edit for a while, publish. *)

(* The active version or an older one is shown, with the revision of today. *)
Load(e, shown) ==
  /\ tx[e].at = "idle"
  /\ ShareFree("current", e)
  /\ shown \in DOMAIN version
  /\ tx' = [tx EXCEPT ![e] = [Idle EXCEPT !.at = "editing", !.draft = version[shown],
                                         !.seen = current.active,
                                         !.revision = current.revision]]
  /\ UNCHANGED <<current, version, queue, merchant>>

(* What was loaded is saved as it is or edited. An editor who published or  *)
(* was refused has to load again.                                           *)
PublishLock(e, draft) ==
  /\ tx[e].at = "editing"
  /\ draft \in Drafts \cup {tx[e].draft}
  /\ Len(version) < MaxVersions
  /\ UpdateFree("current", e)
  /\ IF current.revision = tx[e].revision
     THEN tx' = [tx EXCEPT ![e].at = "checking", ![e].draft = draft, ![e].update = {"current"}]
     ELSE Stop(e)
  /\ UNCHANGED <<current, version, queue, merchant>>

(* The queues that are named are read and locked, then checked. *)
QueuesFree(e) == \A q \in Named(tx[e].draft) : ShareFree(q, e)
QueueLocks(e) == Named(tx[e].draft)

PublishCheck(e) ==
  /\ tx[e].at = "checking"
  /\ QueuesFree(e)
  /\ IF QueuesUsable(tx[e].draft)
     THEN tx' = [tx EXCEPT ![e].at = "searching", ![e].share = QueueLocks(e)]
     ELSE Stop(e)
  /\ UNCHANGED <<current, version, queue, merchant>>

(* findDependencyCycle, depth first: a node met again on the path closes a  *)
(* cycle, which is reported.                                                *)
Visit(e, next) ==
  LET path == tx[e].path IN
  /\ tx[e].at = "searching"
  /\ next \in ToVisit(tx[e])
  /\ \/ /\ \A i \in DOMAIN path : path[i] # next
        /\ tx' = [tx EXCEPT ![e].path = Append(path, next)]
     \/ \E start \in DOMAIN path :
          /\ path[start] = next
          /\ tx' = [tx EXCEPT ![e].at = "circular",
                              ![e].path = Append(SubSeq(path, start, Len(path)), next)]
  /\ UNCHANGED <<current, version, queue, merchant>>

(* A node is left when it leads to visited nodes only. *)
Leave(e) ==
  LET path == tx[e].path IN
  /\ tx[e].at = "searching" /\ path # <<>>
  /\ ToVisit(tx[e]) = {}
  /\ tx' = [tx EXCEPT ![e].path = SubSeq(path, 1, Len(path) - 1),
                      ![e].visited = @ \cup {Node(tx[e])}]
  /\ UNCHANGED <<current, version, queue, merchant>>

(* A graph without a cycle is followed by the next, the last one by what    *)
(* else is refused.                                                         *)
NextGraph(e) ==
  /\ tx[e].at = "searching" /\ tx[e].path = <<>>
  /\ ToVisit(tx[e]) = {}
  /\ IF tx[e].graph < 3
     THEN tx' = [tx EXCEPT ![e].graph = @ + 1, ![e].visited = {}]
     ELSE IF Possible(tx[e].draft)
          THEN tx' = [tx EXCEPT ![e].at = "valid", ![e].graph = 1, ![e].visited = {}]
          ELSE Stop(e)
  /\ UNCHANGED <<current, version, queue, merchant>>

PublishCommit(e) ==
  /\ tx[e].at = "valid"
  /\ version' = Append(version, tx[e].draft)
  /\ current' = [active |-> Len(version'), revision |-> current.revision + 1]
  /\ Stop(e)
  /\ UNCHANGED <<queue, merchant>>

---------------------------------------------------------------------------
(* Administrators of queues. updateQueue expects the revision its form was  *)
(* loaded with, the other two the one they read; a change that names no     *)
(* lifecycle writes back the one it read.                                   *)

Activatable(q) == q \in Staged

ReadQueue(a, q, next, expected) ==
  /\ tx[a].at = "idle"
  /\ queue[q].revision < MaxRevision
  /\ tx' = [tx EXCEPT ![a] = [Idle EXCEPT !.at = "read", !.queue = q, !.next = next,
                                         !.was = queue[q].lifecycle, !.revision = expected]]
  /\ UNCHANGED <<current, version, queue, merchant>>

UpdateQueue(a, q, next, loaded) ==
  /\ loaded <= queue[q].revision
  /\ next = "active" => Activatable(q)
  /\ ReadQueue(a, q, next, loaded)

UpdateQueueStatus(a, q, next) ==
  /\ next = "active" => Activatable(q)
  /\ ReadQueue(a, q, next, queue[q].revision)

UpdateQueueSla(a, q) == ReadQueue(a, q, queue[q].lifecycle, queue[q].revision)

SameRevision(a) == queue[tx[a].queue].revision = tx[a].revision

(* The revision is not among the columns that the trigger on queues looks   *)
(* at, so raising it asks for no version.                                   *)
BumpRevision(a) ==
  /\ tx[a].at = "read"
  /\ UpdateFree(tx[a].queue, a)
  /\ IF SameRevision(a)
     THEN tx' = [tx EXCEPT ![a].at = "bumped", ![a].update = {tx[a].queue}]
     ELSE Stop(a)
  /\ UNCHANGED <<current, version, queue, merchant>>

Unfinished == {current.active} \cup {merchant[m].version : m \in {n \in Merchants : merchant[n].open}}

(* Mutant: only the active version protects its queues. *)
NeededNow(q) == q \in Named(version[current.active])

Needed(q) == \E v \in Unfinished : q \in Named(version[v])

(* Mutant: an archive status that the schema does not know. *)
QueueCommitArchived(a) ==
  /\ tx[a].at = "bumped"
  /\ ~Needed(tx[a].queue)
  /\ queue' = [queue EXCEPT ![tx[a].queue] =
                 [lifecycle |-> IF tx[a].next = "inactive" THEN "archived" ELSE tx[a].next,
                  revision |-> @.revision + 1]]
  /\ Stop(a)
  /\ UNCHANGED <<current, version, merchant>>

(* A change of the lifecycle passes the trigger on queues, which locks the  *)
(* active version for share and refuses to change a queue that is needed.   *)
(* (A publication that has that lock may wait for this queue: Dies ends the *)
(* one that PostgreSQL aborts.)                                             *)
ChangesLifecycle(a) == tx[a].next # queue[tx[a].queue].lifecycle

QueueCommit(a) ==
  /\ tx[a].at = "bumped"
  /\ ChangesLifecycle(a) => ShareFree("current", a)
  /\ queue' = IF ChangesLifecycle(a) /\ Needed(tx[a].queue) THEN queue
              ELSE [queue EXCEPT ![tx[a].queue] = [lifecycle |-> tx[a].next,
                                                   revision |-> @.revision + 1]]
  /\ Stop(a)
  /\ UNCHANGED <<current, version, merchant>>

---------------------------------------------------------------------------
(* Submissions. The trigger on merchants reads the active version under a   *)
(* lock that is kept until the submission commits.                          *)

(* Mutant: the trigger reads the active version without a lock. *)
PinLocksNone == {}

PinLocks == {"current"}

Pin(m) ==
  /\ tx[m].at = "idle" /\ merchant[m] = Unsubmitted
  /\ ShareFree("current", m)
  /\ tx' = [tx EXCEPT ![m] = [Idle EXCEPT !.at = "pinned", !.seen = current.active,
                                         !.share = PinLocks]]
  /\ UNCHANGED <<current, version, queue, merchant>>

(* A start case is refused in a queue that is not active. *)
StartCases(m) ==
  LET start == version[tx[m].seen].start IN
  /\ tx[m].at = "pinned"
  /\ IF \A q \in start : queue[q].lifecycle = "active"
     THEN tx' = [tx EXCEPT ![m].at = "started", ![m].cases = start]
     ELSE Stop(m)
  /\ UNCHANGED <<current, version, queue, merchant>>

SubmitCommit(m) ==
  /\ tx[m].at = "started"
  /\ merchant' = [merchant EXCEPT ![m] = [version |-> tx[m].seen, cases |-> tx[m].cases,
                                           open |-> TRUE]]
  /\ Stop(m)
  /\ UNCHANGED <<current, version, queue>>

(* The merchant is live, terminated or deleted, its cases are closed and    *)
(* its jobs completed. (A case that staff create for it later is left out.) *)
FlowEnds(m) ==
  /\ merchant[m].open
  /\ merchant' = [merchant EXCEPT ![m].open = FALSE]
  /\ UNCHANGED <<current, version, queue, tx>>

(* A process is lost, a statement fails, a deadlock is broken, a cycle is   *)
(* reported: the transaction is rolled back.                                *)
Dies(a) ==
  /\ tx[a].at # "idle"
  /\ Stop(a)
  /\ UNCHANGED <<current, version, queue, merchant>>

Next ==
  \/ \E e \in Editors : \/ PublishCheck(e) \/ PublishCommit(e)
                        \/ \E shown \in Versions : Load(e, shown)
                        \/ \E draft \in Drafts \cup {Baseline} : PublishLock(e, draft)
                        \/ \E next \in Queues : Visit(e, next)
                        \/ Leave(e) \/ NextGraph(e)
  \/ \E a \in Admins : \/ BumpRevision(a) \/ QueueCommit(a)
                       \/ \E q \in Queues : UpdateQueueSla(a, q)
                       \/ \E q \in Queues, next \in Lifecycles :
                            \/ UpdateQueueStatus(a, q, next)
                            \/ \E loaded \in 1 .. MaxRevision : UpdateQueue(a, q, next, loaded)
  \/ \E m \in Merchants : Pin(m) \/ StartCases(m) \/ SubmitCommit(m) \/ FlowEnds(m)
  \/ \E a \in Actors : Dies(a)

Spec == Init /\ [][Next]_vars

---------------------------------------------------------------------------
(* Queues wait for one another in a circle: each of a set of queues gets or *)
(* closes its case only after another one of the set.                       *)
Waits(rules, p, q) == \/ <<q, p>> \in rules.triggers
                      \/ <<p, q>> \in rules.requirements \cup rules.blockers
CircularWait(rules) == \E S \in (SUBSET Queues) \ {{}} :
                         \A p \in S : \E q \in S : Waits(rules, p, q)

(* What an editor is shown as a cycle. *)
IsCircle(rules, circle) ==
  /\ Len(circle) > 1 /\ circle[1] = circle[Len(circle)]
  /\ \A i \in 1 .. Len(circle) - 1 : Waits(rules, circle[i], circle[i + 1])

(* The depth-first search refuses rules only for a circle that it can show  *)
(* and that waits, and what it lets pass leaves nobody waiting in a circle  *)
(* (case-flow-graph.ts:30, configuration.service.ts:1018).                  *)
ChecksAreExact == \A e \in Editors :
  /\ tx[e].at = "circular" => /\ IsCircle(tx[e].draft, tx[e].path)
                              /\ CircularWait(tx[e].draft)
  /\ tx[e].at = "valid" => ~CircularWait(tx[e].draft)

(* What becomes active leaves no queue waiting for another in a circle and   *)
(* replaces the version that was active when its editor loaded, be it that  *)
(* version or an older one that was shown: of two who start from one the    *)
(* second is refused (configuration.service.ts:789). Whatever is published  *)
(* and retired meanwhile, the queues named by the active version and by the *)
(* version of a merchant whose flow is open are active                      *)
(* (configuration.service.ts:905, 0075_case_flow_versions.sql:264).         *)
Published == current'.active # current.active
OnTop == \E e \in Editors : /\ tx[e].at = "valid" /\ tx'[e].at = "idle"
                            /\ tx[e].seen = current.active
Usable(rules) == \A q \in Named(rules) : queue[q].lifecycle = "active"
FlowsUsable   == \A v \in Unfinished : Usable(version[v])
FlowsStaySound ==
  [][/\ Published => OnTop /\ ~CircularWait(version'[current'.active])
     /\ FlowsUsable']_vars

(* A merchant is pinned to the version that is active when its submission   *)
(* commits, and has the start cases of that version: assignment and         *)
(* publication have one boundary (0075_case_flow_versions.sql:91).          *)
PinnedToActive ==
  [][\A m \in Merchants : merchant[m] = Unsubmitted /\ merchant'[m] # Unsubmitted =>
       /\ merchant'[m].version = current'.active
       /\ merchant'[m].cases = version'[current'.active].start]_vars
=============================================================================
