-------------------------- MODULE IdeasSyncProofs --------------------------
(***************************************************************************)
(* Proofs about the shared board: for any number of Harnesses, items and   *)
(* edits, no exchange takes a board back, and a peer that believes itself  *)
(* clean has nothing the hub has not.  Both under the proviso that the two *)
(* halves of a promotion carry the latest stamp (~SlowRequests).  And the  *)
(* dependencies of every board stay sound, without a proviso.              *)
(*                                                                         *)
(* What the first argument needs of a board is the version of each item,   *)
(* the last stamp the board knows of it.  An edit gives one item, or a     *)
(* few, the latest stamp; a merge takes the larger of two versions; so     *)
(* versions only rise, and comparing them is comparing what two boards     *)
(* know.                                                                   *)
(*                                                                         *)
(* The second is about the rebuild: by induction over its rounds, whatever *)
(* candidates it starts from, what it keeps has no circle.  A set of       *)
(* dependencies has none just when the number of tasks below a task        *)
(* shrinks along each of them.                                             *)
(***************************************************************************)
EXTENDS IdeasSync, FiniteSetTheorems, WellFoundedInduction, TLAPS

\* A board, but for its dependencies.
Raw(b) ==
  /\ DOMAIN b = {"ideas", "nodes", "machines", "edges", "tombs"}
  /\ b.ideas \in [Ideas -> IdeaNotes] /\ b.nodes \in [Tasks -> TaskNodes]
  /\ b.machines \in [Machines -> Boxes] /\ b.tombs \in [Ids -> Nat]

\* b knows of nothing later than n.
Bounded(b, n) == \A x \in Items : Version(b, x) <= n

\* a knows all that b knows.
Knows(a, b) == \A x \in Items : Version(a, x) >= Version(b, x)

\* c is what becomes of b by an edit stamped n.
Follows(b, c, n) == Raw(c) /\ Bounded(c, n) /\ Knows(c, b)

-----------------------------------------------------------------------------
(* Versions.                                                               *)

LEMMA MaxOfTwo ==
  ASSUME NEW m \in Nat, NEW n \in Nat
  PROVE  Max({m, n}) \in Nat /\ Max({m, n}) >= m /\ Max({m, n}) >= n /\ (Max({m, n}) = m \/ Max({m, n}) = n)
<1>1. \E x \in {m, n} : \A y \in {m, n} : x >= y
  <2>1. CASE m >= n  BY <2>1
  <2>2. CASE ~(m >= n)  BY <2>2
  <2> QED BY <2>1, <2>2
<1>2. Max({m, n}) \in {m, n} /\ \A y \in {m, n} : Max({m, n}) >= y  BY <1>1 DEF Max
<1> QED BY <1>2

LEMMA StampIs ==
  ASSUME NEW b
  PROVE  /\ \A x \in Ideas : StampOf(b, x) = b.ideas[x].at
         /\ \A x \in Tasks : StampOf(b, x) = b.nodes[x].at
         /\ \A x \in Machines : StampOf(b, x) = b.machines[x].at
<1>1. \A x \in Ideas : StampOf(b, x) = b.ideas[x].at  BY BoardAssumption DEF StampOf
<1>2. \A x \in Tasks : StampOf(b, x) = b.nodes[x].at  BY BoardAssumption DEF StampOf
<1>3. \A x \in Machines : StampOf(b, x) = b.machines[x].at  BY BoardAssumption DEF StampOf
<1> QED BY <1>1, <1>2, <1>3

\* The version is the larger of the stamp and the tombstone.
LEMMA VersionIs ==
  ASSUME NEW b, Raw(b), NEW x \in Items
  PROVE  /\ StampOf(b, x) \in Nat /\ b.tombs[x] \in Nat /\ Version(b, x) \in Nat
         /\ Version(b, x) >= StampOf(b, x) /\ Version(b, x) >= b.tombs[x]
         /\ Version(b, x) = StampOf(b, x) \/ Version(b, x) = b.tombs[x]
<1>1. StampOf(b, x) \in Nat
  <2>1. CASE x \in Ideas  BY <2>1, StampIs DEF Raw, IdeaNotes
  <2>2. CASE x \in Tasks  BY <2>2, StampIs DEF Raw, TaskNodes
  <2>3. CASE x \in Machines  BY <2>3, StampIs DEF Raw, Boxes
  <2> QED BY <2>1, <2>2, <2>3 DEF Items
<1>2. b.tombs[x] \in Nat  BY DEF Raw, Ids
<1> QED BY <1>1, <1>2, MaxOfTwo DEF Version

LEMMA KnowsIsTransitive ==
  ASSUME NEW a, NEW b, NEW c, Raw(a), Raw(b), Raw(c), Knows(a, b), Knows(b, c)
  PROVE  Knows(a, c)
<1> SUFFICES ASSUME NEW x \in Items PROVE Version(a, x) >= Version(c, x)  BY DEF Knows
<1>1. Version(a, x) \in Nat /\ Version(b, x) \in Nat /\ Version(c, x) \in Nat  BY VersionIs
<1>2. Version(a, x) >= Version(b, x) /\ Version(b, x) >= Version(c, x)  BY DEF Knows
<1> QED BY <1>1, <1>2

LEMMA KnowsIsReflexive ==
  ASSUME NEW b, Raw(b) PROVE Knows(b, b)
<1> SUFFICES ASSUME NEW x \in Items PROVE Version(b, x) >= Version(b, x)  BY DEF Knows
<1> QED BY VersionIs

LEMMA BoundGrows ==
  ASSUME NEW b, Raw(b), NEW m \in Nat, NEW n \in Nat, m <= n, Bounded(b, m)
  PROVE  Bounded(b, n)
<1> SUFFICES ASSUME NEW x \in Items PROVE Version(b, x) <= n  BY DEF Bounded
<1>1. Version(b, x) \in Nat /\ Version(b, x) <= m  BY VersionIs DEF Bounded
<1> QED BY <1>1

-----------------------------------------------------------------------------
(* Edits: each leaves an item as it was, or stamps it or its tombstone.    *)


\* An element w and its tombstone dead become v and gone by an edit stamped n.
Stamped(w, dead, v, gone, n) ==
  \/ v.at = w.at /\ gone = dead
  \/ v.at = n /\ gone = dead
  \/ v.at \in {0, w.at} /\ gone = n

LEMMA StampedIsLater ==
  ASSUME NEW b, NEW c, Raw(b), Raw(c), NEW n \in Nat, Bounded(b, n),
         \A i \in Ideas : Stamped(b.ideas[i], b.tombs[i], c.ideas[i], c.tombs[i], n),
         \A t \in Tasks : Stamped(b.nodes[t], b.tombs[t], c.nodes[t], c.tombs[t], n),
         \A m \in Machines : Stamped(b.machines[m], b.tombs[m], c.machines[m], c.tombs[m], n)
  PROVE  Follows(b, c, n)
<1> SUFFICES ASSUME NEW x \in Items PROVE Version(c, x) <= n /\ Version(c, x) >= Version(b, x)
  BY DEF Follows, Bounded, Knows
<1> DEFINE bs == StampOf(b, x)
           bt == b.tombs[x]
           bv == Version(b, x)
           cs == StampOf(c, x)
           ct == c.tombs[x]
           cv == Version(c, x)
<1>1. bs \in Nat /\ bt \in Nat /\ bv \in Nat /\ bv >= bs /\ bv >= bt /\ (bv = bs \/ bv = bt)  BY VersionIs
<1>2. cs \in Nat /\ ct \in Nat /\ cv \in Nat /\ cv >= cs /\ cv >= ct /\ (cv = cs \/ cv = ct)  BY VersionIs
<1>3. bv <= n  BY DEF Bounded
<1>4. (cs = bs /\ ct = bt) \/ (cs = n /\ ct = bt) \/ (cs \in {0, bs} /\ ct = n)
  <2>1. CASE x \in Ideas  BY <2>1, StampIs DEF Stamped
  <2>2. CASE x \in Tasks  BY <2>2, StampIs DEF Stamped
  <2>3. CASE x \in Machines  BY <2>3, StampIs DEF Stamped
  <2> QED BY <2>1, <2>2, <2>3 DEF Items
<1> HIDE DEF bs, bt, bv, cs, ct, cv
<1>5. cv <= n /\ cv >= bv  BY <1>1, <1>2, <1>3, <1>4
<1> QED BY <1>5 DEF cv, bv

LEMMA WithIdeaFollows ==
  ASSUME NEW b, Raw(b), NEW i \in Ideas, NEW n \in Nat, Bounded(b, n)
  PROVE  Follows(b, WithIdea(b, i, n), n)
<1> DEFINE c == WithIdea(b, i, n)
           w == [b.ideas[i] EXCEPT !.at = n]
<1>1. /\ DOMAIN c = DOMAIN b
      /\ c.ideas = [b.ideas EXCEPT ![i] = w]
      /\ c.nodes = b.nodes /\ c.machines = b.machines /\ c.tombs = b.tombs
  BY DEF Raw, WithIdea
<1>2. w \in IdeaNotes /\ w.at = n  BY DEF Raw, IdeaNotes
<1> HIDE DEF c, w
<1>3. Raw(c)  BY <1>1, <1>2 DEF Raw
<1>4. \A j \in Ideas : Stamped(b.ideas[j], b.tombs[j], c.ideas[j], c.tombs[j], n)  BY <1>1, <1>2 DEF Raw, Stamped
<1>5. Follows(b, c, n)  BY <1>1, <1>3, <1>4, StampedIsLater DEF Stamped
<1> QED BY <1>5 DEF c

LEMMA WithoutIdeaFollows ==
  ASSUME NEW b, Raw(b), NEW i \in Ideas, NEW n \in Nat, Bounded(b, n)
  PROVE  Follows(b, WithoutIdea(b, i, n), n)
<1> DEFINE c == WithoutIdea(b, i, n)
<1>1. /\ DOMAIN c = DOMAIN b
      /\ c.ideas = [b.ideas EXCEPT ![i] = NoIdea] /\ c.tombs = [b.tombs EXCEPT ![i] = n]
      /\ c.nodes = b.nodes /\ c.machines = b.machines
  BY DEF Raw, WithoutIdea
<1>2. NoIdea \in IdeaNotes /\ NoIdea.at = 0  BY DEF NoIdea, IdeaNotes
<1> HIDE DEF c
<1>3. Raw(c)  BY <1>1, <1>2 DEF Raw
<1>4. \A j \in Ideas : Stamped(b.ideas[j], b.tombs[j], c.ideas[j], c.tombs[j], n)
  BY <1>1, <1>2 DEF Raw, Stamped, Ids, Items
<1>5. \A x \in Tasks \cup Machines : c.tombs[x] = b.tombs[x]  BY <1>1, BoardAssumption DEF Raw, Ids, Items
<1>6. Follows(b, c, n)  BY <1>1, <1>3, <1>4, <1>5, StampedIsLater DEF Stamped
<1> QED BY <1>6 DEF c

LEMMA ConsumeFollows ==
  ASSUME NEW b, Raw(b), NEW i \in Ideas, NEW t \in Tasks \cup {None}, NEW n \in Nat, Bounded(b, n)
  PROVE  Follows(b, [b EXCEPT !.ideas[i] = [at |-> n, task |-> t]], n)
<1> DEFINE w == [at |-> n, task |-> t]
           c == [b EXCEPT !.ideas[i] = w]
<1>1. /\ DOMAIN c = DOMAIN b
      /\ c.ideas = [b.ideas EXCEPT ![i] = w]
      /\ c.nodes = b.nodes /\ c.machines = b.machines /\ c.tombs = b.tombs
  BY DEF Raw
<1>2. w \in IdeaNotes /\ w.at = n  BY DEF IdeaNotes
<1> HIDE DEF c, w
<1>3. Raw(c)  BY <1>1, <1>2 DEF Raw
<1>4. \A j \in Ideas : Stamped(b.ideas[j], b.tombs[j], c.ideas[j], c.tombs[j], n)  BY <1>1, <1>2 DEF Raw, Stamped
<1>5. Follows(b, c, n)  BY <1>1, <1>3, <1>4, StampedIsLater DEF Stamped
<1> QED BY <1>5 DEF c, w

LEMMA ReconcileFollows ==
  ASSUME NEW b, Raw(b), NEW link \in Links(b), NEW n \in Nat, Bounded(b, n)
  PROVE  Follows(b, ReconcileConsumed(b, link, n), n)
<1> DEFINE c == ReconcileConsumed(b, link, n)
<1>1. /\ DOMAIN c = DOMAIN b
      /\ c.ideas = [i \in Ideas |-> IF i \in Unreconciled(b) THEN [at |-> n, task |-> link[i]] ELSE b.ideas[i]]
      /\ c.nodes = b.nodes /\ c.machines = b.machines /\ c.tombs = b.tombs
  BY DEF Raw, ReconcileConsumed
<1>2. \A i \in Unreconciled(b) : link[i] \in Tasks  BY DEF Links
<1> HIDE DEF c
<1>3. c.ideas \in [Ideas -> IdeaNotes]  BY <1>1, <1>2 DEF Raw, IdeaNotes
<1>4. Raw(c)  BY <1>1, <1>3 DEF Raw
<1>5. \A i \in Ideas : Stamped(b.ideas[i], b.tombs[i], c.ideas[i], c.tombs[i], n)  BY <1>1 DEF Stamped
<1>6. Follows(b, c, n)  BY <1>1, <1>4, <1>5, StampedIsLater DEF Stamped
<1> QED BY <1>6 DEF c

LEMMA WithTaskFollows ==
  ASSUME NEW b, Raw(b), NEW t \in Tasks, NEW m \in Machines \cup {None}, NEW n \in Nat, Bounded(b, n)
  PROVE  Follows(b, WithTask(b, t, m, n), n)
<1> DEFINE w == [at |-> n, machine |-> m]
           c == WithTask(b, t, m, n)
<1>1. /\ DOMAIN c = DOMAIN b
      /\ c.nodes = [b.nodes EXCEPT ![t] = w]
      /\ c.ideas = b.ideas /\ c.machines = b.machines /\ c.tombs = b.tombs
  BY DEF Raw, WithTask
<1>2. w \in TaskNodes /\ w.at = n  BY DEF TaskNodes
<1> HIDE DEF c, w
<1>3. Raw(c)  BY <1>1, <1>2 DEF Raw
<1>4. \A u \in Tasks : Stamped(b.nodes[u], b.tombs[u], c.nodes[u], c.tombs[u], n)  BY <1>1, <1>2 DEF Raw, Stamped
<1>5. Follows(b, c, n)  BY <1>1, <1>3, <1>4, StampedIsLater DEF Stamped
<1> QED BY <1>5 DEF c

\* The dependencies go with the task, whatever their tombstones are those of.
LEMMA WithoutTaskFollows ==
  ASSUME NEW b, Raw(b), NEW t \in Tasks, NEW n \in Nat, Bounded(b, n)
  PROVE  Follows(b, WithoutTask(b, t, n), n)
<1> DEFINE c == WithoutTask(b, t, n)
<1>1. /\ DOMAIN c = DOMAIN b
      /\ c.nodes = [b.nodes EXCEPT ![t] = NoTask]
      /\ c.tombs = [x \in Ids |-> IF x = t \/ x \in Touching(b, t) THEN n ELSE b.tombs[x]]
      /\ c.ideas = b.ideas /\ c.machines = b.machines
  BY DEF Raw, WithoutTask
<1>2. NoTask \in TaskNodes /\ NoTask.at = 0  BY DEF NoTask, TaskNodes
<1> HIDE DEF c
<1>3. Raw(c)  BY <1>1, <1>2 DEF Raw
<1>4. \A x \in Items : c.tombs[x] \in {b.tombs[x], n}  BY <1>1 DEF Ids
<1>5. c.tombs[t] = n  BY <1>1 DEF Ids, Items
<1>6. \A u \in Tasks : Stamped(b.nodes[u], b.tombs[u], c.nodes[u], c.tombs[u], n)
  BY <1>1, <1>2, <1>4, <1>5 DEF Raw, Stamped, Items
<1>7. \A i \in Ideas : Stamped(b.ideas[i], b.tombs[i], c.ideas[i], c.tombs[i], n)
  BY <1>1, <1>4 DEF Stamped, Items
<1>8. \A m \in Machines : Stamped(b.machines[m], b.tombs[m], c.machines[m], c.tombs[m], n)
  BY <1>1, <1>4 DEF Stamped, Items
<1>9. Follows(b, c, n)  BY <1>3, <1>6, <1>7, <1>8, StampedIsLater
<1> QED BY <1>9 DEF c

LEMMA WithBoxFollows ==
  ASSUME NEW b, Raw(b), NEW m \in Machines, NEW n \in Nat, Bounded(b, n)
  PROVE  Follows(b, WithBox(b, m, n), n)
<1> DEFINE w == [b.machines[m] EXCEPT !.at = n]
           c == WithBox(b, m, n)
<1>1. /\ DOMAIN c = DOMAIN b
      /\ c.machines = [b.machines EXCEPT ![m] = w]
      /\ c.ideas = b.ideas /\ c.nodes = b.nodes /\ c.tombs = b.tombs
  BY DEF Raw, WithBox
<1>2. w \in Boxes /\ w.at = n  BY DEF Raw, Boxes
<1> HIDE DEF c, w
<1>3. Raw(c)  BY <1>1, <1>2 DEF Raw
<1>4. \A k \in Machines : Stamped(b.machines[k], b.tombs[k], c.machines[k], c.tombs[k], n)
  BY <1>1, <1>2 DEF Raw, Stamped
<1>5. Follows(b, c, n)  BY <1>1, <1>3, <1>4, StampedIsLater DEF Stamped
<1> QED BY <1>5 DEF c

LEMMA WithoutBoxFollows ==
  ASSUME NEW b, Raw(b), NEW m \in Machines, NEW n \in Nat, Bounded(b, n)
  PROVE  Follows(b, WithoutBox(b, m, n), n)
<1> DEFINE c == WithoutBox(b, m, n)
           w == [at |-> n, machine |-> None]
<1>1. /\ DOMAIN c = DOMAIN b
      /\ c.machines = [b.machines EXCEPT ![m] = NoBox] /\ c.tombs = [b.tombs EXCEPT ![m] = n]
      /\ c.nodes = [t \in Tasks |-> IF HasTask(b, t) /\ b.nodes[t].machine = m THEN w ELSE b.nodes[t]]
      /\ c.ideas = b.ideas
  BY DEF Raw, WithoutBox
<1>2. NoBox \in Boxes /\ NoBox.at = 0  BY DEF NoBox, Boxes
<1>3. w \in TaskNodes /\ w.at = n  BY DEF TaskNodes
<1> HIDE DEF c, w
<1>4. Raw(c)
  <2>1. c.nodes \in [Tasks -> TaskNodes]  BY <1>1, <1>3 DEF Raw
  <2>2. c.machines \in [Machines -> Boxes] /\ c.tombs \in [Ids -> Nat]  BY <1>1, <1>2 DEF Raw
  <2> QED BY <1>1, <2>1, <2>2 DEF Raw
<1>5. \A x \in Ideas \cup Tasks : c.tombs[x] = b.tombs[x]  BY <1>1, BoardAssumption DEF Raw, Ids, Items
<1>6. \A k \in Machines : Stamped(b.machines[k], b.tombs[k], c.machines[k], c.tombs[k], n)
  BY <1>1, <1>2 DEF Raw, Stamped, Ids, Items
<1>7. \A t \in Tasks : Stamped(b.nodes[t], b.tombs[t], c.nodes[t], c.tombs[t], n)
  BY <1>1, <1>3, <1>5 DEF Stamped
<1>8. \A i \in Ideas : Stamped(b.ideas[i], b.tombs[i], c.ideas[i], c.tombs[i], n)  BY <1>1, <1>5 DEF Stamped
<1>9. Follows(b, c, n)  BY <1>4, <1>6, <1>7, <1>8, StampedIsLater
<1> QED BY <1>9 DEF c

\* A dependency that comes or goes.
LEMMA EdgesFollow ==
  ASSUME NEW b, Raw(b), NEW e \in Edges, NEW n \in Nat, Bounded(b, n)
  PROVE  Follows(b, WithEdge(b, e), n) /\ Follows(b, WithoutEdge(b, e, n), n)
<1> DEFINE c == WithEdge(b, e)
           d == WithoutEdge(b, e, n)
<1>1. /\ DOMAIN c = DOMAIN b
      /\ c.ideas = b.ideas /\ c.nodes = b.nodes /\ c.machines = b.machines /\ c.tombs = b.tombs
  BY DEF Raw, WithEdge
<1>2. /\ DOMAIN d = DOMAIN b
      /\ d.ideas = b.ideas /\ d.nodes = b.nodes /\ d.machines = b.machines
      /\ d.tombs = [b.tombs EXCEPT ![e] = n]
  BY DEF Raw, WithoutEdge
<1> HIDE DEF c, d
<1>3. Raw(c) /\ Raw(d)  BY <1>1, <1>2 DEF Raw
<1>4. \A x \in Items : d.tombs[x] \in {b.tombs[x], n}  BY <1>2 DEF Raw, Ids
<1>5. Follows(b, c, n)  BY <1>1, <1>3, StampedIsLater DEF Stamped
<1>6. \A i \in Ideas : Stamped(b.ideas[i], b.tombs[i], d.ideas[i], d.tombs[i], n)
  BY <1>2, <1>4 DEF Stamped, Items
<1>7. \A t \in Tasks : Stamped(b.nodes[t], b.tombs[t], d.nodes[t], d.tombs[t], n)
  BY <1>2, <1>4 DEF Stamped, Items
<1>8. \A m \in Machines : Stamped(b.machines[m], b.tombs[m], d.machines[m], d.tombs[m], n)
  BY <1>2, <1>4 DEF Stamped, Items
<1>9. Follows(b, d, n)  BY <1>3, <1>6, <1>7, <1>8, StampedIsLater
<1> QED BY <1>5, <1>9 DEF c, d

-----------------------------------------------------------------------------
(* The merge takes the larger version of every item.                       *)

\* What survives of an element: its newer copy, unless a deletion is as late.
LEMMA ScreenedIs ==
  ASSUME NEW v, NEW w, NEW nothing, NEW dead \in Nat, v.at \in Nat, w.at \in Nat, nothing.at = 0,
         NEW s, s.at = Screened(Newer(v, w), dead, nothing).at
  PROVE  /\ s.at \in {0, v.at, w.at}
         /\ s.at >= v.at \/ dead >= v.at
         /\ s.at >= w.at \/ dead >= w.at
<1>1. CASE w.at > v.at  BY <1>1 DEF Screened, Newer
<1>2. CASE ~(w.at > v.at)  BY <1>2 DEF Screened, Newer
<1> QED BY <1>1, <1>2

LEMMA DetachedIs ==
  ASSUME NEW node \in TaskNodes, NEW machines
  PROVE  Detached(node, machines) \in TaskNodes /\ Detached(node, machines).at = node.at
<1>1. [node EXCEPT !.machine = None] \in TaskNodes /\ [node EXCEPT !.machine = None].at = node.at
  BY DEF TaskNodes
<1> QED BY <1>1 DEF Detached

LEMMA MergeParts ==
  ASSUME NEW a, NEW b, Raw(a), Raw(b), NEW c, c = Merge(a, b)
  PROVE  /\ Raw(c) /\ c.tombs = MergeTombs(a.tombs, b.tombs)
         /\ c.ideas = MergeById(a.ideas, b.ideas, c.tombs, NoIdea)
         /\ c.machines = MergeById(a.machines, b.machines, c.tombs, NoBox)
         /\ \A t \in Tasks : c.nodes[t].at = MergeById(a.nodes, b.nodes, c.tombs, NoTask)[t].at
<1> DEFINE nodes == MergeById(a.nodes, b.nodes, c.tombs, NoTask)
<1>1. DOMAIN c = {"ideas", "nodes", "machines", "edges", "tombs"}  BY DEF Merge
<1>2. c.tombs = MergeTombs(a.tombs, b.tombs)  BY DEF Merge
<1>3. c.ideas = MergeById(a.ideas, b.ideas, c.tombs, NoIdea)  BY DEF Merge
<1>4. c.machines = MergeById(a.machines, b.machines, c.tombs, NoBox)  BY DEF Merge
<1>5. c.nodes = [t \in Tasks |-> Detached(nodes[t], c.machines)]  BY DEF Merge
<1> HIDE DEF nodes
<1>6. c.tombs \in [Ids -> Nat]
  <2>1. \A x \in Ids : Max({a.tombs[x], b.tombs[x]}) \in Nat
    <3> TAKE x \in Ids
    <3>1. a.tombs[x] \in Nat /\ b.tombs[x] \in Nat  BY DEF Raw
    <3> QED BY <3>1, MaxOfTwo
  <2> QED BY <1>2, <2>1 DEF MergeTombs
<1>7. NoIdea \in IdeaNotes /\ NoTask \in TaskNodes /\ NoBox \in Boxes
  BY DEF NoIdea, NoTask, NoBox, IdeaNotes, TaskNodes, Boxes
<1>8. c.ideas \in [Ideas -> IdeaNotes]  BY <1>3, <1>7 DEF Raw, MergeById, Screened, Newer
<1>9. c.machines \in [Machines -> Boxes]  BY <1>4, <1>7 DEF Raw, MergeById, Screened, Newer
<1>10. nodes \in [Tasks -> TaskNodes]  BY <1>7 DEF Raw, MergeById, Screened, Newer, nodes
<1>11. \A t \in Tasks : c.nodes[t] \in TaskNodes /\ c.nodes[t].at = nodes[t].at  BY <1>5, <1>10, DetachedIs
<1>12. c.nodes \in [Tasks -> TaskNodes]  BY <1>5, <1>11
<1>13. Raw(c)  BY <1>1, <1>6, <1>8, <1>9, <1>12 DEF Raw
<1> QED BY <1>2, <1>3, <1>4, <1>11, <1>13 DEF nodes

\* The larger of stamp and tombstone, for two copies (a and b) and their merge (c).
LEMMA LargerVersion ==
  ASSUME NEW sa \in Nat, NEW ta \in Nat, NEW va \in Nat, va >= sa, va >= ta, va = sa \/ va = ta,
         NEW sb \in Nat, NEW tb \in Nat, NEW vb \in Nat, vb >= sb, vb >= tb, vb = sb \/ vb = tb,
         NEW sc \in Nat, NEW tc \in Nat, NEW vc \in Nat, vc >= sc, vc >= tc, vc = sc \/ vc = tc,
         tc >= ta, tc >= tb, tc = ta \/ tc = tb,
         sc = 0 \/ sc = sa \/ sc = sb, sc >= sa \/ tc >= sa, sc >= sb \/ tc >= sb
  PROVE  vc >= va /\ vc >= vb /\ (vc = va \/ vc = vb)
<1>1. vc >= va /\ vc >= vb  OBVIOUS
<1>2. vc = va \/ vc = vb  BY <1>1
<1> QED BY <1>1, <1>2

\* The version of an item in the merge is its version in one of the two, and no less
\* than in either.
LEMMA MergeVersions ==
  ASSUME NEW a, NEW b, Raw(a), Raw(b), NEW c, c = Merge(a, b)
  PROVE  Knows(c, a) /\ Knows(c, b) /\ \A x \in Items : Version(c, x) \in {Version(a, x), Version(b, x)}
<1> SUFFICES ASSUME NEW x \in Items
             PROVE  /\ Version(c, x) >= Version(a, x) /\ Version(c, x) >= Version(b, x)
                    /\ Version(c, x) \in {Version(a, x), Version(b, x)}
  BY DEF Knows
<1> DEFINE sa == StampOf(a, x)
           ta == a.tombs[x]
           va == Version(a, x)
           sb == StampOf(b, x)
           tb == b.tombs[x]
           vb == Version(b, x)
           sc == StampOf(c, x)
           tc == c.tombs[x]
           vc == Version(c, x)
<1>0. /\ Raw(c) /\ c.tombs = MergeTombs(a.tombs, b.tombs)
      /\ c.ideas = MergeById(a.ideas, b.ideas, c.tombs, NoIdea)
      /\ c.machines = MergeById(a.machines, b.machines, c.tombs, NoBox)
      /\ \A t \in Tasks : c.nodes[t].at = MergeById(a.nodes, b.nodes, c.tombs, NoTask)[t].at
  BY MergeParts
<1>1. sa \in Nat /\ ta \in Nat /\ va \in Nat /\ va >= sa /\ va >= ta /\ (va = sa \/ va = ta)  BY VersionIs
<1>2. sb \in Nat /\ tb \in Nat /\ vb \in Nat /\ vb >= sb /\ vb >= tb /\ (vb = sb \/ vb = tb)  BY VersionIs
<1>3. sc \in Nat /\ tc \in Nat /\ vc \in Nat /\ vc >= sc /\ vc >= tc /\ (vc = sc \/ vc = tc)  BY <1>0, VersionIs
<1>4. tc >= ta /\ tc >= tb /\ tc \in {ta, tb}
  <2>1. c.tombs = MergeTombs(a.tombs, b.tombs) /\ x \in Ids  BY <1>0 DEF Ids
  <2>2. tc = Max({ta, tb})  BY <2>1 DEF MergeTombs
  <2> HIDE DEF ta, tb, tc
  <2> QED BY <2>2, <1>1, <1>2, MaxOfTwo
<1>5. sc \in {0, sa, sb} /\ (sc >= sa \/ tc >= sa) /\ (sc >= sb \/ tc >= sb)
  <2>1. CASE x \in Ideas
    <3>1. sa = a.ideas[x].at /\ sb = b.ideas[x].at /\ sc = c.ideas[x].at  BY <2>1, StampIs
    <3>2. c.ideas[x] = Screened(Newer(a.ideas[x], b.ideas[x]), tc, NoIdea)
      BY <2>1, <1>0 DEF MergeById, Raw
    <3>3. NoIdea.at = 0  BY DEF NoIdea
    <3> DEFINE v == a.ideas[x]
               w == b.ideas[x]
               s == c.ideas[x]
    <3>4. v.at \in Nat /\ w.at \in Nat /\ tc \in Nat  BY <3>1, <1>1, <1>2, <1>3
    <3>5. s.at = Screened(Newer(v, w), tc, NoIdea).at  BY <3>2
    <3> HIDE DEF v, w, s, tc
    <3>6. s.at \in {0, v.at, w.at} /\ (s.at >= v.at \/ tc >= v.at) /\ (s.at >= w.at \/ tc >= w.at)
      BY <3>3, <3>4, <3>5, ScreenedIs
    <3> QED BY <3>1, <3>6 DEF v, w, s
  <2>2. CASE x \in Tasks
    <3>1. sa = a.nodes[x].at /\ sb = b.nodes[x].at /\ sc = c.nodes[x].at  BY <2>2, StampIs
    <3>2. c.nodes[x].at = Screened(Newer(a.nodes[x], b.nodes[x]), tc, NoTask).at
      BY <2>2, <1>0 DEF MergeById, Raw
    <3>3. NoTask.at = 0  BY DEF NoTask
    <3> DEFINE v == a.nodes[x]
               w == b.nodes[x]
               s == c.nodes[x]
    <3>4. v.at \in Nat /\ w.at \in Nat /\ tc \in Nat  BY <3>1, <1>1, <1>2, <1>3
    <3>5. s.at = Screened(Newer(v, w), tc, NoTask).at  BY <3>2
    <3> HIDE DEF v, w, s, tc
    <3>6. s.at \in {0, v.at, w.at} /\ (s.at >= v.at \/ tc >= v.at) /\ (s.at >= w.at \/ tc >= w.at)
      BY <3>3, <3>4, <3>5, ScreenedIs
    <3> QED BY <3>1, <3>6 DEF v, w, s
  <2>3. CASE x \in Machines
    <3>1. sa = a.machines[x].at /\ sb = b.machines[x].at /\ sc = c.machines[x].at  BY <2>3, StampIs
    <3>2. c.machines[x] = Screened(Newer(a.machines[x], b.machines[x]), tc, NoBox)
      BY <2>3, <1>0 DEF MergeById, Raw
    <3>3. NoBox.at = 0  BY DEF NoBox
    <3> DEFINE v == a.machines[x]
               w == b.machines[x]
               s == c.machines[x]
    <3>4. v.at \in Nat /\ w.at \in Nat /\ tc \in Nat  BY <3>1, <1>1, <1>2, <1>3
    <3>5. s.at = Screened(Newer(v, w), tc, NoBox).at  BY <3>2
    <3> HIDE DEF v, w, s, tc
    <3>6. s.at \in {0, v.at, w.at} /\ (s.at >= v.at \/ tc >= v.at) /\ (s.at >= w.at \/ tc >= w.at)
      BY <3>3, <3>4, <3>5, ScreenedIs
    <3> QED BY <3>1, <3>6 DEF v, w, s
  <2> QED BY <2>1, <2>2, <2>3 DEF Items
<1> HIDE DEF sa, ta, va, sb, tb, vb, sc, tc, vc
<1>6. vc >= va /\ vc >= vb /\ (vc = va \/ vc = vb)
  BY <1>1, <1>2, <1>3, <1>4, <1>5, LargerVersion
<1> QED BY <1>6 DEF va, vb, vc

\* A poll that finds the hub not stale has learnt nothing the hub lacks.
LEMMA NotStale ==
  ASSUME NEW a, NEW b, Raw(a), Raw(b), ~RemoteStale(a, b)
  PROVE  Knows(b, Merge(a, b))
<1> DEFINE c == Merge(a, b)
<1>1. c = Remaining(b, c.tombs)  BY DEF RemoteStale
<1>2. Raw(c)  BY MergeParts
<1> HIDE DEF c
<1>3. /\ c.tombs = b.tombs
      /\ c.ideas = MergeById(b.ideas, b.ideas, c.tombs, NoIdea)
      /\ c.nodes = MergeById(b.nodes, b.nodes, c.tombs, NoTask)
      /\ c.machines = MergeById(b.machines, b.machines, c.tombs, NoBox)
  BY <1>1 DEF Remaining
<1>4. NoIdea.at = 0 /\ NoTask.at = 0 /\ NoBox.at = 0  BY DEF NoIdea, NoTask, NoBox
<1>5. ASSUME NEW x \in Items PROVE Version(b, x) >= Version(c, x)
  <2> DEFINE bs == StampOf(b, x)
             bt == b.tombs[x]
             bv == Version(b, x)
             cs == StampOf(c, x)
             ct == c.tombs[x]
             cv == Version(c, x)
  <2>1. bs \in Nat /\ bt \in Nat /\ bv \in Nat /\ bv >= bs /\ bv >= bt /\ (bv = bs \/ bv = bt)  BY VersionIs
  <2>2. cs \in Nat /\ ct \in Nat /\ cv \in Nat /\ cv >= cs /\ cv >= ct /\ (cv = cs \/ cv = ct)
    BY <1>2, VersionIs
  <2>3. ct = bt  BY <1>3
  <2>4. cs \in {0, bs}
    <3>0. \A w, nothing : nothing.at = 0 => Screened(Newer(w, w), ct, nothing).at \in {0, w.at}
      BY DEF Screened, Newer
    <3>1. CASE x \in Ideas
      <4>1. c.ideas[x] = Screened(Newer(b.ideas[x], b.ideas[x]), ct, NoIdea)  BY <3>1, <1>3 DEF MergeById, Raw
      <4> QED BY <4>1, <3>0, <3>1, <1>4, StampIs
    <3>2. CASE x \in Tasks
      <4>1. c.nodes[x] = Screened(Newer(b.nodes[x], b.nodes[x]), ct, NoTask)  BY <3>2, <1>3 DEF MergeById, Raw
      <4> QED BY <4>1, <3>0, <3>2, <1>4, StampIs
    <3>3. CASE x \in Machines
      <4>1. c.machines[x] = Screened(Newer(b.machines[x], b.machines[x]), ct, NoBox)
        BY <3>3, <1>3 DEF MergeById, Raw
      <4> QED BY <4>1, <3>0, <3>3, <1>4, StampIs
    <3> QED BY <3>1, <3>2, <3>3 DEF Items
  <2> HIDE DEF bs, bt, bv, cs, ct, cv
  <2>5. bv >= cv  BY <2>1, <2>2, <2>3, <2>4
  <2> QED BY <2>5 DEF bv, cv
<1> QED BY <1>5 DEF Knows, c

\* The merge of two boards that know of nothing later than n does not either.
LEMMA MergeIsBounded ==
  ASSUME NEW a, NEW b, Raw(a), Raw(b), NEW n \in Nat, Bounded(a, n), Bounded(b, n)
  PROVE  Raw(Merge(a, b)) /\ Bounded(Merge(a, b), n) /\ Knows(Merge(a, b), a) /\ Knows(Merge(a, b), b)
<1> DEFINE c == Merge(a, b)
<1>1. Raw(c)  BY MergeParts
<1>2. Knows(c, a) /\ Knows(c, b) /\ \A x \in Items : Version(c, x) \in {Version(a, x), Version(b, x)}
  BY MergeVersions
<1> HIDE DEF c
<1>3. Bounded(c, n)  BY <1>2 DEF Bounded
<1> QED BY <1>1, <1>2, <1>3 DEF c

-----------------------------------------------------------------------------
(* The inductive invariant.                                                *)

Shape ==
  /\ DOMAIN board = Replicas /\ DOMAIN op = Replicas /\ DOMAIN held = Peers
  /\ phase \in [Peers -> Phases] /\ now \in Nat
  /\ dirty \in [Peers -> BOOLEAN] /\ due \in [Peers -> BOOLEAN] /\ contact \in [Peers -> BOOLEAN]

BoardsAreBounded ==
  /\ \A r \in Replicas : Raw(board[r]) /\ Bounded(board[r], now)
  /\ \A p \in Peers : Raw(held[p]) /\ Bounded(held[p], now)

\* The second half of an edit writes an idea, and its stamp is still the last.
SecondHalf(o, n) == o.do \in {"consume", "unconsume"} => o.task \in Tasks /\ Origin[o.task] \in Ideas /\ o.at = n

HalvesAreLast == \A r \in Replicas : SecondHalf(op[r], now)

Basics == Shape /\ BoardsAreBounded /\ HalvesAreLast

\* p has noticed all its edits and owes the hub no push.
Quiet(p) == ~dirty[p] /\ ~due[p] /\ op[p] = NoOp

\* Where the hub's copy and p's own stand while they are exchanged.
Exchanging(p) ==
  /\ Clean(p) => Knows(board[Hub], board[p])
  /\ phase[p] = "polled" => Knows(board[Hub], held[p])
  /\ phase[p] = "posting" /\ Quiet(p) => Knows(held[p], board[p])
  /\ phase[p] = "accepted" /\ Quiet(p) => Knows(board[Hub], board[p])

SInv == Basics /\ \A p \in Peers : Exchanging(p)

\* No board forgets in this step.
Grows == \A r \in Replicas : Knows(board'[r], board[r])

-----------------------------------------------------------------------------
(* Edits.                                                                  *)

\* What every edit of r comes to.
Edited(r) ==
  /\ op[r] = NoOp /\ now' = now + 1 /\ (Halfway(Replicas) => SlowRequests)
  /\ board' = [board EXCEPT ![r] = board'[r]]
  /\ op' = [op EXCEPT ![r] = op'[r]]
  /\ UNCHANGED peerVars
  /\ Follows(board[r], board'[r], now')
  /\ op'[r] # NoOp /\ SecondHalf(op'[r], now')

LEMMA EditIsEdited ==
  ASSUME Basics, NEW r \in Replicas, NEW kind, NEW c, NEW rest, NEW n, n = now + 1,
         Edit(r, kind, c, rest), Follows(board[r], c, n), rest # NoOp, SecondHalf(rest, n)
  PROVE  Edited(r)
<1>1. board'[r] = c /\ op'[r] = rest /\ now' = n  BY DEF Edit, Basics, Shape
<1> QED BY <1>1 DEF Edit, Edited

LEMMA RestIsKnown ==
  ASSUME Basics, NEW n, n = now + 1
  PROVE  /\ Notify # NoOp /\ SecondHalf(Notify, n)
         /\ \A t \in Tasks, do \in {"consume", "unconsume"} :
              InNotes(do, t) # NoOp /\ SecondHalf(InNotes(do, t), n)
<1>1. Notify # NoOp /\ SecondHalf(Notify, n)  BY DEF Notify, NoOp, SecondHalf
<1>2. ASSUME NEW t \in Tasks, NEW do \in {"consume", "unconsume"}
      PROVE  InNotes(do, t) # NoOp /\ SecondHalf(InNotes(do, t), n)
  <2>1. CASE Origin[t] = None  BY <1>1, <2>1 DEF InNotes
  <2>2. CASE Origin[t] # None
    <3>1. Origin[t] \in Ideas  BY <2>2, BoardAssumption
    <3>2. InNotes(do, t) = [do |-> do, task |-> t, at |-> n]  BY <2>2 DEF InNotes
    <3> QED BY <3>1, <3>2 DEF NoOp, SecondHalf
  <2> QED BY <2>1, <2>2
<1> QED BY <1>1, <1>2

LEMMA EditsAreEdited ==
  ASSUME Basics, NEW r \in Replicas, EditIdeas(r) \/ EditTasks(r) \/ EditBoxes(r) \/ EditEdges(r)
  PROVE  Edited(r)
<1> DEFINE n == now + 1
           b == board[r]
<1>1. n \in Nat /\ n = now + 1 /\ now \in Nat /\ now <= n  BY DEF Basics, Shape
<1>2. Raw(b) /\ Bounded(b, now)  BY DEF Basics, BoardsAreBounded
<1> HIDE DEF n
<1>3. Bounded(b, n)
  <2> HIDE DEF b
  <2> QED BY <1>1, <1>2, BoundGrows
<1>4. /\ Notify # NoOp /\ SecondHalf(Notify, n)
      /\ \A t \in Tasks, do \in {"consume", "unconsume"} : InNotes(do, t) # NoOp /\ SecondHalf(InNotes(do, t), n)
  BY <1>1, RestIsKnown
<1>5. \A kind, c : Edit(r, kind, c, Notify) /\ Follows(b, c, n) => Edited(r)  BY <1>1, <1>4, EditIsEdited
<1>6. \A kind, c : \A t \in Tasks, do \in {"consume", "unconsume"} :
        Edit(r, kind, c, InNotes(do, t)) /\ Follows(b, c, n) => Edited(r)
  BY <1>1, <1>4, EditIsEdited
<1>7. CASE EditIdeas(r)
  <2>1. PICK i \in Ideas : AddIdea(r, i) \/ UpdateIdea(r, i) \/ DeleteIdea(r, i)  BY <1>7 DEF EditIdeas
  <2>2. Follows(b, WithIdea(b, i, n), n) /\ Follows(b, WithoutIdea(b, i, n), n)
    BY <1>1, <1>2, <1>3, WithIdeaFollows, WithoutIdeaFollows
  <2>3. CASE AddIdea(r, i) \/ UpdateIdea(r, i)
    <3>1. \E kind : Edit(r, kind, WithIdea(b, i, n), Notify)  BY <2>3, <1>1 DEF AddIdea, UpdateIdea
    <3> QED BY <3>1, <2>2, <1>5
  <2>4. CASE DeleteIdea(r, i)
    <3>1. Edit(r, "deleteIdea", WithoutIdea(b, i, n), Notify)  BY <2>4, <1>1 DEF DeleteIdea
    <3> QED BY <3>1, <2>2, <1>5
  <2> QED BY <2>1, <2>3, <2>4
<1>8. CASE EditTasks(r)
  <2>1. PICK t \in Tasks : DeleteNode(r, t) \/ \E m \in Machines \cup {None} : AddNode(r, t, m) \/ UpdateNode(r, t, m)
    BY <1>8 DEF EditTasks
  <2>2. CASE DeleteNode(r, t)
    <3>1. Edit(r, "deleteTask", WithoutTask(b, t, n), InNotes("unconsume", t))  BY <2>2, <1>1 DEF DeleteNode
    <3>2. Follows(b, WithoutTask(b, t, n), n)  BY <1>1, <1>2, <1>3, WithoutTaskFollows
    <3> QED BY <3>1, <3>2, <1>6
  <2>3. CASE \E m \in Machines \cup {None} : AddNode(r, t, m) \/ UpdateNode(r, t, m)
    <3>1. PICK m \in Machines \cup {None} : AddNode(r, t, m) \/ UpdateNode(r, t, m)  BY <2>3
    <3>2. Follows(b, WithTask(b, t, m, n), n)  BY <1>1, <1>2, <1>3, WithTaskFollows
    <3>3. CASE AddNode(r, t, m)
      <4>1. Edit(r, "addTask", WithTask(b, t, m, n), InNotes("consume", t))  BY <3>3, <1>1 DEF AddNode
      <4> QED BY <4>1, <3>2, <1>6
    <3>4. CASE UpdateNode(r, t, m)
      <4>1. Edit(r, "updateTask", WithTask(b, t, m, n), Notify)  BY <3>4, <1>1 DEF UpdateNode
      <4> QED BY <4>1, <3>2, <1>5
    <3> QED BY <3>1, <3>3, <3>4
  <2> QED BY <2>1, <2>2, <2>3
<1>9. CASE EditBoxes(r)
  <2>1. PICK m \in Machines : AddMachine(r, m) \/ UpdateMachine(r, m) \/ DeleteMachine(r, m)  BY <1>9 DEF EditBoxes
  <2>2. Follows(b, WithBox(b, m, n), n) /\ Follows(b, WithoutBox(b, m, n), n)
    BY <1>1, <1>2, <1>3, WithBoxFollows, WithoutBoxFollows
  <2>3. CASE AddMachine(r, m) \/ UpdateMachine(r, m)
    <3>1. \E kind : Edit(r, kind, WithBox(b, m, n), Notify)  BY <2>3, <1>1 DEF AddMachine, UpdateMachine
    <3> QED BY <3>1, <2>2, <1>5
  <2>4. CASE DeleteMachine(r, m)
    <3>1. Edit(r, "deleteBox", WithoutBox(b, m, n), Notify)  BY <2>4, <1>1 DEF DeleteMachine
    <3> QED BY <3>1, <2>2, <1>5
  <2> QED BY <2>1, <2>3, <2>4
<1>10. CASE EditEdges(r)
  <2>1. PICK e \in Edges : AddEdge(r, e) \/ DeleteEdge(r, e)  BY <1>10 DEF EditEdges
  <2>2. Follows(b, WithEdge(b, e), n) /\ Follows(b, WithoutEdge(b, e, n), n)  BY <1>1, <1>2, <1>3, EdgesFollow
  <2>3. CASE AddEdge(r, e)
    <3>1. Edit(r, "addEdge", WithEdge(b, e), Notify)  BY <2>3 DEF AddEdge
    <3> QED BY <3>1, <2>2, <1>5
  <2>4. CASE DeleteEdge(r, e)
    <3>1. Edit(r, "deleteEdge", WithoutEdge(b, e, n), Notify)  BY <2>4, <1>1 DEF DeleteEdge
    <3> QED BY <3>1, <2>2, <1>5
  <2> QED BY <2>1, <2>3, <2>4
<1> QED BY <1>7, <1>8, <1>9, <1>10

-----------------------------------------------------------------------------
(* Every step keeps the basics, and no board forgets.                      *)

\* One board moves, and the clock by one or not at all.
LEMMA OneBoardMoves ==
  ASSUME Basics, NEW r \in Replicas, board' = board \/ board' = [board EXCEPT ![r] = board'[r]],
         Raw(board'[r]), Bounded(board'[r], now'), Knows(board'[r], board[r]), now' \in {now, now + 1}
  PROVE  /\ Grows /\ DOMAIN board' = Replicas /\ now' \in Nat
         /\ \A q \in Replicas : Raw(board'[q]) /\ Bounded(board'[q], now')
<1>1. now \in Nat /\ now' \in Nat /\ now <= now'  BY DEF Basics, Shape
<1>2. DOMAIN board' = Replicas  BY DEF Basics, Shape
<1>3. ASSUME NEW q \in Replicas
      PROVE  Knows(board'[q], board[q]) /\ Raw(board'[q]) /\ Bounded(board'[q], now')
  <2>1. CASE q = r  BY <2>1
  <2>2. CASE q # r
    <3>1. board'[q] = board[q]  BY <2>2 DEF Basics, Shape
    <3>2. Raw(board[q]) /\ Bounded(board[q], now)  BY DEF Basics, BoardsAreBounded
    <3>3. Bounded(board[q], now')  BY <3>2, <1>1, BoundGrows
    <3>4. Knows(board[q], board[q])  BY <3>2, KnowsIsReflexive
    <3> QED BY <3>1, <3>2, <3>3, <3>4
  <2> QED BY <2>1, <2>2
<1> QED BY <1>1, <1>2, <1>3 DEF Grows

LEMMA BoardsStay ==
  ASSUME Basics, UNCHANGED <<board, now>>
  PROVE  /\ Grows /\ DOMAIN board' = Replicas /\ now' \in Nat
         /\ \A q \in Replicas : Raw(board'[q]) /\ Bounded(board'[q], now')
<1>1. \A q \in Replicas : Raw(board[q]) /\ Bounded(board[q], now)  BY DEF Basics, BoardsAreBounded
<1>2. \A q \in Replicas : Knows(board[q], board[q])  BY <1>1, KnowsIsReflexive
<1> QED BY <1>1, <1>2 DEF Grows, Basics, Shape

\* What a peer holds is a board it got, the merge of one, or nothing.
LEMMA HeldMoves ==
  ASSUME Basics, NEW p \in Peers, now' \in Nat, now <= now',
         held' = held \/ (held' = [held EXCEPT ![p] = held'[p]] /\ Raw(held'[p]) /\ Bounded(held'[p], now'))
  PROVE  DOMAIN held' = Peers /\ \A q \in Peers : Raw(held'[q]) /\ Bounded(held'[q], now')
<1>1. DOMAIN held' = Peers  BY DEF Basics, Shape
<1>2. ASSUME NEW q \in Peers PROVE Raw(held'[q]) /\ Bounded(held'[q], now')
  <2>1. Raw(held[q]) /\ Bounded(held[q], now)  BY DEF Basics, BoardsAreBounded
  <2>2. Raw(held[q]) /\ Bounded(held[q], now')  BY <2>1, BoundGrows DEF Basics, Shape
  <2>3. held'[q] = held[q] \/ (q = p /\ Raw(held'[q]) /\ Bounded(held'[q], now'))  BY DEF Basics, Shape
  <2> QED BY <2>2, <2>3
<1> QED BY <1>1, <1>2

\* A board with nothing on it.
LEMMA EmptyKnowsNothing ==
  ASSUME NEW n \in Nat
  PROVE  Raw(EmptyBoard) /\ Bounded(EmptyBoard, n)
<1>1. Raw(EmptyBoard)
  BY DEF Raw, EmptyBoard, NoIdea, NoTask, NoBox, IdeaNotes, TaskNodes, Boxes
<1>2. ASSUME NEW x \in Items PROVE StampOf(EmptyBoard, x) = 0 /\ EmptyBoard.tombs[x] = 0
  <2>1. EmptyBoard.tombs[x] = 0  BY DEF EmptyBoard, Ids
  <2>2. CASE x \in Ideas  BY <2>1, <2>2, StampIs DEF EmptyBoard, NoIdea
  <2>3. CASE x \in Tasks  BY <2>1, <2>3, StampIs DEF EmptyBoard, NoTask
  <2>4. CASE x \in Machines  BY <2>1, <2>4, StampIs DEF EmptyBoard, NoBox
  <2> QED BY <2>2, <2>3, <2>4 DEF Items
<1>3. ASSUME NEW x \in Items PROVE Version(EmptyBoard, x) <= n
  <2>1. Version(EmptyBoard, x) = StampOf(EmptyBoard, x) \/ Version(EmptyBoard, x) = EmptyBoard.tombs[x]
    BY <1>1, VersionIs
  <2> QED BY <2>1, <1>2
<1> QED BY <1>1, <1>3 DEF Bounded

\* The second half of an edit is the last edit when it is written.
LEMMA WriteNotesFollows ==
  ASSUME Basics, NEW r \in Replicas, WriteNotes(r)
  PROVE  board' = [board EXCEPT ![r] = board'[r]] /\ Follows(board[r], board'[r], now)
<1> DEFINE b == board[r]
           t == op[r].task
<1>1. now \in Nat /\ Raw(b) /\ Bounded(b, now)  BY DEF Basics, BoardsAreBounded, Shape
<1>2. t \in Tasks /\ Origin[t] \in Ideas /\ op[r].at = now  BY DEF WriteNotes, Basics, HalvesAreLast, SecondHalf
<1>3. \/ board'[r] = Consume(b, Origin[t], t, now)
      \/ board'[r] = Unconsume(b, Origin[t], t, now)
  BY <1>2 DEF WriteNotes, Basics, Shape
<1>4. board' = [board EXCEPT ![r] = board'[r]]  BY DEF WriteNotes, Basics, Shape
<1> HIDE DEF b, t
<1>5. Follows(b, b, now)  BY <1>1, KnowsIsReflexive DEF Follows
<1>6. /\ Follows(b, [b EXCEPT !.ideas[Origin[t]] = [at |-> now, task |-> t]], now)
      /\ Follows(b, [b EXCEPT !.ideas[Origin[t]] = [at |-> now, task |-> None]], now)
  BY <1>1, <1>2, ConsumeFollows
<1>7. Follows(b, board'[r], now)  BY <1>3, <1>5, <1>6 DEF Consume, Unconsume
<1> QED BY <1>4, <1>7 DEF b

LEMMA MigratesFollows ==
  ASSUME Basics, NEW r \in Replicas, Migrates(r)
  PROVE  /\ board' = board \/ board' = [board EXCEPT ![r] = board'[r]]
         /\ now' \in {now, now + 1}
         /\ Follows(board[r], board'[r], now')
         /\ op' = [op EXCEPT ![r] = op'[r]] /\ op'[r] \in {NoOp, Notify}
         /\ now' # now => (Halfway(Replicas \ {r}) => SlowRequests)
<1> DEFINE b == board[r]
<1>1. now \in Nat /\ Raw(b) /\ Bounded(b, now)  BY DEF Basics, BoardsAreBounded, Shape
<1>2. CASE Unreconciled(board[r]) = {} /\ op' = [op EXCEPT ![r] = NoOp] /\ UNCHANGED <<board, now>>
  <2> HIDE DEF b
  <2>1. Follows(b, b, now)  BY <1>1, KnowsIsReflexive DEF Follows
  <2>2. op'[r] = NoOp /\ op' = [op EXCEPT ![r] = op'[r]]  BY <1>2 DEF Basics, Shape
  <2>3. board'[r] = b /\ board' = board /\ now' = now  BY <1>2 DEF b
  <2> QED BY <2>1, <2>2, <2>3 DEF b
<1>3. CASE /\ Unreconciled(board[r]) # {} /\ (Halfway(Replicas \ {r}) => SlowRequests)
           /\ now' = now + 1
           /\ \E link \in Links(board[r]) : board' = [board EXCEPT ![r] = ReconcileConsumed(@, link, now + 1)]
           /\ op' = [op EXCEPT ![r] = Notify]
  <2>1. PICK link \in Links(b) : board' = [board EXCEPT ![r] = ReconcileConsumed(b, link, now')]  BY <1>3
  <2>2. board'[r] = ReconcileConsumed(b, link, now') /\ board' = [board EXCEPT ![r] = board'[r]]
    BY <2>1 DEF Basics, Shape
  <2>3. now' \in Nat /\ now <= now'  BY <1>1, <1>3
  <2>4. op'[r] = Notify /\ op' = [op EXCEPT ![r] = op'[r]]  BY <1>3 DEF Basics, Shape
  <2> HIDE DEF b
  <2>5. Bounded(b, now')  BY <1>1, <2>3, BoundGrows
  <2>6. Follows(b, board'[r], now')  BY <1>1, <2>2, <2>3, <2>5, ReconcileFollows
  <2> QED BY <1>3, <2>2, <2>4, <2>6 DEF b
<1> QED BY <1>2, <1>3 DEF Migrates

\* The flags and phases, step by step.
Flags ==
  /\ phase \in [Peers -> Phases]
  /\ dirty \in [Peers -> BOOLEAN] /\ due \in [Peers -> BOOLEAN] /\ contact \in [Peers -> BOOLEAN]

LEMMA FlagsStay ==
  ASSUME Basics, NEW r \in Replicas,
         Edited(r) \/ WriteNotes(r) \/ OnLocalChange(r) \/ Restart(r) \/ UNCHANGED vars
  PROVE  Flags'
<1>1. Flags  BY DEF Basics, Shape, Flags
<1>2. CASE Edited(r) \/ WriteNotes(r) \/ UNCHANGED vars  BY <1>1, <1>2 DEF Edited, WriteNotes, vars, peerVars, Flags
<1>3. CASE OnLocalChange(r)  BY <1>1, <1>3 DEF OnLocalChange, peerVars, Flags
<1>4. CASE Restart(r)  BY <1>1, <1>4 DEF Restart, Rests, peerVars, Flags, Phases
<1> QED BY <1>2, <1>3, <1>4

LEMMA PeerFlagsStay ==
  ASSUME Basics, NEW p \in Peers, Nudge(p) \/ Tick(p) \/ Lose(p)
  PROVE  Flags'
<1>1. Flags  BY DEF Basics, Shape, Flags
<1>2. CASE Nudge(p)  BY <1>1, <1>2 DEF Nudge, Flags
<1>3. CASE Tick(p)
  <2>1. CASE StartPush(p)  BY <1>1, <2>1 DEF StartPush, Flags, Phases
  <2>2. CASE PushBegins(p)  BY <1>1, <2>2 DEF PushBegins, Flags, Phases
  <2>3. CASE StartPoll(p)  BY <1>1, <2>3 DEF StartPoll, Flags, Phases
  <2>4. CASE HubGet(p)  BY <1>1, <2>4 DEF HubGet, Flags, Phases
  <2>5. CASE PollMerges(p)
    <3> DEFINE stale == RemoteStale(board[p], held[p])
    <3>1. stale \in BOOLEAN  BY DEF RemoteStale
    <3>2. phase' = [phase EXCEPT ![p] = "idle"] /\ contact' = [contact EXCEPT ![p] = TRUE]  BY <2>5 DEF PollMerges
    <3>3. dirty' = [dirty EXCEPT ![p] = @ \/ stale] /\ due' = [due EXCEPT ![p] = @ \/ stale]
      BY <2>5 DEF PollMerges
    <3> HIDE DEF stale
    <3>4. dirty' \in [Peers -> BOOLEAN] /\ due' \in [Peers -> BOOLEAN]  BY <1>1, <3>1, <3>3 DEF Flags
    <3> QED BY <1>1, <3>2, <3>4 DEF Flags, Phases
  <2>6. CASE PullMerges(p)  BY <1>1, <2>6 DEF PullMerges, Flags, Phases
  <2>7. CASE HubAccepts(p)  BY <1>1, <2>7 DEF HubAccepts, Rests, Flags, Phases
  <2>8. CASE HubRefuses(p)  BY <1>1, <2>8 DEF HubRefuses, Rests, Flags, Phases
  <2>9. CASE PushSucceeds(p)  BY <1>1, <2>9 DEF PushSucceeds, Rests, Flags, Phases
  <2>10. CASE PushConflicts(p)  BY <1>1, <2>10 DEF PushConflicts, FailDirty, Rests, Flags, Phases
  <2> QED BY <1>3, <2>1, <2>2, <2>3, <2>4, <2>5, <2>6, <2>7, <2>8, <2>9, <2>10 DEF Tick
<1>4. CASE Lose(p)  BY <1>1, <1>4 DEF Lose, FailDirty, Rests, Flags, Phases
<1> QED BY <1>2, <1>3, <1>4

\* A step of one request thread, or a restart.
LEMMA ReplicaStepKeepsBasics ==
  ASSUME ~SlowRequests, Basics, NEW r \in Replicas, Edited(r) \/ WriteNotes(r) \/ OnLocalChange(r) \/ Restart(r)
  PROVE  Basics' /\ Grows
<1>1. Flags'  BY FlagsStay
<1>2. /\ now \in Nat /\ now' \in {now, now + 1}
      /\ board' = board \/ board' = [board EXCEPT ![r] = board'[r]]
      /\ Follows(board[r], board'[r], now')
  <2>1. CASE Edited(r)  BY <2>1 DEF Edited, Basics, Shape
  <2>2. CASE WriteNotes(r)  BY <2>2, WriteNotesFollows DEF WriteNotes, Basics, Shape
  <2>3. CASE OnLocalChange(r)
    <3>1. Raw(board[r]) /\ Bounded(board[r], now)  BY DEF Basics, BoardsAreBounded
    <3>2. Follows(board[r], board[r], now)  BY <3>1, KnowsIsReflexive DEF Follows
    <3> QED BY <2>3, <3>2 DEF OnLocalChange, Basics, Shape
  <2>4. CASE Restart(r)  BY <2>4, MigratesFollows DEF Restart, Basics, Shape
  <2> QED BY <2>1, <2>2, <2>3, <2>4
<1>3. /\ Grows /\ DOMAIN board' = Replicas /\ now' \in Nat
      /\ \A q \in Replicas : Raw(board'[q]) /\ Bounded(board'[q], now')
  BY <1>2, OneBoardMoves DEF Follows
<1>4. DOMAIN held' = Peers /\ \A q \in Peers : Raw(held'[q]) /\ Bounded(held'[q], now')
  <2>0. now <= now'  BY <1>2
  <2>1. CASE held' = held
    <3>1. DOMAIN held' = Peers  BY <2>1 DEF Basics, Shape
    <3>2. \A q \in Peers : Raw(held'[q]) /\ Bounded(held'[q], now')
      BY <2>0, <2>1, <1>3, BoundGrows DEF Basics, BoardsAreBounded, Shape
    <3> QED BY <3>1, <3>2
  <2>2. CASE r \in Peers /\ held' = [held EXCEPT ![r] = Nothing]
    <3>1. held'[r] = Nothing /\ held' = [held EXCEPT ![r] = held'[r]]  BY <2>2 DEF Basics, Shape
    <3>2. Raw(held'[r]) /\ Bounded(held'[r], now')  BY <3>1, <1>3, EmptyKnowsNothing DEF Nothing
    <3> QED BY <2>0, <2>2, <3>1, <3>2, <1>3, HeldMoves
  <2>3. held' = held \/ (r \in Peers /\ held' = [held EXCEPT ![r] = Nothing])
    BY DEF Edited, WriteNotes, OnLocalChange, Restart, Rests, peerVars
  <2> QED BY <2>1, <2>2, <2>3
<1>5. DOMAIN op' = Replicas /\ HalvesAreLast'
  <2>1. op' = [op EXCEPT ![r] = op'[r]] /\ SecondHalf(op'[r], now')
    <3>1. SecondHalf(NoOp, now') /\ SecondHalf(Notify, now')  BY DEF SecondHalf, NoOp, Notify
    <3>2. CASE Edited(r)  BY <3>2 DEF Edited
    <3>3. CASE WriteNotes(r)
      <4>1. op'[r] = Notify /\ op' = [op EXCEPT ![r] = op'[r]]  BY <3>3 DEF WriteNotes, Basics, Shape
      <4> QED BY <4>1, <3>1
    <3>4. CASE OnLocalChange(r)
      <4>1. op'[r] = NoOp /\ op' = [op EXCEPT ![r] = op'[r]]  BY <3>4 DEF OnLocalChange, Basics, Shape
      <4> QED BY <4>1, <3>1
    <3>5. CASE Restart(r)  BY <3>5, <3>1, MigratesFollows DEF Restart
    <3> QED BY <3>2, <3>3, <3>4, <3>5
  <2>2. now' = now \/ ~Halfway(Replicas \ {r})
    BY MigratesFollows DEF Edited, WriteNotes, OnLocalChange, Restart, Halfway
  <2>3. ASSUME NEW q \in Replicas PROVE SecondHalf(op'[q], now')
    <3>1. CASE q = r  BY <3>1, <2>1
    <3>2. CASE q # r
      <4>1. op'[q] = op[q] /\ SecondHalf(op[q], now)  BY <2>1, <3>2 DEF Basics, Shape, HalvesAreLast
      <4>2. now' = now \/ op[q].do \notin {"consume", "unconsume"}  BY <2>2, <3>2 DEF Halfway
      <4> QED BY <4>1, <4>2 DEF SecondHalf
    <3> QED BY <3>1, <3>2
  <2>4. DOMAIN op' = Replicas  BY <2>1 DEF Basics, Shape
  <2> QED BY <2>3, <2>4 DEF HalvesAreLast
<1> QED BY <1>1, <1>3, <1>4, <1>5 DEF Basics, Shape, BoardsAreBounded, Flags

\* A step of a peer's loop, of the hub for it, or a lost request.
LEMMA PeerStepKeepsBasics ==
  ASSUME Basics, NEW p \in Peers, Nudge(p) \/ Tick(p) \/ Lose(p)
  PROVE  Basics' /\ Grows
<1>1. Flags'  BY PeerFlagsStay
<1>2. op' = op /\ now' = now
  BY DEF Nudge, Tick, Lose, StartPush, PushBegins, StartPoll, HubGet, PollMerges, PullMerges, HubAccepts,
         HubRefuses, PushSucceeds, PushConflicts
<1>3. now \in Nat /\ Hub \in Replicas /\ p \in Replicas /\ p # Hub  BY SyncAssumption DEF Basics, Shape, Replicas
<1>4. /\ Raw(board[p]) /\ Bounded(board[p], now) /\ Raw(board[Hub]) /\ Bounded(board[Hub], now)
      /\ Raw(held[p]) /\ Bounded(held[p], now)
  BY <1>3 DEF Basics, BoardsAreBounded
<1>5. Raw(Nothing) /\ Bounded(Nothing, now)  BY <1>3, EmptyKnowsNothing DEF Nothing
<1>6. /\ Grows /\ DOMAIN board' = Replicas /\ now' \in Nat
      /\ \A q \in Replicas : Raw(board'[q]) /\ Bounded(board'[q], now')
  <2>1. CASE board' = board  BY <2>1, <1>2, BoardsStay
  <2>2. CASE PollMerges(p) \/ PullMerges(p)
    <3>1. board' = [board EXCEPT ![p] = Merge(board[p], held[p])]  BY <2>2 DEF PollMerges, PullMerges
    <3>2. board'[p] = Merge(board[p], held[p]) /\ board' = [board EXCEPT ![p] = board'[p]]
      BY <3>1, <1>3 DEF Basics, Shape
    <3>3. Raw(board'[p]) /\ Bounded(board'[p], now) /\ Knows(board'[p], board[p])
      BY <3>2, <1>3, <1>4, MergeIsBounded
    <3> QED BY <3>2, <3>3, <1>2, <1>3, OneBoardMoves
  <2>3. CASE HubAccepts(p)
    <3>1. board' = [board EXCEPT ![Hub] = Merge(board[Hub], held[p])]  BY <2>3 DEF HubAccepts
    <3>2. board'[Hub] = Merge(board[Hub], held[p]) /\ board' = [board EXCEPT ![Hub] = board'[Hub]]
      BY <3>1, <1>3 DEF Basics, Shape
    <3>3. Raw(board'[Hub]) /\ Bounded(board'[Hub], now) /\ Knows(board'[Hub], board[Hub])
      BY <3>2, <1>3, <1>4, MergeIsBounded
    <3> QED BY <3>2, <3>3, <1>2, <1>3, OneBoardMoves
  <2> QED BY <2>1, <2>2, <2>3
        DEF Nudge, Tick, Lose, StartPush, PushBegins, StartPoll, HubGet, HubRefuses, PushSucceeds, PushConflicts
<1>7. held' = held \/ (held' = [held EXCEPT ![p] = held'[p]] /\ Raw(held'[p]) /\ Bounded(held'[p], now'))
  <2>1. CASE held' = held  BY <2>1
  <2>2. CASE HubGet(p)
    <3>1. held'[p] = board[Hub] /\ held' = [held EXCEPT ![p] = held'[p]]  BY <2>2 DEF HubGet, Basics, Shape
    <3> QED BY <3>1, <1>2, <1>4
  <2>3. CASE PullMerges(p)
    <3>1. held'[p] = Merge(board[p], held[p]) /\ held' = [held EXCEPT ![p] = held'[p]]
      BY <2>3 DEF PullMerges, Basics, Shape
    <3>2. Raw(held'[p]) /\ Bounded(held'[p], now)  BY <3>1, <1>3, <1>4, MergeIsBounded
    <3> QED BY <3>1, <3>2, <1>2
  <2>4. CASE held' = [held EXCEPT ![p] = Nothing]
    <3>1. held'[p] = Nothing /\ held' = [held EXCEPT ![p] = held'[p]]  BY <2>4 DEF Basics, Shape
    <3> QED BY <3>1, <1>2, <1>5
  <2> QED BY <2>1, <2>2, <2>3, <2>4
        DEF Nudge, Tick, Lose, StartPush, PushBegins, StartPoll, PollMerges, HubAccepts, HubRefuses, PushSucceeds,
            PushConflicts, Rests, FailDirty
<1>8. DOMAIN held' = Peers /\ \A q \in Peers : Raw(held'[q]) /\ Bounded(held'[q], now')
  <2>1. now <= now' /\ now' \in Nat  BY <1>2, <1>3
  <2> QED BY <2>1, <1>7, HeldMoves
<1>9. DOMAIN op' = Replicas /\ HalvesAreLast'  BY <1>2 DEF Basics, Shape, HalvesAreLast
<1> QED BY <1>1, <1>6, <1>8, <1>9 DEF Basics, Shape, BoardsAreBounded, Flags

-----------------------------------------------------------------------------
(* Every step keeps the exchange of every peer.                            *)

\* The hub may learn more, and q become less quiet; nothing else of q moves.
LEMMA ExchangeIsKept ==
  ASSUME Basics, Basics', Grows, NEW q \in Peers, Exchanging(q),
         board'[q] = board[q], held'[q] = held[q], phase'[q] = phase[q],
         contact'[q] => contact[q], Quiet(q)' => Quiet(q)
  PROVE  Exchanging(q)'
<1>1. Hub \in Replicas /\ q \in Replicas  BY DEF Replicas
<1>2. Raw(board[Hub]) /\ Raw(board'[Hub]) /\ Knows(board'[Hub], board[Hub]) /\ Raw(board[q]) /\ Raw(held[q])
  BY <1>1 DEF Basics, BoardsAreBounded, Grows
<1>3. Knows(board[Hub], board[q]) => Knows(board'[Hub], board[q])  BY <1>2, KnowsIsTransitive
<1>4. Knows(board[Hub], held[q]) => Knows(board'[Hub], held[q])  BY <1>2, KnowsIsTransitive
<1>5. Clean(q)' => Clean(q)  BY DEF Clean, Quiet
<1> QED BY <1>3, <1>4, <1>5 DEF Exchanging

\* q has an edit to notice, or a push to make.
LEMMA ExchangeWaits ==
  ASSUME Basics, Basics', Grows, NEW q \in Peers, Exchanging(q),
         held'[q] = held[q], phase'[q] = phase[q], ~(Quiet(q)')
  PROVE  Exchanging(q)'
<1>1. Hub \in Replicas  BY DEF Replicas
<1>2. Raw(board[Hub]) /\ Raw(board'[Hub]) /\ Knows(board'[Hub], board[Hub]) /\ Raw(held[q])
  BY <1>1 DEF Basics, BoardsAreBounded, Grows
<1>3. Knows(board[Hub], held[q]) => Knows(board'[Hub], held[q])  BY <1>2, KnowsIsTransitive
<1>4. ~(Clean(q)')  BY DEF Clean, Quiet
<1> QED BY <1>3, <1>4 DEF Exchanging

\* The loop of q is at a place that promises nothing.
LEMMA ExchangeIsOver ==
  ASSUME NEW q \in Peers, phase'[q] \notin {"polled", "posting", "accepted"}, ~(Clean(q)')
  PROVE  Exchanging(q)'
BY DEF Exchanging

LEMMA ReplicaStepKeepsExchange ==
  ASSUME Basics, Basics', Grows, NEW q \in Peers, Exchanging(q),
         NEW r \in Replicas, Edited(r) \/ WriteNotes(r) \/ OnLocalChange(r) \/ Restart(r)
  PROVE  Exchanging(q)'
<1>1. q \in Replicas /\ q # Hub  BY SyncAssumption DEF Replicas
<1>2. Notify # NoOp  BY DEF Notify, NoOp
<1>3. CASE r # q
  <2>1. board'[q] = board[q]
    <3>1. CASE Edited(r)
      <4>1. board' = [board EXCEPT ![r] = board'[r]]  BY <3>1 DEF Edited
      <4> QED BY <4>1, <1>1, <1>3 DEF Basics, Shape
    <3>2. CASE WriteNotes(r)
      <4>1. board' = [board EXCEPT ![r] = board'[r]]  BY <3>2, WriteNotesFollows
      <4> QED BY <4>1, <1>1, <1>3 DEF Basics, Shape
    <3>3. CASE OnLocalChange(r)  BY <3>3 DEF OnLocalChange
    <3>4. CASE Restart(r)
      <4>1. board' = board \/ board' = [board EXCEPT ![r] = board'[r]]  BY <3>4, MigratesFollows DEF Restart
      <4> QED BY <4>1, <1>1, <1>3 DEF Basics, Shape
    <3> QED BY <3>1, <3>2, <3>3, <3>4
  <2>2. op'[q] = op[q]
    <3>1. CASE Edited(r) \/ WriteNotes(r) \/ OnLocalChange(r)
      BY <3>1, <1>1, <1>3 DEF Edited, WriteNotes, OnLocalChange, Basics, Shape
    <3>2. CASE Restart(r)
      <4>1. op' = [op EXCEPT ![r] = op'[r]]  BY <3>2, MigratesFollows DEF Restart
      <4> QED BY <4>1, <1>1, <1>3 DEF Basics, Shape
    <3> QED BY <3>1, <3>2
  <2>3. /\ held'[q] = held[q] /\ phase'[q] = phase[q] /\ (contact'[q] <=> contact[q])
        /\ (dirty'[q] <=> dirty[q]) /\ (due'[q] <=> due[q])
    <3>1. CASE Edited(r)  BY <3>1 DEF Edited, peerVars
    <3>2. CASE WriteNotes(r)  BY <3>2 DEF WriteNotes, peerVars
    <3>3. CASE OnLocalChange(r)  BY <3>3, <1>3 DEF OnLocalChange, peerVars, Basics, Shape
    <3>4. CASE Restart(r)  BY <3>4, <1>3 DEF Restart, Rests, peerVars, Basics, Shape
    <3> QED BY <3>1, <3>2, <3>3, <3>4
  <2>4. Quiet(q)' => Quiet(q)  BY <2>2, <2>3 DEF Quiet
  <2> QED BY <2>1, <2>3, <2>4, ExchangeIsKept
<1>4. CASE r = q
  <2>1. CASE Edited(q) \/ WriteNotes(q)
    <3>1. op'[q] # NoOp  BY <2>1, <1>1, <1>2 DEF Edited, WriteNotes, Basics, Shape
    <3>2. held'[q] = held[q] /\ phase'[q] = phase[q]  BY <2>1 DEF Edited, WriteNotes, peerVars
    <3> QED BY <3>1, <3>2, ExchangeWaits DEF Quiet
  <2>2. CASE OnLocalChange(q)
    <3>1. dirty'[q]  BY <2>2, <1>1 DEF OnLocalChange, Basics, Shape
    <3>2. held'[q] = held[q] /\ phase'[q] = phase[q]  BY <2>2, <1>1 DEF OnLocalChange
    <3> QED BY <3>1, <3>2, ExchangeWaits DEF Quiet
  <2>3. CASE Restart(q)
    <3>1. phase'[q] = "idle" /\ ~contact'[q]  BY <2>3, <1>1 DEF Restart, Rests, Basics, Shape
    <3> QED BY <3>1, ExchangeIsOver DEF Clean
  <2> QED BY <1>4, <2>1, <2>2, <2>3
<1> QED BY <1>3, <1>4

\* What a step of p leaves alone of another peer.
LEMMA OtherPeersStay ==
  ASSUME Basics, NEW p \in Peers, NEW q \in Peers, q # p, Nudge(p) \/ Tick(p) \/ Lose(p)
  PROVE  /\ board'[q] = board[q] /\ held'[q] = held[q] /\ phase'[q] = phase[q]
         /\ (contact'[q] <=> contact[q]) /\ (dirty'[q] <=> dirty[q]) /\ (due'[q] <=> due[q]) /\ op'[q] = op[q]
<1>1. q # Hub /\ p # Hub  BY SyncAssumption
<1>2. CASE Nudge(p)  BY <1>2 DEF Nudge, Basics, Shape
<1>3. CASE StartPush(p) \/ PushBegins(p) \/ StartPoll(p) \/ HubGet(p)
  BY <1>3 DEF StartPush, PushBegins, StartPoll, HubGet, Basics, Shape
<1>4. CASE PollMerges(p)  BY <1>4 DEF PollMerges, Basics, Shape
<1>5. CASE PullMerges(p)  BY <1>5 DEF PullMerges, Basics, Shape
<1>6. CASE HubAccepts(p)  BY <1>1, <1>6 DEF HubAccepts, Rests, Basics, Shape
<1>7. CASE HubRefuses(p) \/ PushSucceeds(p)  BY <1>7 DEF HubRefuses, PushSucceeds, Rests, Basics, Shape
<1>8. CASE PushConflicts(p) \/ Lose(p)  BY <1>8 DEF PushConflicts, Lose, FailDirty, Rests, Basics, Shape
<1> QED BY <1>2, <1>3, <1>4, <1>5, <1>6, <1>7, <1>8 DEF Tick

LEMMA PeerStepKeepsExchange ==
  ASSUME Basics, Basics', Grows, NEW q \in Peers, Exchanging(q), NEW p \in Peers, Nudge(p) \/ Tick(p) \/ Lose(p)
  PROVE  Exchanging(q)'
<1>1. q \in Replicas /\ Hub \in Replicas /\ q # Hub  BY SyncAssumption DEF Replicas
<1>2. CASE q # p
  <2>1. Quiet(q)' => Quiet(q)  BY <1>2, OtherPeersStay DEF Quiet
  <2> QED BY <1>2, <2>1, OtherPeersStay, ExchangeIsKept
<1>3. CASE q = p
  <2>1. /\ Raw(board[q]) /\ Raw(held[q]) /\ Raw(board[Hub]) /\ Raw(board'[q]) /\ Raw(board'[Hub]) /\ Raw(held'[q])
        /\ Knows(board'[Hub], board[Hub])
    BY <1>1 DEF Basics, BoardsAreBounded, Grows
  <2>2. CASE Nudge(q)
    <3>1. dirty'[q] /\ held'[q] = held[q] /\ phase'[q] = phase[q]  BY <2>2 DEF Nudge, Basics, Shape
    <3> QED BY <3>1, ExchangeWaits DEF Quiet
  <2>3. CASE StartPush(q)
    <3>1. phase'[q] = "starting"  BY <2>3 DEF StartPush, Basics, Shape
    <3> QED BY <3>1, ExchangeIsOver DEF Clean
  <2>4. CASE PushBegins(q)
    <3>1. phase'[q] = "pulling"  BY <2>4 DEF PushBegins, Basics, Shape
    <3> QED BY <3>1, ExchangeIsOver DEF Clean
  <2>5. CASE StartPoll(q)
    <3>1. phase'[q] = "polling" /\ phase[q] = "idle"  BY <2>5 DEF StartPoll, Basics, Shape
    <3>2. Clean(q)' => Clean(q) /\ board' = board  BY <2>5, <3>1 DEF StartPoll, Clean
    <3> QED BY <3>1, <3>2 DEF Exchanging
  <2>6. CASE HubGet(q)
    <3>1. held'[q] = board[Hub] /\ board' = board  BY <2>6 DEF HubGet, Basics, Shape
    <3>2. \/ phase[q] = "polling" /\ phase'[q] = "polled"
          \/ phase[q] = "pulling" /\ phase'[q] = "pulled"
      BY <2>6 DEF HubGet, Basics, Shape
    <3>3. Clean(q)' => Clean(q)  BY <2>6, <3>2 DEF HubGet, Clean
    <3>4. Knows(board[Hub], board[Hub])  BY <2>1, KnowsIsReflexive
    <3> QED BY <3>1, <3>2, <3>3, <3>4 DEF Exchanging
  <2>7. CASE PollMerges(q)
    <3> DEFINE stale == RemoteStale(board[q], held[q])
    <3>1. phase[q] = "polled" /\ phase'[q] = "idle"  BY <2>7 DEF PollMerges, Basics, Shape
    <3>2. board'[q] = Merge(board[q], held[q]) /\ board'[Hub] = board[Hub]
      BY <2>7, <1>1 DEF PollMerges, Basics, Shape
    <3>3. dirty' = [dirty EXCEPT ![q] = @ \/ stale]  BY <2>7 DEF PollMerges
    <3>4. stale \in BOOLEAN  BY DEF RemoteStale
    <3> HIDE DEF stale
    <3>5. ~dirty'[q] => ~stale  BY <3>3, <3>4 DEF Basics, Shape
    <3>6. Knows(board[Hub], held[q])  BY <3>1 DEF Exchanging
    <3>7. ~stale => Knows(held[q], board'[q])  BY <3>2, <2>1, NotStale DEF stale
    <3>8. ~stale => Knows(board[Hub], board'[q])  BY <3>6, <3>7, <2>1, KnowsIsTransitive
    <3>9. Clean(q)' => Knows(board'[Hub], board'[q])  BY <3>2, <3>5, <3>8 DEF Clean
    <3> QED BY <3>1, <3>9 DEF Exchanging
  <2>8. CASE PullMerges(q)
    <3>1. phase'[q] = "posting" /\ held'[q] = board'[q]  BY <2>8, <1>1 DEF PullMerges, Basics, Shape
    <3>2. Knows(held'[q], board'[q])  BY <3>1, <2>1, KnowsIsReflexive
    <3> QED BY <3>1, <3>2 DEF Exchanging, Clean
  <2>9. CASE HubAccepts(q)
    <3>1. phase[q] = "posting" /\ phase'[q] = "accepted"  BY <2>9 DEF HubAccepts, Rests, Basics, Shape
    <3>2. board'[Hub] = Merge(board[Hub], held[q]) /\ board'[q] = board[q]
      BY <2>9, <1>1 DEF HubAccepts, Basics, Shape
    <3>3. Knows(board'[Hub], held[q])  BY <3>2, <2>1, MergeVersions
    <3>4. Quiet(q)' => Quiet(q)  BY <2>9 DEF HubAccepts, Quiet
    <3>5. Quiet(q) => Knows(held[q], board[q])  BY <3>1 DEF Exchanging
    <3>6. Quiet(q) => Knows(board'[Hub], board'[q])  BY <3>2, <3>3, <3>5, <2>1, KnowsIsTransitive
    <3> QED BY <3>1, <3>4, <3>6 DEF Exchanging, Clean
  <2>10. CASE HubRefuses(q)
    <3>1. phase'[q] = "refused"  BY <2>10 DEF HubRefuses, Rests, Basics, Shape
    <3> QED BY <3>1, ExchangeIsOver DEF Clean
  <2>11. CASE PushSucceeds(q)
    <3>1. phase[q] = "accepted" /\ phase'[q] = "idle" /\ board' = board
      BY <2>11 DEF PushSucceeds, Rests, Basics, Shape
    <3>2. Clean(q)' => Quiet(q)  BY <2>11 DEF PushSucceeds, Clean, Quiet
    <3> QED BY <3>1, <3>2 DEF Exchanging
  <2>12. CASE PushConflicts(q)
    <3>1. phase'[q] = "pulling" \/ (phase'[q] = "idle" /\ dirty'[q])
      BY <2>12 DEF PushConflicts, FailDirty, Rests, Basics, Shape
    <3> QED BY <3>1, ExchangeIsOver DEF Clean
  <2>13. CASE Lose(q)
    <3>1. phase'[q] = "idle" /\ board' = board /\ op' = op /\ contact' = contact
      BY <2>13 DEF Lose, FailDirty, Rests, Basics, Shape
    <3>2. Clean(q)' => Clean(q)
      <4>1. CASE phase[q] \in {"polling", "polled"}  BY <2>13, <3>1, <4>1 DEF Lose, Clean
      <4>2. CASE phase[q] \notin {"polling", "polled"}
        <5>1. dirty'[q]  BY <2>13, <4>2 DEF Lose, FailDirty, Basics, Shape
        <5> QED BY <5>1 DEF Clean
      <4> QED BY <4>1, <4>2
    <3> QED BY <3>1, <3>2 DEF Exchanging
  <2> QED BY <1>3, <2>2, <2>3, <2>4, <2>5, <2>6, <2>7, <2>8, <2>9, <2>10, <2>11, <2>12, <2>13 DEF Tick
<1> QED BY <1>2, <1>3

-----------------------------------------------------------------------------
(* The theorems.                                                           *)

LEMMA SInvInitially ==
  ASSUME Init PROVE SInv
<1>1. Raw(StartBoard)  BY SyncAssumption DEF Raw, Boards
<1>2. Bounded(StartBoard, 1)  BY SyncAssumption DEF Bounded
<1>3. Raw(EmptyBoard) /\ Bounded(EmptyBoard, 1)  BY EmptyKnowsNothing
<1>4. Shape  BY DEF Init, Shape, Phases
<1>5. BoardsAreBounded  BY <1>1, <1>2, <1>3 DEF Init, BoardsAreBounded, Nothing
<1>6. HalvesAreLast  BY DEF Init, HalvesAreLast, SecondHalf, NoOp
<1>7. \A p \in Peers : Exchanging(p)  BY DEF Init, Exchanging, Clean
<1> QED BY <1>4, <1>5, <1>6, <1>7 DEF SInv, Basics

LEMMA SInvIsKept ==
  ASSUME ~SlowRequests, SInv, [Next]_vars
  PROVE  SInv' /\ Grows
<1>1. CASE Next
  <2>1. CASE \E r \in Replicas : EditIdeas(r) \/ EditTasks(r) \/ EditBoxes(r) \/ EditEdges(r) \/ Finish(r) \/ Restart(r)
    <3>1. PICK r \in Replicas :
            EditIdeas(r) \/ EditTasks(r) \/ EditBoxes(r) \/ EditEdges(r) \/ Finish(r) \/ Restart(r)
      BY <2>1
    <3>2. Edited(r) \/ WriteNotes(r) \/ OnLocalChange(r) \/ Restart(r)
      BY <3>1, EditsAreEdited DEF SInv, Finish
    <3>3. Basics' /\ Grows  BY <3>2, ReplicaStepKeepsBasics DEF SInv
    <3>4. \A q \in Peers : Exchanging(q)'  BY <3>2, <3>3, ReplicaStepKeepsExchange DEF SInv
    <3> QED BY <3>3, <3>4 DEF SInv
  <2>2. CASE \E p \in Peers : Nudge(p) \/ Tick(p) \/ Lose(p)
    <3>1. PICK p \in Peers : Nudge(p) \/ Tick(p) \/ Lose(p)  BY <2>2
    <3>2. Basics' /\ Grows  BY <3>1, PeerStepKeepsBasics DEF SInv
    <3>3. \A q \in Peers : Exchanging(q)'  BY <3>1, <3>2, PeerStepKeepsExchange DEF SInv
    <3> QED BY <3>2, <3>3 DEF SInv
  <2> QED BY <1>1, <2>1, <2>2 DEF Next
<1>2. CASE UNCHANGED vars
  <2>1. Grows  BY <1>2, BoardsStay DEF SInv, vars
  <2>2. SInv'
    BY <1>2 DEF SInv, Basics, Shape, BoardsAreBounded, HalvesAreLast, Exchanging, Clean, Quiet, vars, peerVars
  <2> QED BY <2>1, <2>2
<1> QED BY <1>1, <1>2

\* The exchange is where the flags say it is: what a clean peer's board, a held copy and
\* the hub know of one another, and no second half of an edit is older than a first.
THEOREM ExchangeInvariance ==
  ASSUME ~SlowRequests PROVE Spec => []SInv
<1>1. Init => SInv  BY SInvInitially
<1>2. SInv /\ [Next]_vars => SInv'  BY SInvIsKept
<1> QED BY <1>1, <1>2, PTL DEF Spec

\* A peer that believes itself clean has nothing the hub has not, whatever is lost,
\* refused or restarted (IdeasSyncService's _dirty flag and due time).
THEOREM CleanIsShared ==
  ASSUME ~SlowRequests PROVE Spec => []CleanMeansShared
<1>1. SInv => CleanMeansShared  BY DEF SInv, Exchanging, CleanMeansShared, Knows
<1> QED BY <1>1, ExchangeInvariance, PTL

\* No merge, lost answer or restart takes any board back: what was deleted or changed
\* stays so until a later edit (MergeFrom of both stores).
THEOREM BoardsOnlyGrow ==
  ASSUME ~SlowRequests PROVE Spec => NothingComesBack
<1>1. SInv /\ [Next]_vars => [\A r \in Replicas, x \in Items : Version(board'[r], x) >= Version(board[r], x)]_vars
  BY SInvIsKept DEF Grows, Knows
<1> QED BY <1>1, ExchangeInvariance, PTL DEF Spec, NothingComesBack

-----------------------------------------------------------------------------
(* Induction over naturals.                                                *)

LEMMA LessIsWellFounded == IsWellFoundedOn({ss \in Nat \X Nat : ss[1] < ss[2]}, Nat)
BY NatLessThanWellFounded DEF OpToRel

\* Every set of naturals has a least member.
LEMMA Least ==
  ASSUME NEW T \in SUBSET Nat, T # {}
  PROVE  \E n \in T : \A m \in T : n <= m
<1> DEFINE R == {ss \in Nat \X Nat : ss[1] < ss[2]}
<1>1. IsWellFoundedOn(R, Nat)  BY LessIsWellFounded
<1> HIDE DEF R
<1>2. PICK n \in T : \A m \in T : <<m, n>> \notin R  BY <1>1, WFMin
<1>3. ASSUME NEW m \in T PROVE n <= m
  <2>1. <<m, n>> \in Nat \X Nat /\ <<m, n>>[1] = m /\ <<m, n>>[2] = n  OBVIOUS
  <2>2. ~(m < n)  BY <1>2, <2>1 DEF R
  <2> QED BY <2>2
<1> QED BY <1>3

\* Induction, over a set of naturals.
LEMMA Induction ==
  ASSUME NEW T \in SUBSET Nat, 0 \in T, \A n \in T : n + 1 \in T
  PROVE  T = Nat
<1> SUFFICES ASSUME Nat \ T # {} PROVE FALSE  OBVIOUS
<1>1. PICK n \in Nat \ T : \A m \in Nat \ T : n <= m  BY Least
<1> QED BY <1>1

-----------------------------------------------------------------------------
(* Reachability and layers.                                                *)

\* No dependency leads back to the task it starts from.
Acyclic(edges) == \A e \in edges : ~Reaches(edges, Ends[e][2], Ends[e][1])

\* The tasks that t depends on, and t itself.
Below(edges, t) == {u \in Tasks : Reaches(edges, t, u)}

LEMMA BelowIsClosed ==
  ASSUME NEW edges \in SUBSET Edges, NEW t \in Tasks
  PROVE  /\ t \in Below(edges, t)
         /\ \A e \in edges : Ends[e][1] \in Below(edges, t) => Ends[e][2] \in Below(edges, t)
<1>1. t \in Below(edges, t)  BY DEF Below, Reaches
<1>2. ASSUME NEW e \in edges, Ends[e][1] \in Below(edges, t) PROVE Ends[e][2] \in Below(edges, t)
  <2>1. Ends[e][2] \in Tasks  BY BoardAssumption
  <2>2. Reaches(edges, t, Ends[e][2])  BY <1>2 DEF Below, Reaches
  <2> QED BY <2>1, <2>2 DEF Below
<1> QED BY <1>1, <1>2

\* Below is the least set of its kind.
LEMMA BelowIsLeast ==
  ASSUME NEW edges, NEW t, NEW closed \in SUBSET Tasks, t \in closed,
         \A e \in edges : Ends[e][1] \in closed => Ends[e][2] \in closed
  PROVE  Below(edges, t) \subseteq closed
BY DEF Below, Reaches

LEMMA BelowGoesDown ==
  ASSUME NEW edges \in SUBSET Edges, NEW t \in Tasks, NEW u \in Below(edges, t)
  PROVE  Below(edges, u) \subseteq Below(edges, t)
<1>1. Below(edges, t) \in SUBSET Tasks  BY DEF Below
<1> QED BY <1>1, BelowIsClosed, BelowIsLeast

LEMMA LayeredIsAcyclic ==
  ASSUME NEW edges \in SUBSET Edges, Layered(edges)
  PROVE  Acyclic(edges)
<1>1. IsFiniteSet(Tasks) /\ Cardinality(Tasks) \in Nat  BY BoardAssumption, FS_CardinalityType
<1>2. PICK layer \in [Tasks -> 1 .. Cardinality(Tasks)] : \A e \in edges : layer[Ends[e][1]] > layer[Ends[e][2]]
  BY DEF Layered
<1>3. ASSUME NEW e \in edges, Reaches(edges, Ends[e][2], Ends[e][1]) PROVE FALSE
  <2> DEFINE low == {t \in Tasks : layer[t] <= layer[Ends[e][2]]}
  <2>1. \A f \in edges : Ends[f][1] \in Tasks /\ Ends[f][2] \in Tasks  BY BoardAssumption
  <2>2. \A t \in Tasks : layer[t] \in Nat  BY <1>1
  <2>3. low \in SUBSET Tasks /\ Ends[e][2] \in low  BY <2>1, <2>2
  <2>4. \A f \in edges : Ends[f][1] \in low => Ends[f][2] \in low  BY <1>2, <2>1, <2>2
  <2>5. Ends[e][1] \notin low  BY <1>2, <2>1, <2>2
  <2> HIDE DEF low
  <2> QED BY <1>3, <2>3, <2>4, <2>5 DEF Reaches
<1> QED BY <1>3 DEF Acyclic

\* A task's layer is the number of tasks below it.
LEMMA AcyclicIsLayered ==
  ASSUME NEW edges \in SUBSET Edges, Acyclic(edges)
  PROVE  Layered(edges)
<1>1. IsFiniteSet(Tasks) /\ Cardinality(Tasks) \in Nat  BY BoardAssumption, FS_CardinalityType
<1> DEFINE layer == [t \in Tasks |-> Cardinality(Below(edges, t))]
<1>2. ASSUME NEW t \in Tasks PROVE IsFiniteSet(Below(edges, t)) /\ Cardinality(Below(edges, t)) \in 1 .. Cardinality(Tasks)
  <2>1. Below(edges, t) \in SUBSET Tasks /\ t \in Below(edges, t)  BY BelowIsClosed DEF Below
  <2>2. IsFiniteSet(Below(edges, t)) /\ Cardinality(Below(edges, t)) <= Cardinality(Tasks)  BY <1>1, <2>1, FS_Subset
  <2>3. Cardinality(Below(edges, t)) \in Nat  BY <2>2, FS_CardinalityType
  <2>4. Cardinality(Below(edges, t)) # 0  BY <2>1, <2>2, FS_EmptySet
  <2> QED BY <1>1, <2>2, <2>3, <2>4
<1>3. layer \in [Tasks -> 1 .. Cardinality(Tasks)]  BY <1>2
<1>4. ASSUME NEW e \in edges PROVE layer[Ends[e][1]] > layer[Ends[e][2]]
  <2> DEFINE a == Ends[e][1]
             b == Ends[e][2]
  <2>1. a \in Tasks /\ b \in Tasks  BY BoardAssumption
  <2>2. a \in Below(edges, a) /\ b \in Below(edges, a)  BY <2>1, BelowIsClosed
  <2>3. a \notin Below(edges, b)  BY DEF Acyclic, Below
  <2> HIDE DEF a, b
  <2>4. Below(edges, b) \subseteq Below(edges, a)  BY <2>1, <2>2, BelowGoesDown
  <2>5. Cardinality(Below(edges, b)) <= Cardinality(Below(edges, a))  BY <1>2, <2>1, <2>4, FS_Subset
  <2>6. Cardinality(Below(edges, b)) # Cardinality(Below(edges, a))
    BY <1>2, <2>1, <2>2, <2>3, <2>4, FS_Subset
  <2>7. Cardinality(Below(edges, b)) \in Nat /\ Cardinality(Below(edges, a)) \in Nat  BY <1>1, <1>2, <2>1
  <2>8. layer[a] = Cardinality(Below(edges, a)) /\ layer[b] = Cardinality(Below(edges, b))  BY <2>1
  <2>9. layer[a] > layer[b]
    <3> HIDE DEF layer
    <3> QED BY <2>5, <2>6, <2>7, <2>8
  <2> QED BY <2>9 DEF a, b
<1> HIDE DEF layer
<1> QED BY <1>3, <1>4 DEF Layered

\* Fewer dependencies close no circle.
LEMMA FewerAreLayered ==
  ASSUME NEW edges, NEW fewer \in SUBSET edges, Layered(edges)
  PROVE  Layered(fewer)
BY DEF Layered

\* A dependency whose end does not lead back to its start closes no circle.
LEMMA OneMoreIsLayered ==
  ASSUME NEW edges \in SUBSET Edges, Layered(edges), NEW e \in Edges, ~ClosesCycle(edges, e)
  PROVE  Layered(edges \cup {e})
<1> DEFINE more == edges \cup {e}
           a == Ends[e][1]
           b == Ends[e][2]
<1>1. more \in SUBSET Edges /\ e \in more /\ edges \subseteq more  OBVIOUS
<1>2. a \in Tasks /\ b \in Tasks  BY BoardAssumption
<1>3. a \notin Below(edges, b)  BY DEF ClosesCycle, Below
<1>4. \A f \in edges : Ends[f][1] \in Tasks /\ Ends[f][2] \in Tasks  BY BoardAssumption
\* With e there is no more below a task than was before, or than is below the end of e.
<1>5. ASSUME NEW d \in Tasks, a \in Below(edges, d)
      PROVE  Below(more, d) \subseteq Below(edges, d) \cup Below(edges, b)
  <2> DEFINE both == Below(edges, d) \cup Below(edges, b)
  <2>1. both \in SUBSET Tasks /\ d \in both  BY BelowIsClosed DEF Below
  <2>2. \A f \in edges : Ends[f][1] \in both => Ends[f][2] \in both  BY <1>2, BelowIsClosed
  <2>3. b \in both  BY <1>2, BelowIsClosed
  <2> HIDE DEF both
  <2>4. \A f \in more : Ends[f][1] \in both => Ends[f][2] \in both  BY <2>2, <2>3
  <2>5. Below(more, d) \subseteq both  BY <2>1, <2>4, BelowIsLeast
  <2> QED BY <2>5 DEF both
<1>6. ASSUME NEW d \in Tasks, a \notin Below(edges, d)
      PROVE  Below(more, d) \subseteq Below(edges, d)
  <2>1. Below(edges, d) \in SUBSET Tasks /\ d \in Below(edges, d)  BY BelowIsClosed DEF Below
  <2>2. \A f \in more : Ends[f][1] \in Below(edges, d) => Ends[f][2] \in Below(edges, d)  BY <1>6, BelowIsClosed
  <2> QED BY <2>1, <2>2, BelowIsLeast
<1>7. Acyclic(edges)  BY LayeredIsAcyclic
<1>8. Acyclic(more)
  <2>1. ~Reaches(more, b, a)
    <3>1. Below(more, b) \subseteq Below(edges, b)  BY <1>2, <1>3, <1>6
    <3> QED BY <1>2, <1>3, <3>1 DEF Below
  <2>2. ASSUME NEW f \in edges, Reaches(more, Ends[f][2], Ends[f][1]) PROVE FALSE
    <3> DEFINE c == Ends[f][1]
               d == Ends[f][2]
    <3>1. c \in Tasks /\ d \in Tasks /\ c \in Below(more, d)  BY <1>4, <2>2 DEF Below
    <3>2. c \notin Below(edges, d)  BY <1>7, <3>1 DEF Acyclic, Below
    <3>3. \A t \in Tasks : c \in Below(edges, t) => d \in Below(edges, t)  BY BelowIsClosed
    <3> HIDE DEF c, d
    <3>4. a \in Below(edges, d) /\ c \in Below(edges, b)  BY <1>5, <1>6, <3>1, <3>2
    <3>5. d \in Below(edges, b)  BY <1>2, <3>3, <3>4
    <3>6. a \in Below(edges, b)  BY <1>2, <3>4, <3>5, BelowGoesDown
    <3> QED BY <1>3, <3>6
  <2> QED BY <2>1, <2>2 DEF Acyclic
<1> HIDE DEF more
<1>9. Layered(more)  BY <1>1, <1>8, AcyclicIsLayered
<1> QED BY <1>9 DEF more

-----------------------------------------------------------------------------
(* The rebuild.                                                            *)

\* One round of it: the n-th dependency, in the order of the ids.
Round(candidates, kept, n) ==
  IF EdgeOrder[n] \in candidates THEN Admit(kept, EdgeOrder[n]) ELSE kept

\* f is what the first m rounds keep.
Rounds(candidates, f, m) ==
  /\ f = [n \in 0 .. Len(EdgeOrder) |-> f[n]] /\ f[0] = {}
  /\ \A n \in 1 .. m : f[n] = Round(candidates, f[n - 1], n)

LEMMA RoundsExist ==
  ASSUME NEW candidates
  PROVE  \E f : Rounds(candidates, f, Len(EdgeOrder))
<1> DEFINE last == Len(EdgeOrder)
           done == {m \in Nat : m <= last => \E f : Rounds(candidates, f, m)}
<1>1. last \in Nat  BY BoardAssumption
<1> HIDE DEF last
<1>2. 0 \in done
  <2> DEFINE f == [n \in 0 .. last |-> {}]
  <2>1. Rounds(candidates, f, 0)  BY <1>1 DEF Rounds, last
  <2> HIDE DEF f
  <2> QED BY <2>1
<1>3. ASSUME NEW m \in done PROVE m + 1 \in done
  <2> SUFFICES ASSUME m + 1 <= last PROVE \E f : Rounds(candidates, f, m + 1)  OBVIOUS
  <2>1. m \in Nat /\ m <= last  BY <1>1
  <2>2. PICK f : Rounds(candidates, f, m)  BY <2>1
  <2> DEFINE g == [f EXCEPT ![m + 1] = Round(candidates, f[m], m + 1)]
  <2>3. /\ f = [n \in 0 .. last |-> f[n]] /\ f[0] = {}
        /\ g = [n \in 0 .. last |-> g[n]]
    BY <2>2 DEF Rounds, last
  <2>4. \A n \in 0 .. m : g[n] = f[n]  BY <1>1, <2>1, <2>3
  <2>5. g[m + 1] = Round(candidates, f[m], m + 1)  BY <1>1, <2>1, <2>3
  <2> HIDE DEF g
  <2>6. g[0] = {}
    <3>1. 0 \in 0 .. m  BY <2>1
    <3> QED BY <2>3, <2>4, <3>1
  <2>7. ASSUME NEW n \in 1 .. m + 1 PROVE g[n] = Round(candidates, g[n - 1], n)
    <3>1. n - 1 \in 0 .. m  BY <2>1
    <3>2. g[n - 1] = f[n - 1]  BY <2>4, <3>1
    <3>3. CASE n = m + 1
      <4>1. n - 1 = m  BY <2>1, <3>3
      <4> QED BY <2>5, <3>2, <3>3, <4>1
    <3>4. CASE n # m + 1
      <4>1. n \in 1 .. m /\ n \in 0 .. m  BY <2>1, <3>4
      <4>2. f[n] = Round(candidates, f[n - 1], n)  BY <2>2, <4>1 DEF Rounds
      <4>3. g[n] = f[n]  BY <2>4, <4>1
      <4> QED BY <3>2, <4>2, <4>3
    <3> QED BY <3>3, <3>4
  <2>8. Rounds(candidates, g, m + 1)  BY <2>3, <2>6, <2>7 DEF Rounds, last
  <2> QED BY <2>8
<1>4. done \in SUBSET Nat  OBVIOUS
<1>5. \A m \in done : m + 1 \in done  BY <1>3
<1> HIDE DEF done
<1>6. done = Nat  BY <1>2, <1>4, <1>5, Induction
<1>7. last \in done  BY <1>1, <1>6
<1> QED BY <1>1, <1>7 DEF done, last

\* The rebuild is its last round.
LEMMA RebuildIs ==
  ASSUME NEW candidates
  PROVE  \E f : Rounds(candidates, f, Len(EdgeOrder)) /\ Rebuild(candidates) = f[Len(EdgeOrder)]
<1> DEFINE last == Len(EdgeOrder)
           Body(f) == [n \in 0 .. last |->
                         IF n = 0 THEN {}
                         ELSE IF EdgeOrder[n] \in candidates THEN Admit(f[n - 1], EdgeOrder[n]) ELSE f[n - 1]]
           kept == CHOOSE f : f = Body(f)
<1>1. last \in Nat  BY BoardAssumption
<1>2. Rebuild(candidates) = kept[last]  BY DEF Rebuild
<1>3. \E f : f = Body(f)
  <2>1. PICK f : Rounds(candidates, f, last)  BY RoundsExist
  <2>2. f = [n \in 0 .. last |-> f[n]] /\ f[0] = {}  BY <2>1 DEF Rounds
  <2>3. \A n \in 1 .. last : f[n] = Round(candidates, f[n - 1], n)  BY <2>1 DEF Rounds
  <2>4. ASSUME NEW n \in 0 .. last PROVE f[n] = Body(f)[n]
    <3>1. CASE n = 0  BY <2>2, <3>1
    <3>2. CASE n # 0
      <4>1. n \in 1 .. last  BY <1>1, <3>2
      <4> QED BY <2>3, <3>2, <4>1 DEF Round
    <3> QED BY <3>1, <3>2
  <2>5. f = Body(f)  BY <2>2, <2>4
  <2> QED BY <2>5
<1>4. kept = Body(kept)  BY <1>3
<1> HIDE DEF kept
<1>5. Rounds(candidates, kept, last)
  <2>1. kept = [n \in 0 .. last |-> kept[n]]  BY <1>4
  <2>2. kept[0] = {}  BY <1>1, <1>4
  <2>3. ASSUME NEW n \in 1 .. last PROVE kept[n] = Round(candidates, kept[n - 1], n)
    <3>1. n \in 0 .. last /\ n # 0  BY <1>1
    <3> QED BY <1>4, <3>1 DEF Round
  <2> QED BY <2>1, <2>2, <2>3 DEF Rounds
<1> QED BY <1>2, <1>5

\* Candidates are kept, once per pair of tasks and in no circle.
KeptWell(candidates, kept) ==
  /\ kept \subseteq candidates
  /\ \A e, f \in kept : Ends[e] = Ends[f] => e = f
  /\ Layered(kept)

LEMMA AdmitKeepsWell ==
  ASSUME NEW candidates \in SUBSET Edges, NEW kept, KeptWell(candidates, kept), NEW e \in candidates
  PROVE  KeptWell(candidates, Admit(kept, e))
<1>1. CASE SelfLoop(e) \/ Duplicate(kept, e) \/ ClosesCycle(kept, e)  BY <1>1 DEF Admit
<1>2. CASE ~(SelfLoop(e) \/ Duplicate(kept, e) \/ ClosesCycle(kept, e))
  <2>1. kept \in SUBSET Edges /\ e \in Edges /\ Layered(kept) /\ ~ClosesCycle(kept, e)  BY <1>2 DEF KeptWell
  <2>2. Layered(kept \cup {e})  BY <2>1, OneMoreIsLayered
  <2>3. \A f \in kept : Ends[f] # Ends[e]  BY <1>2 DEF Duplicate
  <2>4. Admit(kept, e) = kept \cup {e}  BY <1>2 DEF Admit
  <2> QED BY <2>2, <2>3, <2>4 DEF KeptWell
<1> QED BY <1>1, <1>2

LEMMA NoneAreLayered == Layered({})
<1>1. IsFiniteSet(Tasks) /\ Cardinality(Tasks) \in Nat  BY BoardAssumption, FS_CardinalityType
<1>2. CASE Tasks = {}
  <2>1. [t \in Tasks |-> 1] \in [Tasks -> 1 .. Cardinality(Tasks)]  BY <1>2
  <2> QED BY <2>1 DEF Layered
<1>3. CASE Tasks # {}
  <2>1. Cardinality(Tasks) # 0  BY <1>1, <1>3, FS_EmptySet
  <2>2. [t \in Tasks |-> 1] \in [Tasks -> 1 .. Cardinality(Tasks)]  BY <1>1, <2>1
  <2> QED BY <2>2 DEF Layered
<1> QED BY <1>2, <1>3

\* The rebuild keeps candidates only, once per pair of tasks and in no circle, whatever
\* the union it starts from (TaskGraphService.MergeFrom's canonical rebuild).
THEOREM RebuildIsSound ==
  ASSUME NEW candidates \in SUBSET Edges
  PROVE  /\ Rebuild(candidates) \subseteq candidates
         /\ \A e, f \in Rebuild(candidates) : Ends[e] = Ends[f] => e = f
         /\ Layered(Rebuild(candidates))
<1> DEFINE last == Len(EdgeOrder)
<1>1. last \in Nat  BY BoardAssumption
<1>2. PICK f : Rounds(candidates, f, last) /\ Rebuild(candidates) = f[last]  BY RebuildIs
<1> DEFINE done == {m \in Nat : m <= last => KeptWell(candidates, f[m])}
<1>3. 0 \in done
  <2>1. KeptWell(candidates, {})  BY NoneAreLayered DEF KeptWell
  <2> QED BY <1>2, <2>1 DEF Rounds
<1>4. ASSUME NEW m \in done PROVE m + 1 \in done
  <2> SUFFICES ASSUME m + 1 <= last PROVE KeptWell(candidates, f[m + 1])  OBVIOUS
  <2>1. m \in Nat /\ m <= last /\ m + 1 \in 1 .. last /\ (m + 1) - 1 = m  BY <1>1
  <2>2. KeptWell(candidates, f[m])  BY <2>1
  <2>3. f[m + 1] = Round(candidates, f[m], m + 1)  BY <1>2, <2>1 DEF Rounds
  <2> QED BY <2>2, <2>3, AdmitKeepsWell DEF Round
<1>5. done \in SUBSET Nat  OBVIOUS
<1>6. \A m \in done : m + 1 \in done  BY <1>4
<1> HIDE DEF done
<1>7. done = Nat  BY <1>3, <1>5, <1>6, Induction
<1>8. KeptWell(candidates, f[last])  BY <1>1, <1>7 DEF done
<1> QED BY <1>2, <1>8 DEF KeptWell

-----------------------------------------------------------------------------
(* Dependencies on a board: what an edit or a merge leaves of them.        *)

\* b is a board with sound dependencies, and those it has or had are among ids.
Fit(b, ids) ==
  /\ b \in Boards /\ Sound(b)
  /\ \A e \in Edges : e \in b.edges \/ b.tombs[e] > 0 => e \in ids

LEMMA FitGrows ==
  ASSUME NEW b, NEW ids, NEW more, Fit(b, ids), ids \subseteq more
  PROVE  Fit(b, more)
BY DEF Fit

LEMMA EmptyIsFit ==
  ASSUME NEW ids PROVE Fit(EmptyBoard, ids)
<1>1. EmptyBoard \in Boards
  BY DEF EmptyBoard, Boards, NoIdea, NoTask, NoBox, IdeaNotes, TaskNodes, Boxes
<1>2. EmptyBoard.edges = {} /\ \A e \in Edges : EmptyBoard.tombs[e] = 0  BY DEF EmptyBoard, Ids
<1> QED BY <1>1, <1>2, NoneAreLayered DEF Fit, Sound

\* An edit that leaves no more dependencies than there were, the tasks of each and none
\* with a tombstone.
LEMMA FewerDependencies ==
  ASSUME NEW ids, NEW b, Fit(b, ids), NEW c \in Boards, c.edges \subseteq b.edges,
         \A e \in c.edges : c.tombs[e] = 0 /\ HasTask(c, Ends[e][1]) /\ HasTask(c, Ends[e][2]),
         \A e \in Edges : c.tombs[e] > 0 => b.tombs[e] > 0 \/ e \in b.edges
  PROVE  Fit(c, ids)
<1>1. Layered(c.edges)  BY FewerAreLayered DEF Fit, Sound
<1> QED BY <1>1 DEF Fit, Sound

\* An edit of anything else.
LEMMA SameDependencies ==
  ASSUME NEW ids, NEW b, Fit(b, ids), NEW c \in Boards, c.edges = b.edges,
         \A e \in Edges : c.tombs[e] = b.tombs[e],
         \A t \in Tasks : HasTask(b, t) => HasTask(c, t)
  PROVE  Fit(c, ids)
<1>1. \A e \in c.edges : e \in Edges /\ Ends[e][1] \in Tasks /\ Ends[e][2] \in Tasks  BY BoardAssumption DEF Boards
<1>2. \A e \in c.edges : c.tombs[e] = 0 /\ HasTask(c, Ends[e][1]) /\ HasTask(c, Ends[e][2])
  BY <1>1 DEF Fit, Sound
<1> QED BY <1>2, FewerDependencies

LEMMA IdeaEditsAreFit ==
  ASSUME NEW ids, NEW b, Fit(b, ids), NEW i \in Ideas, NEW n \in Nat, NEW t \in Tasks \cup {None}
  PROVE  /\ Fit(WithIdea(b, i, n), ids) /\ Fit(WithoutIdea(b, i, n), ids)
         /\ Fit([b EXCEPT !.ideas[i] = [at |-> n, task |-> t]], ids)
<1>1. b \in Boards  BY DEF Fit
<1>2. i \in Ids /\ \A e \in Edges : e # i /\ e \in Ids  BY BoardAssumption DEF Ids, Items
<1>3. Fit(WithIdea(b, i, n), ids)
  <2> DEFINE w == [b.ideas[i] EXCEPT !.at = n]
             c == WithIdea(b, i, n)
  <2>1. w \in IdeaNotes  BY <1>1 DEF Boards, IdeaNotes
  <2>2. c = [b EXCEPT !.ideas = [b.ideas EXCEPT ![i] = w]]  BY DEF WithIdea
  <2> HIDE DEF w, c
  <2>3. c \in Boards /\ c.edges = b.edges /\ c.tombs = b.tombs /\ c.nodes = b.nodes  BY <1>1, <2>1, <2>2 DEF Boards
  <2>4. Fit(c, ids)  BY <2>3, SameDependencies DEF HasTask
  <2> QED BY <2>4 DEF c
<1>4. Fit(WithoutIdea(b, i, n), ids)
  <2> DEFINE c == WithoutIdea(b, i, n)
  <2>1. NoIdea \in IdeaNotes  BY DEF NoIdea, IdeaNotes
  <2>2. c = [b EXCEPT !.ideas = [b.ideas EXCEPT ![i] = NoIdea], !.tombs = [b.tombs EXCEPT ![i] = n]]
    BY DEF WithoutIdea
  <2> HIDE DEF c
  <2>3. c \in Boards /\ c.edges = b.edges /\ c.tombs = [b.tombs EXCEPT ![i] = n] /\ c.nodes = b.nodes
    BY <1>1, <2>1, <2>2 DEF Boards
  <2>4. \A e \in Edges : c.tombs[e] = b.tombs[e]  BY <1>1, <1>2, <2>3 DEF Boards
  <2>5. Fit(c, ids)  BY <2>3, <2>4, SameDependencies DEF HasTask
  <2> QED BY <2>5 DEF c
<1>5. Fit([b EXCEPT !.ideas[i] = [at |-> n, task |-> t]], ids)
  <2> DEFINE w == [at |-> n, task |-> t]
             c == [b EXCEPT !.ideas[i] = w]
  <2>1. w \in IdeaNotes  BY DEF IdeaNotes
  <2>2. c = [b EXCEPT !.ideas = [b.ideas EXCEPT ![i] = w]]  OBVIOUS
  <2> HIDE DEF w, c
  <2>3. c \in Boards /\ c.edges = b.edges /\ c.tombs = b.tombs /\ c.nodes = b.nodes  BY <1>1, <2>1, <2>2 DEF Boards
  <2>4. Fit(c, ids)  BY <2>3, SameDependencies DEF HasTask
  <2> QED BY <2>4 DEF c, w
<1> QED BY <1>3, <1>4, <1>5

LEMMA ReconciledIsFit ==
  ASSUME NEW ids, NEW b, Fit(b, ids), NEW link \in Links(b), NEW n \in Nat
  PROVE  Fit(ReconcileConsumed(b, link, n), ids)
<1> DEFINE new == [i \in Ideas |-> IF i \in Unreconciled(b) THEN [at |-> n, task |-> link[i]] ELSE b.ideas[i]]
           c == ReconcileConsumed(b, link, n)
<1>1. b \in Boards  BY DEF Fit
<1>2. \A i \in Unreconciled(b) : link[i] \in Tasks  BY DEF Links
<1>3. new \in [Ideas -> IdeaNotes]  BY <1>1, <1>2 DEF Boards, IdeaNotes
<1>4. c = [b EXCEPT !.ideas = new]  BY DEF ReconcileConsumed
<1> HIDE DEF c, new
<1>5. c \in Boards /\ c.edges = b.edges /\ c.tombs = b.tombs /\ c.nodes = b.nodes  BY <1>1, <1>3, <1>4 DEF Boards
<1>6. Fit(c, ids)  BY <1>5, SameDependencies DEF HasTask
<1> QED BY <1>6 DEF c

LEMMA WithTaskIsFit ==
  ASSUME NEW ids, NEW b, Fit(b, ids), NEW t \in Tasks, NEW m \in Machines \cup {None}, NEW n \in Nat, n > 0
  PROVE  Fit(WithTask(b, t, m, n), ids)
<1> DEFINE w == [at |-> n, machine |-> m]
           c == WithTask(b, t, m, n)
<1>1. b \in Boards  BY DEF Fit
<1>2. w \in TaskNodes /\ w.at > 0  BY DEF TaskNodes
<1>3. c = [b EXCEPT !.nodes = [b.nodes EXCEPT ![t] = w]]  BY DEF WithTask
<1> HIDE DEF w, c
<1>4. c \in Boards /\ c.edges = b.edges /\ c.tombs = b.tombs /\ c.nodes = [b.nodes EXCEPT ![t] = w]
  BY <1>1, <1>2, <1>3 DEF Boards
<1>5. \A u \in Tasks : HasTask(b, u) => HasTask(c, u)  BY <1>1, <1>2, <1>4 DEF Boards, HasTask
<1>6. Fit(c, ids)  BY <1>4, <1>5, SameDependencies
<1> QED BY <1>6 DEF c

\* The dependencies of a deleted task go with it, each with its tombstone.
LEMMA WithoutTaskIsFit ==
  ASSUME NEW ids, NEW b, Fit(b, ids), NEW t \in Tasks, NEW n \in Nat
  PROVE  Fit(WithoutTask(b, t, n), ids)
<1> DEFINE tombs == [x \in Ids |-> IF x = t \/ x \in Touching(b, t) THEN n ELSE b.tombs[x]]
           c == WithoutTask(b, t, n)
<1>1. b \in Boards  BY DEF Fit
<1>2. NoTask \in TaskNodes  BY DEF NoTask, TaskNodes
<1>3. tombs \in [Ids -> Nat]  BY <1>1 DEF Boards
<1>4. c = [b EXCEPT !.nodes = [b.nodes EXCEPT ![t] = NoTask], !.edges = b.edges \ Touching(b, t), !.tombs = tombs]
  BY DEF WithoutTask
<1>5. \A e \in Edges : e # t /\ e \in Ids /\ Ends[e][1] \in Tasks /\ Ends[e][2] \in Tasks
  BY BoardAssumption DEF Ids, Items
<1>6. \A e \in Edges : tombs[e] = IF e \in Touching(b, t) THEN n ELSE b.tombs[e]  BY <1>5
<1> HIDE DEF tombs, c
<1>7. /\ c \in Boards /\ c.edges = b.edges \ Touching(b, t) /\ c.tombs = tombs
      /\ c.nodes = [b.nodes EXCEPT ![t] = NoTask]
  BY <1>1, <1>2, <1>3, <1>4 DEF Boards
<1>8. ASSUME NEW e \in c.edges
      PROVE  c.tombs[e] = 0 /\ HasTask(c, Ends[e][1]) /\ HasTask(c, Ends[e][2])
  <2>1. e \in b.edges /\ e \in Edges /\ e \notin Touching(b, t)  BY <1>1, <1>7 DEF Boards
  <2>2. b.tombs[e] = 0 /\ HasTask(b, Ends[e][1]) /\ HasTask(b, Ends[e][2])  BY <2>1 DEF Fit, Sound
  <2>3. Ends[e][1] # t /\ Ends[e][2] # t  BY <2>1 DEF Touching
  <2>4. c.tombs[e] = 0  BY <1>6, <1>7, <2>1, <2>2
  <2> QED BY <1>1, <1>5, <1>7, <2>1, <2>2, <2>3, <2>4 DEF Boards, HasTask
<1>9. \A e \in Edges : c.tombs[e] > 0 => b.tombs[e] > 0 \/ e \in b.edges  BY <1>6, <1>7 DEF Touching
<1>10. Fit(c, ids)  BY <1>7, <1>8, <1>9, FewerDependencies
<1> QED BY <1>10 DEF c

LEMMA BoxEditsAreFit ==
  ASSUME NEW ids, NEW b, Fit(b, ids), NEW m \in Machines, NEW n \in Nat, n > 0
  PROVE  Fit(WithBox(b, m, n), ids) /\ Fit(WithoutBox(b, m, n), ids)
<1>1. b \in Boards  BY DEF Fit
<1>2. m \in Ids /\ \A e \in Edges : e # m /\ e \in Ids  BY BoardAssumption DEF Ids, Items
<1>3. Fit(WithBox(b, m, n), ids)
  <2> DEFINE w == [b.machines[m] EXCEPT !.at = n]
             c == WithBox(b, m, n)
  <2>1. w \in Boxes  BY <1>1 DEF Boards, Boxes
  <2>2. c = [b EXCEPT !.machines = [b.machines EXCEPT ![m] = w]]  BY DEF WithBox
  <2> HIDE DEF w, c
  <2>3. c \in Boards /\ c.edges = b.edges /\ c.tombs = b.tombs /\ c.nodes = b.nodes  BY <1>1, <2>1, <2>2 DEF Boards
  <2>4. Fit(c, ids)  BY <2>3, SameDependencies DEF HasTask
  <2> QED BY <2>4 DEF c
<1>4. Fit(WithoutBox(b, m, n), ids)
  <2> DEFINE w == [at |-> n, machine |-> None]
             nodes == [t \in Tasks |-> IF HasTask(b, t) /\ b.nodes[t].machine = m THEN w ELSE b.nodes[t]]
             c == WithoutBox(b, m, n)
  <2>1. NoBox \in Boxes /\ w \in TaskNodes /\ w.at > 0  BY DEF NoBox, Boxes, TaskNodes
  <2>2. c = [b EXCEPT !.machines = [b.machines EXCEPT ![m] = NoBox], !.tombs = [b.tombs EXCEPT ![m] = n],
                      !.nodes = nodes]
    BY DEF WithoutBox
  <2> HIDE DEF w, c
  <2>3. nodes \in [Tasks -> TaskNodes]  BY <1>1, <2>1 DEF Boards
  <2>4. \A t \in Tasks : nodes[t] = w \/ nodes[t] = b.nodes[t]  OBVIOUS
  <2> HIDE DEF nodes
  <2>5. c \in Boards /\ c.edges = b.edges /\ c.tombs = [b.tombs EXCEPT ![m] = n] /\ c.nodes = nodes
    BY <1>1, <2>1, <2>2, <2>3 DEF Boards
  <2>6. \A e \in Edges : c.tombs[e] = b.tombs[e]  BY <1>1, <1>2, <2>5 DEF Boards
  <2>7. \A t \in Tasks : HasTask(b, t) => HasTask(c, t)  BY <2>1, <2>4, <2>5 DEF HasTask
  <2>8. Fit(c, ids)  BY <2>5, <2>6, <2>7, SameDependencies
  <2> QED BY <2>8 DEF c
<1> QED BY <1>3, <1>4

\* A new dependency has a new id, so no tombstone.
LEMMA WithEdgeIsFit ==
  ASSUME NEW ids, NEW b, Fit(b, ids), NEW e \in Edges, e \notin ids, EdgeAllowed(b, e)
  PROVE  Fit(WithEdge(b, e), ids \cup {e})
<1> DEFINE c == WithEdge(b, e)
           edges == b.edges \cup {e}
<1>1. b \in Boards /\ Sound(b) /\ b.edges \in SUBSET Edges  BY DEF Fit, Boards
<1>2. c = [b EXCEPT !.edges = edges]  BY DEF WithEdge
<1>3. edges \in SUBSET Edges  BY <1>1
<1>4. Layered(edges)
  <2>1. Layered(b.edges) /\ ~ClosesCycle(b.edges, e)  BY <1>1 DEF Sound, EdgeAllowed
  <2> QED BY <1>1, <2>1, OneMoreIsLayered
<1>5. \A f \in b.edges : Ends[f] # Ends[e]  BY DEF EdgeAllowed, Duplicate
<1>6. \A f, g \in edges : Ends[f] = Ends[g] => f = g  BY <1>1, <1>5 DEF Sound
<1>7. b.tombs[e] = 0
  <2>1. ~(b.tombs[e] > 0)  BY DEF Fit
  <2>2. b.tombs[e] \in Nat  BY <1>1 DEF Boards, Ids
  <2> QED BY <2>1, <2>2
<1>8. \A f \in edges : HasTask(b, Ends[f][1]) /\ HasTask(b, Ends[f][2]) /\ b.tombs[f] = 0
  BY <1>1, <1>7 DEF Sound, EdgeAllowed
<1>9. \A f \in Edges : f \in edges \/ b.tombs[f] > 0 => f \in ids \cup {e}  BY DEF Fit
<1> HIDE DEF c, edges
<1>10. c \in Boards /\ c.edges = edges /\ c.tombs = b.tombs /\ c.nodes = b.nodes  BY <1>1, <1>2, <1>3 DEF Boards
<1>11. Sound(c)  BY <1>4, <1>6, <1>8, <1>10 DEF Sound, HasTask
<1>12. Fit(c, ids \cup {e})  BY <1>9, <1>10, <1>11 DEF Fit
<1> QED BY <1>12 DEF c

LEMMA WithoutEdgeIsFit ==
  ASSUME NEW ids, NEW b, Fit(b, ids), NEW e \in b.edges, NEW n \in Nat
  PROVE  Fit(WithoutEdge(b, e, n), ids)
<1> DEFINE c == WithoutEdge(b, e, n)
<1>1. b \in Boards /\ e \in Edges /\ Edges \subseteq Ids  BY DEF Fit, Boards, Ids
<1>2. c = [b EXCEPT !.edges = b.edges \ {e}, !.tombs = [b.tombs EXCEPT ![e] = n]]  BY DEF WithoutEdge
<1> HIDE DEF c
<1>3. /\ c \in Boards /\ c.edges = b.edges \ {e} /\ c.tombs = [b.tombs EXCEPT ![e] = n] /\ c.nodes = b.nodes
  BY <1>1, <1>2 DEF Boards
<1>4. \A f \in Edges : f # e => c.tombs[f] = b.tombs[f]  BY <1>1, <1>3 DEF Boards
<1>5. \A f \in c.edges : c.tombs[f] = 0 /\ HasTask(c, Ends[f][1]) /\ HasTask(c, Ends[f][2])
  <2>1. \A f \in c.edges : f \in b.edges /\ f \in Edges /\ f # e  BY <1>1, <1>3 DEF Boards
  <2>2. \A f \in b.edges : b.tombs[f] = 0 /\ HasTask(b, Ends[f][1]) /\ HasTask(b, Ends[f][2])  BY DEF Fit, Sound
  <2> QED BY <1>3, <1>4, <2>1, <2>2 DEF HasTask
<1>6. \A f \in Edges : c.tombs[f] > 0 => b.tombs[f] > 0 \/ f \in b.edges  BY <1>4
<1>7. Fit(c, ids)  BY <1>3, <1>5, <1>6, FewerDependencies
<1> QED BY <1>7 DEF c

\* The merge owes its dependencies to the rebuild alone.
LEMMA MergeIsFit ==
  ASSUME NEW ids, NEW a, NEW b, Fit(a, ids), Fit(b, ids)
  PROVE  Fit(Merge(a, b), ids)
<1> DEFINE c == Merge(a, b)
           nodes == MergeById(a.nodes, b.nodes, c.tombs, NoTask)
           standing == Standing(a.edges \cup b.edges, nodes, c.tombs)
<1>1. a \in Boards /\ b \in Boards  BY DEF Fit
<1>2. Raw(a) /\ Raw(b)  BY <1>1 DEF Boards, Raw
<1>3. /\ Raw(c) /\ c.tombs = MergeTombs(a.tombs, b.tombs)
      /\ \A t \in Tasks : c.nodes[t].at = nodes[t].at
  BY <1>2, MergeParts
<1>4. c.edges = Rebuild(standing)  BY DEF Merge
<1>5. c = [ideas |-> c.ideas, nodes |-> c.nodes, machines |-> c.machines, edges |-> c.edges, tombs |-> c.tombs]
  BY DEF Merge
<1> HIDE DEF c, nodes
<1>6. standing \in SUBSET Edges /\ standing \subseteq a.edges \cup b.edges  BY <1>1 DEF Standing, Boards
<1>7. \A e \in standing : c.tombs[e] = 0 /\ nodes[Ends[e][1]].at > 0 /\ nodes[Ends[e][2]].at > 0  BY DEF Standing
<1> HIDE DEF standing
<1>8. /\ c.edges \subseteq standing /\ \A e, f \in c.edges : Ends[e] = Ends[f] => e = f
      /\ Layered(c.edges)
  BY <1>4, <1>6, RebuildIsSound
<1>9. c.edges \in SUBSET Edges  BY <1>6, <1>8
<1>10. c \in Boards
  <2>1. /\ c.ideas \in [Ideas -> IdeaNotes] /\ c.nodes \in [Tasks -> TaskNodes]
        /\ c.machines \in [Machines -> Boxes] /\ c.tombs \in [Ids -> Nat]
    BY <1>3 DEF Raw
  <2> QED BY <1>5, <1>9, <2>1 DEF Boards
<1>11. \A e \in c.edges : c.tombs[e] = 0 /\ HasTask(c, Ends[e][1]) /\ HasTask(c, Ends[e][2])
  <2>1. \A e \in Edges : Ends[e][1] \in Tasks /\ Ends[e][2] \in Tasks  BY BoardAssumption
  <2> QED BY <1>3, <1>7, <1>8, <1>9, <2>1 DEF HasTask
<1>12. ASSUME NEW e \in Edges, e \in c.edges \/ c.tombs[e] > 0 PROVE e \in ids
  <2>1. CASE e \in c.edges  BY <1>6, <1>8, <2>1 DEF Fit
  <2>2. CASE c.tombs[e] > 0
    <3>1. a.tombs[e] \in Nat /\ b.tombs[e] \in Nat  BY <1>1 DEF Boards, Ids
    <3>2. c.tombs[e] = Max({a.tombs[e], b.tombs[e]})  BY <1>3 DEF MergeTombs, Ids
    <3>3. c.tombs[e] = a.tombs[e] \/ c.tombs[e] = b.tombs[e]  BY <3>1, <3>2, MaxOfTwo
    <3> QED BY <2>2, <3>3 DEF Fit
  <2> QED BY <1>12, <2>1, <2>2
<1>13. Fit(c, ids)  BY <1>8, <1>10, <1>11, <1>12 DEF Fit, Sound
<1> QED BY <1>13 DEF c

-----------------------------------------------------------------------------
(* The inductive invariant of dependencies and types.                      *)

Ops == [do : {"nothing", "notify", "consume", "unconsume"}, task : Tasks \cup {None}, at : Nat]

\* The second half of an edit, if o is one, writes an idea.
WritesIdea(o) == o.do \in {"consume", "unconsume"} => o.task \in Tasks /\ Origin[o.task] \in Ideas

\* The edits under way and what is counted.
Counted ==
  /\ op \in [Replicas -> Ops] /\ \A r \in Replicas : WritesIdea(op[r])
  /\ now \in Nat /\ spent \in [losses : 0 .. MaxLosses, restarts : 0 .. MaxRestarts]

\* The loops of the peers.
Looping ==
  /\ phase \in [Peers -> Phases] /\ tries \in [Peers -> 0 .. MaxCasRetries - 1]
  /\ current \in [Peers -> BOOLEAN] /\ dirty \in [Peers -> BOOLEAN] /\ due \in [Peers -> BOOLEAN]
  /\ enabled \in [Peers -> BOOLEAN] /\ contact \in [Peers -> BOOLEAN]

\* Boards and copies of them under way.
Stored ==
  /\ DOMAIN board = Replicas /\ board = [r \in Replicas |-> board[r]]
  /\ DOMAIN held = Peers /\ held = [p \in Peers |-> held[p]]
  /\ minted \subseteq Ids
  /\ \A r \in Replicas : Fit(board[r], minted)
  /\ \A p \in Peers : Fit(held[p], minted)

DInv == Counted /\ Looping /\ Stored

LEMMA DInvIsTyped == DInv => TypeOK
<1> SUFFICES ASSUME DInv PROVE TypeOK  OBVIOUS
<1>1. board \in [Replicas -> Boards] /\ held \in [Peers -> Boards]  BY DEF DInv, Stored, Fit
<1>2. {current, dirty, due, enabled, contact} \subseteq [Peers -> BOOLEAN]  BY DEF DInv, Looping
<1> QED BY <1>1, <1>2 DEF DInv, Counted, Looping, Stored, TypeOK, Ops

LEMMA DInvInitially ==
  ASSUME Init PROVE DInv
<1>1. StartBoard \in Boards /\ Sound(StartBoard) /\ Members \subseteq Peers /\ Hub \notin Peers  BY SyncAssumption
<1>2. minted \subseteq Ids  BY DEF Init, Ids
<1>3. Fit(StartBoard, minted)  BY <1>1 DEF Fit, Init
<1>4. Fit(EmptyBoard, minted)  BY EmptyIsFit
<1>5. Stored  BY <1>2, <1>3, <1>4 DEF Init, Stored, Nothing
<1>6. MaxCasRetries \in Nat \ {0} /\ MaxLosses \in Nat /\ MaxRestarts \in Nat  BY SyncAssumption
<1>7. NoOp \in Ops /\ WritesIdea(NoOp)  BY DEF NoOp, Ops, WritesIdea
<1>8. Counted  BY <1>6, <1>7 DEF Init, Counted
<1>9. Looping  BY <1>6 DEF Init, Looping, Phases
<1> QED BY <1>5, <1>8, <1>9 DEF DInv

\* One board becomes fit by a step that may hand out ids, one held copy too.
LEMMA StoredIsKept ==
  ASSUME Stored, minted \subseteq minted', minted' \subseteq Ids,
         NEW r \in Replicas, board' = board \/ (board' = [board EXCEPT ![r] = board'[r]] /\ Fit(board'[r], minted')),
         held' = held \/ \E p \in Peers : held' = [held EXCEPT ![p] = held'[p]] /\ Fit(held'[p], minted')
  PROVE  Stored'
<1>1. DOMAIN board' = Replicas /\ board' = [q \in Replicas |-> board'[q]]  BY DEF Stored
<1>2. DOMAIN held' = Peers /\ held' = [p \in Peers |-> held'[p]]  BY DEF Stored
<1>3. ASSUME NEW q \in Replicas PROVE Fit(board'[q], minted')
  <2>1. Fit(board[q], minted')  BY FitGrows DEF Stored
  <2>2. board'[q] = board[q] \/ (q = r /\ Fit(board'[r], minted'))  BY DEF Stored
  <2> QED BY <2>1, <2>2
<1>4. ASSUME NEW q \in Peers PROVE Fit(held'[q], minted')
  <2>1. Fit(held[q], minted')  BY FitGrows DEF Stored
  <2>2. held'[q] = held[q] \/ Fit(held'[q], minted')  BY DEF Stored
  <2> QED BY <2>1, <2>2
<1> QED BY <1>1, <1>2, <1>3, <1>4 DEF Stored

LEMMA EditKeepsDInv ==
  ASSUME DInv, NEW r \in Replicas, NEW kind, NEW c, NEW rest \in Ops, WritesIdea(rest),
         Edit(r, kind, c, rest), minted \subseteq minted', minted' \subseteq Ids, Fit(c, minted')
  PROVE  DInv'
<1>1. Looping'  BY DEF DInv, Looping, Edit, peerVars
<1>2. Counted'
  <2>1. op' = [op EXCEPT ![r] = rest] /\ now' = now + 1 /\ spent' = spent  BY DEF Edit
  <2> QED BY <2>1 DEF DInv, Counted
<1>3. Stored'
  <2>1. board' = [board EXCEPT ![r] = c] /\ held' = held  BY DEF Edit, peerVars
  <2>2. board'[r] = c  BY <2>1 DEF DInv, Stored
  <2> QED BY <2>1, <2>2, StoredIsKept DEF DInv
<1> QED BY <1>1, <1>2, <1>3 DEF DInv

LEMMA EditsKeepDInv ==
  ASSUME DInv, NEW r \in Replicas, EditIdeas(r) \/ EditTasks(r) \/ EditBoxes(r) \/ EditEdges(r)
  PROVE  DInv'
<1> DEFINE n == now + 1
           b == board[r]
<1>1. n \in Nat /\ n > 0 /\ n = now + 1  BY DEF DInv, Counted
<1>2. Fit(b, minted) /\ minted \subseteq Ids  BY DEF DInv, Stored
<1> HIDE DEF n, b
<1>3. Notify \in Ops /\ WritesIdea(Notify)  BY DEF Notify, NoOp, Ops, WritesIdea
<1>4. \A t \in Tasks, do \in {"consume", "unconsume"} : InNotes(do, t) \in Ops /\ WritesIdea(InNotes(do, t))
  <2> TAKE t \in Tasks, do \in {"consume", "unconsume"}
  <2>1. CASE Origin[t] = None  BY <1>3, <2>1 DEF InNotes
  <2>2. CASE Origin[t] # None
    <3>1. Origin[t] \in Ideas  BY <2>2, BoardAssumption
    <3>2. InNotes(do, t) = [do |-> do, task |-> t, at |-> n]  BY <2>2 DEF InNotes, n
    <3> QED BY <1>1, <3>1, <3>2 DEF Ops, WritesIdea
  <2> QED BY <2>1, <2>2
\* An edit that mints no dependency.
<1>5. \A kind, c : \A rest \in Ops :
        /\ WritesIdea(rest) /\ Fit(c, minted) /\ Edit(r, kind, c, rest)
        /\ (minted' = minted \/ \E x \in Items : minted' = minted \cup {x})
        => DInv'
  <2> SUFFICES ASSUME NEW kind, NEW c, NEW rest \in Ops, WritesIdea(rest), Fit(c, minted), Edit(r, kind, c, rest),
                      minted' = minted \/ \E x \in Items : minted' = minted \cup {x}
               PROVE  DInv'
    OBVIOUS
  <2>1. minted \subseteq minted' /\ minted' \subseteq Ids  BY <1>2 DEF Ids
  <2>2. Fit(c, minted')  BY <2>1, FitGrows
  <2> QED BY <2>1, <2>2, EditKeepsDInv
<1>6. CASE EditIdeas(r)
  <2>1. PICK i \in Ideas : AddIdea(r, i) \/ UpdateIdea(r, i) \/ DeleteIdea(r, i)  BY <1>6 DEF EditIdeas
  <2>2. Fit(WithIdea(b, i, n), minted) /\ Fit(WithoutIdea(b, i, n), minted)  BY <1>1, <1>2, IdeaEditsAreFit
  <2>3. minted' = minted \/ \E x \in Items : minted' = minted \cup {x}
    BY <2>1 DEF AddIdea, UpdateIdea, DeleteIdea, Mint, Items
  <2>4. \E kind : Edit(r, kind, WithIdea(b, i, n), Notify) \/ Edit(r, kind, WithoutIdea(b, i, n), Notify)
    BY <2>1 DEF AddIdea, UpdateIdea, DeleteIdea, b, n
  <2> QED BY <1>3, <1>5, <2>2, <2>3, <2>4
<1>7. CASE EditTasks(r)
  <2>1. PICK t \in Tasks : DeleteNode(r, t) \/ \E m \in Machines \cup {None} : AddNode(r, t, m) \/ UpdateNode(r, t, m)
    BY <1>7 DEF EditTasks
  <2>2. CASE DeleteNode(r, t)
    <3>1. Edit(r, "deleteTask", WithoutTask(b, t, n), InNotes("unconsume", t)) /\ minted' = minted
      BY <2>2 DEF DeleteNode, b, n
    <3>2. Fit(WithoutTask(b, t, n), minted)  BY <1>1, <1>2, WithoutTaskIsFit
    <3> QED BY <1>4, <1>5, <3>1, <3>2
  <2>3. CASE \E m \in Machines \cup {None} : AddNode(r, t, m) \/ UpdateNode(r, t, m)
    <3>1. PICK m \in Machines \cup {None} : AddNode(r, t, m) \/ UpdateNode(r, t, m)  BY <2>3
    <3>2. Fit(WithTask(b, t, m, n), minted)  BY <1>1, <1>2, WithTaskIsFit
    <3>3. minted' = minted \/ \E x \in Items : minted' = minted \cup {x}
      BY <3>1 DEF AddNode, UpdateNode, Mint, Items
    <3>4. CASE AddNode(r, t, m)
      <4>1. Edit(r, "addTask", WithTask(b, t, m, n), InNotes("consume", t))  BY <3>4 DEF AddNode, b, n
      <4> QED BY <1>4, <1>5, <3>2, <3>3, <4>1
    <3>5. CASE UpdateNode(r, t, m)
      <4>1. Edit(r, "updateTask", WithTask(b, t, m, n), Notify)  BY <3>5 DEF UpdateNode, b, n
      <4> QED BY <1>3, <1>5, <3>2, <3>3, <4>1
    <3> QED BY <3>1, <3>4, <3>5
  <2> QED BY <2>1, <2>2, <2>3
<1>8. CASE EditBoxes(r)
  <2>1. PICK m \in Machines : AddMachine(r, m) \/ UpdateMachine(r, m) \/ DeleteMachine(r, m)  BY <1>8 DEF EditBoxes
  <2>2. Fit(WithBox(b, m, n), minted) /\ Fit(WithoutBox(b, m, n), minted)  BY <1>1, <1>2, BoxEditsAreFit
  <2>3. minted' = minted \/ \E x \in Items : minted' = minted \cup {x}
    BY <2>1 DEF AddMachine, UpdateMachine, DeleteMachine, Mint, Items
  <2>4. \E kind : Edit(r, kind, WithBox(b, m, n), Notify) \/ Edit(r, kind, WithoutBox(b, m, n), Notify)
    BY <2>1 DEF AddMachine, UpdateMachine, DeleteMachine, b, n
  <2> QED BY <1>3, <1>5, <2>2, <2>3, <2>4
<1>9. CASE EditEdges(r)
  <2>1. PICK e \in Edges : AddEdge(r, e) \/ DeleteEdge(r, e)  BY <1>9 DEF EditEdges
  <2>2. CASE AddEdge(r, e)
    <3>1. /\ EdgeAllowed(b, e) /\ e \notin minted /\ minted' = minted \cup {e}
          /\ Edit(r, "addEdge", WithEdge(b, e), Notify)
      BY <2>2 DEF AddEdge, Mint, b
    <3>2. Fit(WithEdge(b, e), minted \cup {e})  BY <1>2, <3>1, WithEdgeIsFit
    <3>3. minted \subseteq minted' /\ minted' \subseteq Ids  BY <1>2, <3>1 DEF Ids
    <3>4. \A kind, c : Edit(r, kind, c, Notify) /\ Fit(c, minted') => DInv'  BY <1>3, <3>3, EditKeepsDInv
    <3> QED BY <3>1, <3>2, <3>4
  <2>3. CASE DeleteEdge(r, e)
    <3>1. e \in b.edges /\ minted' = minted /\ Edit(r, "deleteEdge", WithoutEdge(b, e, n), Notify)
      BY <2>3 DEF DeleteEdge, b, n
    <3>2. Fit(WithoutEdge(b, e, n), minted)  BY <1>1, <1>2, <3>1, WithoutEdgeIsFit
    <3> QED BY <1>3, <1>5, <3>1, <3>2
  <2> QED BY <2>1, <2>2, <2>3
<1> QED BY <1>6, <1>7, <1>8, <1>9

LEMMA WriteNotesKeepsDInv ==
  ASSUME DInv, NEW r \in Replicas, WriteNotes(r)
  PROVE  DInv'
<1> DEFINE b == board[r]
           t == op[r].task
           n == op[r].at
           i == Origin[t]
<1>1. Fit(b, minted)  BY DEF DInv, Stored
<1>2. t \in Tasks /\ i \in Ideas /\ n \in Nat  BY DEF WriteNotes, DInv, Counted, WritesIdea, Ops
<1>3. board' = [board EXCEPT ![r] = IF op[r].do = "consume" THEN Consume(b, i, t, n) ELSE Unconsume(b, i, t, n)]
  BY DEF WriteNotes
<1>4. board'[r] = Consume(b, i, t, n) \/ board'[r] = Unconsume(b, i, t, n)  BY <1>3 DEF DInv, Stored
<1>5. board' = [board EXCEPT ![r] = board'[r]]  BY <1>3 DEF DInv, Stored
<1>6. op' = [op EXCEPT ![r] = Notify] /\ UNCHANGED <<peerVars, current, now, minted, spent>>  BY DEF WriteNotes
<1> HIDE DEF b, t, n, i
<1>7. /\ Fit([b EXCEPT !.ideas[i] = [at |-> n, task |-> t]], minted)
      /\ Fit([b EXCEPT !.ideas[i] = [at |-> n, task |-> None]], minted)
  BY <1>1, <1>2, IdeaEditsAreFit
<1>8. Fit(board'[r], minted')  BY <1>1, <1>4, <1>6, <1>7 DEF Consume, Unconsume
<1>9. Stored'
  <2>1. minted' = minted /\ held' = held /\ minted' \subseteq Ids  BY <1>6 DEF peerVars, DInv, Stored
  <2> QED BY <1>5, <1>8, <2>1, StoredIsKept DEF DInv
<1>10. Notify \in Ops /\ WritesIdea(Notify)  BY DEF Notify, NoOp, Ops, WritesIdea
<1>11. Counted'  BY <1>6, <1>10 DEF DInv, Counted
<1>12. Looping'  BY <1>6 DEF DInv, Looping, peerVars
<1> QED BY <1>9, <1>11, <1>12 DEF DInv

LEMMA OnLocalChangeKeepsDInv ==
  ASSUME DInv, NEW r \in Replicas, OnLocalChange(r)
  PROVE  DInv'
<1>1. NoOp \in Ops /\ WritesIdea(NoOp)  BY DEF NoOp, Ops, WritesIdea
<1>2. Counted'  BY <1>1 DEF OnLocalChange, DInv, Counted
<1>3. Looping'  BY DEF OnLocalChange, DInv, Looping, peerVars, NobodyCurrent
<1>4. UNCHANGED <<board, held, minted>>  BY DEF OnLocalChange, peerVars
<1>5. Stored'  BY <1>4 DEF DInv, Stored
<1> QED BY <1>2, <1>3, <1>5 DEF DInv

LEMMA RestartKeepsDInv ==
  ASSUME DInv, NEW r \in Replicas, Restart(r)
  PROVE  DInv'
<1>1. minted' = minted /\ minted \subseteq Ids /\ Fit(board[r], minted)  BY DEF Restart, DInv, Stored
<1>2. /\ op' = [op EXCEPT ![r] = NoOp] \/ op' = [op EXCEPT ![r] = Notify]
      /\ now' = now \/ now' = now + 1
  BY DEF Restart, Migrates
<1>3. board' = board \/ (board' = [board EXCEPT ![r] = board'[r]] /\ Fit(board'[r], minted'))
  <2>1. CASE board' = board  BY <2>1
  <2>2. CASE \E link \in Links(board[r]) : board' = [board EXCEPT ![r] = ReconcileConsumed(@, link, now + 1)]
    <3> DEFINE b == board[r]
               n == now + 1
    <3>1. PICK link \in Links(b) : board' = [board EXCEPT ![r] = ReconcileConsumed(b, link, n)]  BY <2>2
    <3>2. board'[r] = ReconcileConsumed(b, link, n) /\ board' = [board EXCEPT ![r] = board'[r]]
      BY <3>1 DEF DInv, Stored
    <3>3. n \in Nat  BY DEF DInv, Counted
    <3> HIDE DEF b, n
    <3>4. Fit(ReconcileConsumed(b, link, n), minted)  BY <1>1, <3>3, ReconciledIsFit DEF b
    <3> QED BY <1>1, <3>2, <3>4
  <2> QED BY <2>1, <2>2 DEF Restart, Migrates
<1>4. held' = held \/ \E p \in Peers : held' = [held EXCEPT ![p] = held'[p]] /\ Fit(held'[p], minted')
  <2>1. CASE held' = held  BY <2>1
  <2>2. CASE r \in Peers /\ held' = [held EXCEPT ![r] = Nothing]
    <3>1. held'[r] = EmptyBoard /\ held' = [held EXCEPT ![r] = held'[r]]  BY <2>2 DEF DInv, Stored, Nothing
    <3> QED BY <2>2, <3>1, EmptyIsFit
  <2> QED BY <2>1, <2>2 DEF Restart, Rests, peerVars
<1>5. Stored'  BY <1>1, <1>3, <1>4, StoredIsKept DEF DInv
<1>6. NoOp \in Ops /\ WritesIdea(NoOp) /\ Notify \in Ops /\ WritesIdea(Notify)  BY DEF Notify, NoOp, Ops, WritesIdea
<1>7. spent' \in [losses : 0 .. MaxLosses, restarts : 0 .. MaxRestarts]
  <2>1. MaxLosses \in Nat /\ MaxRestarts \in Nat  BY SyncAssumption
  <2>2. spent.restarts < MaxRestarts /\ spent' = [spent EXCEPT !.restarts = @ + 1]  BY DEF Restart
  <2> QED BY <2>1, <2>2 DEF DInv, Counted
<1>8. Counted'  BY <1>2, <1>6, <1>7 DEF DInv, Counted
<1>9. Looping'
  <2>0. Looping /\ 0 \in 0 .. MaxCasRetries - 1  BY SyncAssumption DEF DInv
  <2>1. CASE r = Hub /\ UNCHANGED <<peerVars, current>>  BY <2>0, <2>1 DEF Looping, peerVars
  <2>2. CASE r \in Peers /\ Rests(r, "idle") /\ tries' = [tries EXCEPT ![r] = 0]
    <3>1. tries' \in [Peers -> 0 .. MaxCasRetries - 1]  BY <2>0, <2>2 DEF Looping
    <3>2. dirty' \in [Peers -> BOOLEAN] /\ due' \in [Peers -> BOOLEAN] /\ contact' \in [Peers -> BOOLEAN]
          /\ current' \in [Peers -> BOOLEAN] /\ enabled' \in [Peers -> BOOLEAN]
      BY <2>0, <2>2 DEF Restart, peerVars, Looping
    <3>3. phase' \in [Peers -> Phases]  BY <2>0, <2>2 DEF Rests, Looping, Phases
    <3> QED BY <3>1, <3>2, <3>3 DEF Looping
  <2> QED BY <2>1, <2>2 DEF Restart
<1> QED BY <1>5, <1>8, <1>9 DEF DInv

LEMMA PeerStepKeepsLooping ==
  ASSUME DInv, NEW p \in Peers, Nudge(p) \/ Tick(p) \/ Lose(p)
  PROVE  Looping'
<1>0. Looping /\ MaxCasRetries \in Nat \ {0}  BY SyncAssumption DEF DInv
<1>10. [tries EXCEPT ![p] = 0] \in [Peers -> 0 .. MaxCasRetries - 1]
  <2>1. 0 \in 0 .. MaxCasRetries - 1  BY <1>0
  <2> QED BY <1>0, <2>1 DEF Looping
<1>11. FailDirty(p) /\ UNCHANGED <<enabled, contact>> => Looping'  BY <1>0, <1>10 DEF FailDirty, Rests, Looping, Phases
<1>1. CASE Nudge(p)  BY <1>0, <1>1 DEF Nudge, Looping
<1>2. CASE StartPush(p) \/ PushBegins(p) \/ StartPoll(p)
  BY <1>0, <1>2 DEF StartPush, PushBegins, StartPoll, Looping, Phases
<1>3. CASE HubGet(p)
  <2>1. (phase[p] = "pulling") \in BOOLEAN  OBVIOUS
  <2>2. current' = [current EXCEPT ![p] = (phase[p] = "pulling")]  BY <1>3 DEF HubGet
  <2>3. current' \in [Peers -> BOOLEAN]  BY <1>0, <2>1, <2>2 DEF Looping
  <2> QED BY <1>0, <1>3, <2>3 DEF HubGet, Looping, Phases
<1>4. CASE PollMerges(p)
  <2> DEFINE stale == RemoteStale(board[p], held[p])
  <2>1. stale \in BOOLEAN  BY DEF RemoteStale
  <2>2. /\ phase' = [phase EXCEPT ![p] = "idle"] /\ contact' = [contact EXCEPT ![p] = TRUE]
        /\ UNCHANGED <<enabled, tries, current>>
    BY <1>4 DEF PollMerges
  <2>3. dirty' = [dirty EXCEPT ![p] = @ \/ stale] /\ due' = [due EXCEPT ![p] = @ \/ stale]
    BY <1>4 DEF PollMerges
  <2> HIDE DEF stale
  <2>4. dirty' \in [Peers -> BOOLEAN] /\ due' \in [Peers -> BOOLEAN]  BY <1>0, <2>1, <2>3 DEF Looping
  <2> QED BY <1>0, <2>2, <2>4 DEF Looping, Phases
<1>5. CASE PullMerges(p)  BY <1>0, <1>5 DEF PullMerges, Looping, Phases
<1>6. CASE HubAccepts(p)  BY <1>0, <1>6 DEF HubAccepts, NobodyCurrent, Rests, Looping, Phases
<1>7. CASE HubRefuses(p) \/ PushSucceeds(p)
  <2>1. CASE HubRefuses(p)  BY <1>0, <2>1 DEF HubRefuses, Rests, Looping, Phases
  <2>2. CASE PushSucceeds(p)  BY <1>0, <1>10, <2>2 DEF PushSucceeds, Rests, Looping, Phases
  <2> QED BY <1>7, <2>1, <2>2
<1>8. CASE PushConflicts(p)
  <2>1. tries[p] \in 0 .. MaxCasRetries - 1  BY <1>0 DEF Looping
  <2>2. CASE FailDirty(p)  BY <1>8, <1>11, <2>2 DEF PushConflicts
  <2>3. CASE /\ tries[p] + 1 < MaxCasRetries /\ tries' = [tries EXCEPT ![p] = @ + 1]
             /\ Rests(p, "pulling") /\ UNCHANGED <<dirty, due, current>>
    <3>1. tries[p] + 1 \in 0 .. MaxCasRetries - 1  BY <1>0, <2>1, <2>3
    <3>2. tries' \in [Peers -> 0 .. MaxCasRetries - 1]  BY <1>0, <2>3, <3>1 DEF Looping
    <3> QED BY <1>0, <1>8, <2>3, <3>2 DEF PushConflicts, Rests, Looping, Phases
  <2> QED BY <1>8, <2>2, <2>3 DEF PushConflicts
<1>9. CASE Lose(p)
  <2>1. CASE FailDirty(p)  BY <1>9, <1>11, <2>1 DEF Lose
  <2>2. CASE Rests(p, "idle") /\ UNCHANGED <<dirty, due, tries, current>>
    BY <1>0, <1>9, <2>2 DEF Lose, Rests, Looping, Phases
  <2> QED BY <1>9, <2>1, <2>2 DEF Lose
<1> QED BY <1>1, <1>2, <1>3, <1>4, <1>5, <1>6, <1>7, <1>8, <1>9 DEF Tick

LEMMA PeerStepKeepsDInv ==
  ASSUME DInv, NEW p \in Peers, Nudge(p) \/ Tick(p) \/ Lose(p)
  PROVE  DInv'
<1>1. Looping'  BY PeerStepKeepsLooping
<1>2. op' = op /\ now' = now /\ minted' = minted
  BY DEF Nudge, Tick, Lose, StartPush, PushBegins, StartPoll, HubGet, PollMerges, PullMerges, HubAccepts,
         HubRefuses, PushSucceeds, PushConflicts
<1>3. spent' \in [losses : 0 .. MaxLosses, restarts : 0 .. MaxRestarts]
  <2>1. MaxLosses \in Nat /\ MaxRestarts \in Nat  BY SyncAssumption
  <2>2. spent' = spent \/ (spent.losses < MaxLosses /\ spent' = [spent EXCEPT !.losses = @ + 1])
    BY DEF Nudge, Tick, Lose, StartPush, PushBegins, StartPoll, HubGet, PollMerges, PullMerges, HubAccepts,
           HubRefuses, PushSucceeds, PushConflicts
  <2> QED BY <2>1, <2>2 DEF DInv, Counted
<1>4. Counted'  BY <1>2, <1>3 DEF DInv, Counted
<1>5. /\ minted' \subseteq Ids /\ p \in Replicas /\ Hub \in Replicas
      /\ Fit(board[p], minted') /\ Fit(board[Hub], minted') /\ Fit(held[p], minted')
  BY <1>2 DEF DInv, Stored, Replicas
<1>6. held' = held \/ (held' = [held EXCEPT ![p] = held'[p]] /\ Fit(held'[p], minted'))
  <2>1. CASE held' = held  BY <2>1
  <2>2. CASE HubGet(p)
    <3>1. held'[p] = board[Hub] /\ held' = [held EXCEPT ![p] = held'[p]]  BY <2>2 DEF HubGet, DInv, Stored
    <3> QED BY <1>5, <3>1
  <2>3. CASE PullMerges(p)
    <3>1. held'[p] = Merge(board[p], held[p]) /\ held' = [held EXCEPT ![p] = held'[p]]
      BY <2>3 DEF PullMerges, DInv, Stored
    <3>2. Fit(held'[p], minted')  BY <1>5, <3>1, MergeIsFit
    <3> QED BY <3>1, <3>2
  <2>4. CASE held' = [held EXCEPT ![p] = Nothing]
    <3>1. held'[p] = EmptyBoard /\ held' = [held EXCEPT ![p] = held'[p]]  BY <2>4 DEF DInv, Stored, Nothing
    <3> QED BY <3>1, EmptyIsFit
  <2> QED BY <2>1, <2>2, <2>3, <2>4
        DEF Nudge, Tick, Lose, StartPush, PushBegins, StartPoll, PollMerges, HubAccepts, HubRefuses, PushSucceeds,
            PushConflicts, Rests, FailDirty
<1>7. Stored'
  <2>1. CASE board' = board
    <3> QED BY <1>2, <1>5, <1>6, <2>1, StoredIsKept DEF DInv
  <2>2. CASE PollMerges(p) \/ PullMerges(p)
    <3>1. board' = [board EXCEPT ![p] = Merge(board[p], held[p])]  BY <2>2 DEF PollMerges, PullMerges
    <3>2. board'[p] = Merge(board[p], held[p]) /\ board' = [board EXCEPT ![p] = board'[p]]
      BY <1>5, <3>1 DEF DInv, Stored
    <3>3. Fit(board'[p], minted')  BY <1>5, <3>2, MergeIsFit
    <3> QED BY <1>2, <1>5, <1>6, <3>2, <3>3, StoredIsKept DEF DInv
  <2>3. CASE HubAccepts(p)
    <3>1. board' = [board EXCEPT ![Hub] = Merge(board[Hub], held[p])]  BY <2>3 DEF HubAccepts
    <3>2. board'[Hub] = Merge(board[Hub], held[p]) /\ board' = [board EXCEPT ![Hub] = board'[Hub]]
      BY <1>5, <3>1 DEF DInv, Stored
    <3>3. Fit(board'[Hub], minted')  BY <1>5, <3>2, MergeIsFit
    <3> QED BY <1>2, <1>5, <1>6, <3>2, <3>3, StoredIsKept DEF DInv
  <2> QED BY <2>1, <2>2, <2>3
        DEF Nudge, Tick, Lose, StartPush, PushBegins, StartPoll, HubGet, HubRefuses, PushSucceeds, PushConflicts
<1> QED BY <1>1, <1>4, <1>7 DEF DInv

LEMMA DInvIsKept ==
  ASSUME DInv, [Next]_vars
  PROVE  DInv'
<1>1. CASE Next
  <2>1. ASSUME NEW r \in Replicas,
               EditIdeas(r) \/ EditTasks(r) \/ EditBoxes(r) \/ EditEdges(r) \/ Finish(r) \/ Restart(r)
        PROVE  DInv'
    BY <2>1, EditsKeepDInv, WriteNotesKeepsDInv, OnLocalChangeKeepsDInv, RestartKeepsDInv DEF Finish
  <2>2. ASSUME NEW p \in Peers, Nudge(p) \/ Tick(p) \/ Lose(p) PROVE DInv'
    BY <2>2, PeerStepKeepsDInv
  <2> QED BY <1>1, <2>1, <2>2 DEF Next
<1>2. CASE UNCHANGED vars
  BY <1>2 DEF DInv, Counted, Looping, Stored, vars, peerVars
<1> QED BY <1>1, <1>2

\* Types, what an edit under way has still to write, and boards and copies under way with
\* sound dependencies whose ids were handed out.
THEOREM BoardInvariance == Spec => []DInv
<1>1. Init => DInv  BY DInvInitially
<1>2. DInv /\ [Next]_vars => DInv'  BY DInvIsKept
<1> QED BY <1>1, <1>2, PTL DEF Spec

THEOREM BoardTypeCorrect == Spec => []TypeOK
<1> QED BY BoardInvariance, DInvIsTyped, PTL

\* The dependencies of every board go between tasks that are there, once per pair, in no
\* circle, and none is one that was deleted: after any edits on any Harnesses, in any
\* order of merges, lost requests and restarts (EdgeAllowed, MergeFrom's rebuild).
THEOREM NoCircles == Spec => []DependenciesAreSound
<1>1. DInv => DependenciesAreSound  BY DEF DInv, Stored, Fit, DependenciesAreSound
<1> QED BY <1>1, BoardInvariance, PTL
=============================================================================
