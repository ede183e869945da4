----------------------------- MODULE BoardMerge -----------------------------
(***************************************************************************)
(* The board one Harness keeps and its merge with another Harness's copy:  *)
(* ideas (NotesService) and the task graph (TaskGraphService) with its     *)
(* tasks, machine boxes and dependencies.                                  *)
(*                                                                         *)
(* Every element has an id (a GUID: minted once, never reused) and the     *)
(* stamp of its last edit; a deletion leaves a tombstone with its stamp.   *)
(* Stamp 0 means there is none.  Of an element's contents the model keeps  *)
(* what links it to another one: the task that consumed an idea, the box   *)
(* a task stands in.  A dependency never changes, so it is its id alone.   *)
(*                                                                         *)
(* Not part of a board here: the scratchpad and the goal text (registers   *)
(* of one stamp each), idea numbers, and the removal of tombstones that    *)
(* are thirty days old.                                                    *)
(***************************************************************************)
EXTENDS Naturals, SequencesExt, FiniteSets

CONSTANTS
  Ideas, Tasks, Machines, \* ids
  EdgeOrder,              \* the ids of the dependencies, in ordinal order
  Ends,                   \* Ends[e]: the two tasks of a dependency, the dependent one first
  Origin,                 \* Origin[t]: the idea a task is promoted from, or None
  None                    \* no task, no machine, no idea

Edges == Range(EdgeOrder)
Items == Ideas \cup Tasks \cup Machines
Ids   == Items \cup Edges

ASSUME BoardAssumption ==
  /\ EdgeOrder \in Seq(Edges) /\ Ends \in [Edges -> Tasks \X Tasks] /\ IsFiniteSet(Tasks)
  /\ Origin \in [Tasks -> Ideas \cup {None}]
  /\ None \notin Ids /\ Edges \cap Items = {}
  /\ Ideas \cap Tasks = {} /\ Ideas \cap Machines = {} /\ Tasks \cap Machines = {}

IdeaNotes == [at : Nat, task : Tasks \cup {None}]
TaskNodes == [at : Nat, machine : Machines \cup {None}]
Boxes     == [at : Nat]

Boards ==
  [ideas : [Ideas -> IdeaNotes], nodes : [Tasks -> TaskNodes], machines : [Machines -> Boxes],
   edges : SUBSET Edges, tombs : [Ids -> Nat]]

NoIdea == [at |-> 0, task |-> None]
NoTask == [at |-> 0, machine |-> None]
NoBox  == [at |-> 0]

EmptyBoard ==
  [ideas |-> [i \in Ideas |-> NoIdea], nodes |-> [t \in Tasks |-> NoTask],
   machines |-> [m \in Machines |-> NoBox], edges |-> {}, tombs |-> [x \in Ids |-> 0]]

HasIdea(b, i) == b.ideas[i].at > 0
HasTask(b, t) == b.nodes[t].at > 0
HasBox(b, m)  == b.machines[m].at > 0

StampOf(b, x) ==
  CASE x \in Ideas    -> b.ideas[x].at
    [] x \in Tasks    -> b.nodes[x].at
    [] x \in Machines -> b.machines[x].at

\* The last a board knows of an item: its last edit or its deletion.
Version(b, x) == Max({StampOf(b, x), b.tombs[x]})

-----------------------------------------------------------------------------
(* Dependencies.                                                           *)

\* Every set of tasks that holds s and is closed under the edges holds t.
Reaches(edges, s, t) ==
  \A closed \in SUBSET Tasks :
    (s \in closed /\ \A e \in edges : Ends[e][1] \in closed => Ends[e][2] \in closed) => t \in closed

Duplicate(edges, e) == \E f \in edges : Ends[f] = Ends[e]
SelfLoop(e)         == Ends[e][1] = Ends[e][2]
ClosesCycle(edges, e) == Reaches(edges, Ends[e][2], Ends[e][1])

\* Variant: the rebuild trusts the union, each side was acyclic.
Admit_Trusting(edges, e) == IF SelfLoop(e) \/ Duplicate(edges, e) THEN edges ELSE edges \cup {e}

Admit(edges, e) ==
  IF SelfLoop(e) \/ Duplicate(edges, e) \/ ClosesCycle(edges, e) THEN edges ELSE edges \cup {e}

\* The canonical validity rebuild: one by one, in id order.
Rebuild(candidates) ==
  LET kept[n \in 0 .. Len(EdgeOrder)] ==
        IF n = 0 THEN {}
        ELSE IF EdgeOrder[n] \in candidates THEN Admit(kept[n - 1], EdgeOrder[n]) ELSE kept[n - 1]
  IN  kept[Len(EdgeOrder)]

-----------------------------------------------------------------------------
(* The merge.                                                              *)

\* Variant: the other copy wins wherever it has the element.
Newer_Theirs(mine, theirs) == IF theirs.at > 0 THEN theirs ELSE mine

Newer(mine, theirs) == IF theirs.at > mine.at THEN theirs ELSE mine

\* The tombstone filter.
Screened(w, dead, nothing) == IF dead >= w.at THEN nothing ELSE w

MergeById(mine, theirs, tombs, nothing) ==
  [x \in DOMAIN mine |-> Screened(Newer(mine[x], theirs[x]), tombs[x], nothing)]

MergeTombs(mine, theirs) == [x \in Ids |-> Max({mine[x], theirs[x]})]

\* A task whose box did not survive is detached, and not stamped.
Detached(node, machines) ==
  IF node.machine # None /\ machines[node.machine].at = 0 THEN [node EXCEPT !.machine = None] ELSE node

\* Variant: a dependency is kept when its task is gone.
Standing_Dangling(edges, nodes, tombs) == {e \in edges : tombs[e] = 0}

Standing(edges, nodes, tombs) ==
  {e \in edges : tombs[e] = 0 /\ nodes[Ends[e][1]].at > 0 /\ nodes[Ends[e][2]].at > 0}

Merge(mine, theirs) ==
  LET tombs    == MergeTombs(mine.tombs, theirs.tombs)
      machines == MergeById(mine.machines, theirs.machines, tombs, NoBox)
      nodes    == MergeById(mine.nodes, theirs.nodes, tombs, NoTask)
  IN  [ideas    |-> MergeById(mine.ideas, theirs.ideas, tombs, NoIdea),
       nodes    |-> [t \in Tasks |-> Detached(nodes[t], machines)],
       machines |-> machines,
       edges    |-> Rebuild(Standing(mine.edges \cup theirs.edges, nodes, tombs)),
       tombs    |-> tombs]

\* What is left of the other copy under the merged tombstones.
Remaining(theirs, tombs) ==
  [ideas    |-> MergeById(theirs.ideas, theirs.ideas, tombs, NoIdea),
   nodes    |-> MergeById(theirs.nodes, theirs.nodes, tombs, NoTask),
   machines |-> MergeById(theirs.machines, theirs.machines, tombs, NoBox),
   edges    |-> {e \in theirs.edges : tombs[e] = 0},
   tombs    |-> theirs.tombs]

\* Variant: a deletion the other side lacks is no reason to push.
RemoteStale_TombsApart(mine, theirs) ==
  LET m == Merge(mine, theirs) IN [m EXCEPT !.tombs = theirs.tombs] # Remaining(theirs, m.tombs)

\* MergeOutcome.RemoteStale: the merged board holds what the other copy lacks.
RemoteStale(mine, theirs) ==
  LET m == Merge(mine, theirs) IN m # Remaining(theirs, m.tombs)

-----------------------------------------------------------------------------
(* Edits of one board, each stamped with the time of the call.             *)

\* Add and Update alike: an idea keeps the task that consumed it.
WithIdea(b, i, now) == [b EXCEPT !.ideas[i].at = now]

WithoutIdea(b, i, now) == [b EXCEPT !.ideas[i] = NoIdea, !.tombs[i] = now]

Consume(b, i, t, now) ==
  IF HasIdea(b, i) /\ b.ideas[i].task # t THEN [b EXCEPT !.ideas[i] = [at |-> now, task |-> t]] ELSE b

Unconsume(b, i, t, now) ==
  IF HasIdea(b, i) /\ b.ideas[i].task = t THEN [b EXCEPT !.ideas[i] = [at |-> now, task |-> None]] ELSE b

\* The start-up migration: an unconsumed idea with a task is consumed by it, by any one
\* of them (the first in the board's order, which is the order of arrival).
Promoted(b, i)  == {t \in Tasks : HasTask(b, t) /\ Origin[t] = i}
Unreconciled(b) == {i \in Ideas : HasIdea(b, i) /\ b.ideas[i].task = None /\ Promoted(b, i) # {}}
Links(b)        == {link \in [Unreconciled(b) -> Tasks] : \A i \in Unreconciled(b) : link[i] \in Promoted(b, i)}
ReconcileConsumed(b, link, now) ==
  [b EXCEPT !.ideas = [i \in Ideas |-> IF i \in Unreconciled(b) THEN [at |-> now, task |-> link[i]] ELSE @[i]]]

\* Add and Update alike.
WithTask(b, t, m, now) == [b EXCEPT !.nodes[t] = [at |-> now, machine |-> m]]

Touching(b, t) == {e \in b.edges : t \in {Ends[e][1], Ends[e][2]}}

WithoutTask(b, t, now) ==
  [b EXCEPT !.nodes[t] = NoTask, !.edges = @ \ Touching(b, t),
            !.tombs = [x \in Ids |-> IF x = t \/ x \in Touching(b, t) THEN now ELSE @[x]]]

WithBox(b, m, now) == [b EXCEPT !.machines[m].at = now]

WithoutBox(b, m, now) ==
  [b EXCEPT !.machines[m] = NoBox, !.tombs[m] = now,
            !.nodes = [t \in Tasks |-> IF HasTask(b, t) /\ @[t].machine = m
                                         THEN [at |-> now, machine |-> None] ELSE @[t]]]

EdgeAllowed(b, e) ==
  /\ HasTask(b, Ends[e][1]) /\ HasTask(b, Ends[e][2])
  /\ ~SelfLoop(e) /\ ~Duplicate(b.edges, e) /\ ~ClosesCycle(b.edges, e)
WithEdge(b, e) == [b EXCEPT !.edges = @ \cup {e}]
WithoutEdge(b, e, now) == [b EXCEPT !.edges = @ \ {e}, !.tombs[e] = now]
=============================================================================
