---------------------------- MODULE MC_IdeasSync ----------------------------
(* Instances of IdeasSync: which ids there are and what the Harnesses share at first. *)
EXTENDS IdeasSync

CONSTANTS i1, t1, t2, m1, e1, e2, p1, p2, i2

NoIds   == {}
NoEdges == <<>>
NoEnds  == [e \in {} |-> <<>>]

\* Two tasks, and the dependency each way: together they are a circle.
BothWays     == <<e1, e2>>
BothWaysEnds == (e1 :> <<t1, t2>>) @@ (e2 :> <<t2, t1>>)

NotPromoted  == [t \in Tasks |-> None]
Promoted1    == [t \in Tasks |-> IF t = t1 THEN i1 ELSE None]

\* The board that is shared at the start holds the ids of one set, with stamp 1.
Holding(ids) ==
  [ideas    |-> [i \in Ideas |-> IF i \notin ids THEN NoIdea
                                 ELSE [at |-> 1, task |-> IF t1 \in ids /\ Origin[t1] = i THEN t1 ELSE None]],
   nodes    |-> [t \in Tasks |-> IF t \notin ids THEN NoTask
                                 ELSE [at |-> 1, machine |-> IF m1 \in Machines \cap ids THEN m1 ELSE None]],
   machines |-> [m \in Machines |-> [at |-> IF m \in ids THEN 1 ELSE 0]],
   edges    |-> {}, tombs |-> [x \in Ids |-> 0]]
FullBoard  == Holding(Items)
OnlyTasks  == Holding(Tasks)
OnlyIdea   == Holding({i1})

Peers2    == {p1, p2}
Alike     == Permutations(Peers2)
=============================================================================
