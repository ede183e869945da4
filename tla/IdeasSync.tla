----------------------------- MODULE IdeasSync -----------------------------
(***************************************************************************)
(* One board on several Harnesses.  The hub (IdeasHubService) answers GET  *)
(* with its board and revision and merges a POST whose base revision is    *)
(* still its own; every peer (IdeasSyncService) pulls, merges and pushes   *)
(* on a one-second tick.  Users edit the board on every Harness.           *)
(*                                                                         *)
(* A peer's tick is one loop, so it has one request out at a time, and     *)
(* edits go on meanwhile.  An edit is saved first and noticed after        *)
(* (Changed), and promoting an idea or deleting its task writes the two    *)
(* stores one after the other: op[r] holds what an edit has still to do.   *)
(*                                                                         *)
(* The hub's revision only ever matters compared with the one a push       *)
(* started from, so it is kept as current[p].  Times are not kept: a due   *)
(* time set and elapsed are one flag, due.  The merge of the two stores    *)
(* and the snapshot behind it are one step.  Stamps of edits are unique.   *)
(***************************************************************************)
EXTENDS BoardMerge

CONSTANTS
  Hub, Peers,
  Members,       \* peers whose sync is enabled from the start
  StartBoard,    \* the board those share at the start
  MaxCasRetries, \* IdeasSyncService.MaxCasRetries
  Edits,         \* the kinds of edits users make
  Editors,       \* the Harnesses where they make them
  SlowRequests,  \* whether an edit elsewhere may be later than the first half of a promotion
                 \* or of a task's deletion and earlier than its second half
  MaxEdits,      \* bound: stamps handed out
  MaxLosses,     \* bound: requests or answers lost
  MaxRestarts    \* bound: Harnesses restarted

Replicas == Peers \cup {Hub}

\* The dependencies lead from layer to layer, downwards.
Layered(edges) ==
  \E layer \in [Tasks -> 1 .. Cardinality(Tasks)] : \A e \in edges : layer[Ends[e][1]] > layer[Ends[e][2]]

\* What a board's dependencies must be.
Sound(b) ==
  /\ \A e \in b.edges : HasTask(b, Ends[e][1]) /\ HasTask(b, Ends[e][2]) /\ b.tombs[e] = 0
  /\ \A e, f \in b.edges : Ends[e] = Ends[f] => e = f
  /\ Layered(b.edges)

ASSUME SyncAssumption ==
  /\ Hub \notin Peers /\ Members \subseteq Peers /\ Editors \subseteq Replicas
  /\ StartBoard \in Boards /\ Sound(StartBoard) /\ SlowRequests \in BOOLEAN
  /\ \A x \in Items : Version(StartBoard, x) <= 1
  /\ MaxCasRetries \in Nat \ {0} /\ {MaxEdits, MaxLosses, MaxRestarts} \subseteq Nat

VARIABLES
  board,   \* board[r]: as saved on disk
  op,      \* op[r]: what an edit on r has still to do
  phase,   \* phase[p]: where the tick of p is
  held,    \* held[p]: the store p got, later the one it posts
  current, \* current[p]: the hub's revision is still the one p got
  dirty,   \* dirty[p]: IdeasSyncService._dirty
  due,     \* due[p]: _pushDueUtc is set
  enabled, \* enabled[p]: the sync is configured
  contact,  \* contact[p]: the state p reports is "contact"
  tries,   \* tries[p]: conflicts of this push
  now,     \* the last stamp
  minted,  \* the ids handed out
  spent    \* how much of each bound is used

peerVars == <<phase, held, dirty, due, enabled, contact, tries>>
vars     == <<board, op, peerVars, current, now, minted, spent>>

Phases ==
  {"idle", "starting", "polling", "polled", "pulling", "pulled", "posting", "accepted", "refused"}

NoOp   == [do |-> "nothing", task |-> None, at |-> 0]
Notify == [NoOp EXCEPT !.do = "notify"]
Nothing == EmptyBoard

Init ==
  /\ board = [r \in Replicas |-> IF r \in Members \cup {Hub} THEN StartBoard ELSE EmptyBoard]
  /\ op = [r \in Replicas |-> NoOp]
  /\ phase = [p \in Peers |-> "idle"] /\ held = [p \in Peers |-> Nothing]
  /\ current = [p \in Peers |-> FALSE]
  /\ dirty = [p \in Peers |-> FALSE] /\ due = [p \in Peers |-> FALSE]
  /\ enabled = [p \in Peers |-> p \in Members] /\ contact = [p \in Peers |-> FALSE]
  /\ tries = [p \in Peers |-> 0]
  /\ now = 1
  /\ minted = {x \in Items : Version(StartBoard, x) > 0}
               \cup {e \in Edges : e \in StartBoard.edges \/ StartBoard.tombs[e] > 0}
  /\ spent = [losses |-> 0, restarts |-> 0]

-----------------------------------------------------------------------------
(* Edits.                                                                  *)

Halfway(rs) == \E r \in rs : op[r].do \in {"consume", "unconsume"}

\* A request thread changes and saves the board of r; rest is what it does then.
Edit(r, kind, b, rest) ==
  /\ kind \in Edits /\ r \in Editors /\ op[r] = NoOp /\ now < MaxEdits /\ (Halfway(Replicas) => SlowRequests)
  /\ board' = [board EXCEPT ![r] = b]
  /\ op' = [op EXCEPT ![r] = rest]
  /\ now' = now + 1
  /\ UNCHANGED <<peerVars, current, spent>>

Mint(x) == x \notin minted /\ minted' = minted \cup {x}

AddIdea(r, i) == Mint(i) /\ Edit(r, "addIdea", WithIdea(board[r], i, now + 1), Notify)

UpdateIdea(r, i) ==
  HasIdea(board[r], i) /\ UNCHANGED minted /\ Edit(r, "updateIdea", WithIdea(board[r], i, now + 1), Notify)

DeleteIdea(r, i) ==
  HasIdea(board[r], i) /\ UNCHANGED minted /\ Edit(r, "deleteIdea", WithoutIdea(board[r], i, now + 1), Notify)

\* What follows a promotion, or a deletion, in the other store.
InNotes(do, t) == IF Origin[t] = None THEN Notify ELSE [do |-> do, task |-> t, at |-> now + 1]

\* The box is one the caller's page shows, which may be gone by now: nothing checks it.
BoxesSeen == (minted \cap Machines) \cup {None}

AddNode(r, t, m) ==
  /\ m \in BoxesSeen /\ Origin[t] \in minted \cup {None} /\ Mint(t)
  /\ Edit(r, "addTask", WithTask(board[r], t, m, now + 1), InNotes("consume", t))

UpdateNode(r, t, m) ==
  /\ HasTask(board[r], t) /\ m \in BoxesSeen /\ UNCHANGED minted
  /\ Edit(r, "updateTask", WithTask(board[r], t, m, now + 1), Notify)

DeleteNode(r, t) ==
  /\ HasTask(board[r], t) /\ UNCHANGED minted
  /\ Edit(r, "deleteTask", WithoutTask(board[r], t, now + 1), InNotes("unconsume", t))

AddMachine(r, m) == Mint(m) /\ Edit(r, "addBox", WithBox(board[r], m, now + 1), Notify)

UpdateMachine(r, m) ==
  HasBox(board[r], m) /\ UNCHANGED minted /\ Edit(r, "updateBox", WithBox(board[r], m, now + 1), Notify)

DeleteMachine(r, m) ==
  HasBox(board[r], m) /\ UNCHANGED minted /\ Edit(r, "deleteBox", WithoutBox(board[r], m, now + 1), Notify)

AddEdge(r, e) == EdgeAllowed(board[r], e) /\ Mint(e) /\ Edit(r, "addEdge", WithEdge(board[r], e), Notify)

DeleteEdge(r, e) ==
  e \in board[r].edges /\ UNCHANGED minted /\ Edit(r, "deleteEdge", WithoutEdge(board[r], e, now + 1), Notify)

\* The second store of a promotion or of a task's deletion.
WriteNotes(r) ==
  /\ op[r].do \in {"consume", "unconsume"}
  /\ LET t == op[r].task
         b == board[r]
     IN  board' = [board EXCEPT ![r] = IF op[r].do = "consume" THEN Consume(b, Origin[t], t, op[r].at)
                                       ELSE Unconsume(b, Origin[t], t, op[r].at)]
  /\ op' = [op EXCEPT ![r] = Notify]
  /\ UNCHANGED <<peerVars, current, now, minted, spent>>

NobodyCurrent == [p \in Peers |-> FALSE]

\* OnLocalChange: the hub moves its revision, a peer is dirty and a push is due.
OnLocalChange(r) ==
  /\ op[r] = Notify
  /\ op' = [op EXCEPT ![r] = NoOp]
  /\ \/ r = Hub /\ current' = NobodyCurrent /\ UNCHANGED peerVars
     \/ /\ r \in Peers
        /\ dirty' = [dirty EXCEPT ![r] = TRUE] /\ due' = [due EXCEPT ![r] = TRUE]
        /\ UNCHANGED <<phase, held, current, enabled, contact, tries>>
  /\ UNCHANGED <<board, now, minted, spent>>

-----------------------------------------------------------------------------
(* The peer's tick.                                                        *)

\* The configuration names a hub: Nudge, with becameEnabled.
Nudge(p) ==
  /\ ~enabled[p]
  /\ enabled' = [enabled EXCEPT ![p] = TRUE]
  /\ dirty' = [dirty EXCEPT ![p] = TRUE] /\ due' = [due EXCEPT ![p] = TRUE]
  /\ UNCHANGED <<board, op, phase, held, contact, tries, current, now, minted, spent>>

\* TickAsync decides for a push and forgets the due time.
StartPush(p) ==
  /\ enabled[p] /\ phase[p] = "idle" /\ (due[p] \/ dirty[p])
  /\ due' = [due EXCEPT ![p] = FALSE]
  /\ phase' = [phase EXCEPT ![p] = "starting"]
  /\ UNCHANGED <<board, op, held, dirty, enabled, contact, tries, current, now, minted, spent>>

\* PushAsync clears the flag before it reads the board.
PushBegins(p) ==
  /\ phase[p] = "starting"
  /\ dirty' = [dirty EXCEPT ![p] = FALSE]
  /\ phase' = [phase EXCEPT ![p] = "pulling"]
  /\ UNCHANGED <<board, op, held, due, enabled, contact, tries, current, now, minted, spent>>

\* A due push that has not elapsed leaves room for a poll, a dirty board without one does not.
StartPoll(p) ==
  /\ enabled[p] /\ phase[p] = "idle" /\ (due[p] \/ ~dirty[p])
  /\ phase' = [phase EXCEPT ![p] = "polling"]
  /\ UNCHANGED <<board, op, held, dirty, due, enabled, contact, tries, current, now, minted, spent>>

\* The hub answers a GET; the answer is on its way.  Only a push keeps the revision.
HubGet(p) ==
  /\ phase[p] \in {"polling", "pulling"}
  /\ phase' = [phase EXCEPT ![p] = IF @ = "polling" THEN "polled" ELSE "pulled"]
  /\ held' = [held EXCEPT ![p] = board[Hub]]
  /\ current' = [current EXCEPT ![p] = phase[p] = "pulling"]
  /\ UNCHANGED <<board, op, dirty, due, enabled, contact, tries, now, minted, spent>>

\* The rest of PollAsync.
PollMerges(p) ==
  LET stale == RemoteStale(board[p], held[p]) IN
  /\ phase[p] = "polled"
  /\ board' = [board EXCEPT ![p] = Merge(@, held[p])]
  /\ contact' = [contact EXCEPT ![p] = TRUE]
  /\ dirty' = [dirty EXCEPT ![p] = @ \/ stale] /\ due' = [due EXCEPT ![p] = @ \/ stale]
  /\ phase' = [phase EXCEPT ![p] = "idle"] /\ held' = [held EXCEPT ![p] = Nothing]
  /\ UNCHANGED <<op, enabled, tries, current, now, minted, spent>>

\* PushAsync merges what it pulled and posts the snapshot.
PullMerges(p) ==
  LET merged == Merge(board[p], held[p]) IN
  /\ phase[p] = "pulled"
  /\ board' = [board EXCEPT ![p] = merged] /\ held' = [held EXCEPT ![p] = merged]
  /\ phase' = [phase EXCEPT ![p] = "posting"]
  /\ UNCHANGED <<op, dirty, due, enabled, contact, tries, current, now, minted, spent>>

\* The request is over: nothing of it is kept.
Rests(p, outcome) ==
  /\ phase' = [phase EXCEPT ![p] = outcome]
  /\ held' = [held EXCEPT ![p] = Nothing]

\* IdeasHubService.Post.
HubAccepts(p) ==
  /\ phase[p] = "posting" /\ current[p]
  /\ board' = [board EXCEPT ![Hub] = Merge(@, held[p])]
  /\ current' = NobodyCurrent
  /\ Rests(p, "accepted")
  /\ UNCHANGED <<op, dirty, due, enabled, contact, tries, now, minted, spent>>

HubRefuses(p) ==
  /\ phase[p] = "posting" /\ ~current[p]
  /\ Rests(p, "refused")
  /\ UNCHANGED <<board, op, dirty, due, enabled, contact, tries, current, now, minted, spent>>

\* Variant: a push that failed is not tried again.
FailDirty_Clean(p) ==
  /\ Rests(p, "idle") /\ tries' = [tries EXCEPT ![p] = 0] /\ current' = [current EXCEPT ![p] = FALSE]
  /\ UNCHANGED <<dirty, due>>

FailDirty(p) ==
  /\ Rests(p, "idle") /\ tries' = [tries EXCEPT ![p] = 0] /\ current' = [current EXCEPT ![p] = FALSE]
  /\ dirty' = [dirty EXCEPT ![p] = TRUE] /\ due' = [due EXCEPT ![p] = TRUE]

PushSucceeds(p) ==
  /\ phase[p] = "accepted"
  /\ Rests(p, "idle") /\ tries' = [tries EXCEPT ![p] = 0]
  /\ contact' = [contact EXCEPT ![p] = TRUE]
  /\ UNCHANGED <<board, op, dirty, due, enabled, current, now, minted, spent>>

\* A conflict pulls again, until the attempts are used up.
PushConflicts(p) ==
  /\ phase[p] = "refused"
  /\ \/ /\ tries[p] + 1 < MaxCasRetries /\ tries' = [tries EXCEPT ![p] = @ + 1]
        /\ Rests(p, "pulling") /\ UNCHANGED <<dirty, due, current>>
     \/ tries[p] + 1 = MaxCasRetries /\ FailDirty(p)
  /\ UNCHANGED <<board, op, enabled, contact, now, minted, spent>>

\* A request is lost before the hub saw it, or its answer is lost after.
Lose(p) ==
  /\ phase[p] \notin {"idle", "starting"} /\ spent.losses < MaxLosses
  /\ spent' = [spent EXCEPT !.losses = @ + 1]
  /\ \/ phase[p] \in {"polling", "polled"} /\ Rests(p, "idle") /\ UNCHANGED <<dirty, due, tries, current>>
     \/ phase[p] \notin {"polling", "polled"} /\ FailDirty(p)
  /\ UNCHANGED <<board, op, enabled, contact, now, minted>>

-----------------------------------------------------------------------------
(* Restarts: the boards, the hub's revision and the configuration are on   *)
(* disk, the rest is not; then the consumed-idea migration runs.           *)

Migrates(r) ==
  \/ Unreconciled(board[r]) = {} /\ op' = [op EXCEPT ![r] = NoOp] /\ UNCHANGED <<board, now>>
  \/ /\ Unreconciled(board[r]) # {} /\ (Halfway(Replicas \ {r}) => SlowRequests)
     /\ now' = now + 1
     /\ \E link \in Links(board[r]) :
          board' = [board EXCEPT ![r] = ReconcileConsumed(@, link, now + 1)]
     /\ op' = [op EXCEPT ![r] = Notify]

Restart(r) ==
  /\ spent.restarts < MaxRestarts /\ spent' = [spent EXCEPT !.restarts = @ + 1]
  /\ Migrates(r)
  /\ \/ r = Hub /\ UNCHANGED <<peerVars, current>>
     \/ /\ r \in Peers /\ Rests(r, "idle")
        /\ dirty' = [dirty EXCEPT ![r] = FALSE] /\ due' = [due EXCEPT ![r] = FALSE]
        /\ contact' = [contact EXCEPT ![r] = FALSE] /\ tries' = [tries EXCEPT ![r] = 0]
        /\ current' = [current EXCEPT ![r] = FALSE]
        /\ UNCHANGED enabled
  /\ UNCHANGED minted

EditIdeas(r) == \E i \in Ideas : AddIdea(r, i) \/ UpdateIdea(r, i) \/ DeleteIdea(r, i)
EditTasks(r) ==
  \E t \in Tasks : DeleteNode(r, t) \/ \E m \in Machines \cup {None} : AddNode(r, t, m) \/ UpdateNode(r, t, m)
EditBoxes(r) == \E m \in Machines : AddMachine(r, m) \/ UpdateMachine(r, m) \/ DeleteMachine(r, m)
EditEdges(r) == \E e \in Edges : AddEdge(r, e) \/ DeleteEdge(r, e)
Finish(r)    == WriteNotes(r) \/ OnLocalChange(r)

\* The peer's loop and the hub's answers to it.
Tick(p) ==
  StartPush(p) \/ PushBegins(p) \/ StartPoll(p) \/ HubGet(p) \/ PollMerges(p) \/ PullMerges(p)
    \/ HubAccepts(p) \/ HubRefuses(p) \/ PushSucceeds(p) \/ PushConflicts(p)

Next ==
  \/ \E r \in Replicas : EditIdeas(r) \/ EditTasks(r) \/ EditBoxes(r) \/ EditEdges(r) \/ Finish(r) \/ Restart(r)
  \/ \E p \in Peers : Nudge(p) \/ Tick(p) \/ Lose(p)

Spec == Init /\ [][Next]_vars

\* Request threads finish; the loop ticks every second and each request is answered or
\* fails; a due time elapses, so among the ticks that find a push pending some start it.
Fairness ==
  /\ WF_vars(\E r \in Replicas : Finish(r))
  /\ \A p \in Peers : WF_vars(Tick(p)) /\ SF_vars(StartPush(p))

LiveSpec == Spec /\ Fairness

-----------------------------------------------------------------------------
(* Properties.                                                             *)

TypeOK ==
  /\ board \in [Replicas -> Boards] /\ held \in [Peers -> Boards]
  /\ op \in [Replicas -> [do : {"nothing", "notify", "consume", "unconsume"}, task : Tasks \cup {None}, at : Nat]]
  /\ phase \in [Peers -> Phases] /\ tries \in [Peers -> 0 .. MaxCasRetries - 1]
  /\ {current, dirty, due, enabled, contact} \subseteq [Peers -> BOOLEAN]
  /\ now \in Nat /\ minted \subseteq Ids
  /\ spent \in [losses : 0 .. MaxLosses, restarts : 0 .. MaxRestarts]

\* The dependencies of every board go between tasks that are there, once per pair and in
\* no circle, whatever two Harnesses added at the same time (MergeFrom's rebuild), and
\* none of them was deleted before on this Harness or on one it has heard from.
DependenciesAreSound == \A r \in Replicas : Sound(board[r])

\* A peer that has exchanged boards since it started and believes itself clean, with no
\* push and no edit under way, has nothing the hub has not: no edit is forgotten between
\* the flag, the due time, the snapshot and a failed request.
Clean(p) ==
  contact[p] /\ ~dirty[p] /\ ~due[p] /\ op[p] = NoOp /\ phase[p] \in {"idle", "polling", "polled"}

CleanMeansShared ==
  \A p \in Peers : Clean(p) => \A x \in Items : Version(board[Hub], x) >= Version(board[p], x)

\* A deletion stays unless an edit with a later stamp revives the element: no merge, lost
\* answer or restart brings an older copy back.
NothingComesBack ==
  [][\A r \in Replicas, x \in Items : Version(board'[r], x) >= Version(board[r], x)]_vars

\* An accepted push leaves the hub with the very board that was sent ("deterministic and
\* commutative"), when no edit of the hub is half done.
PushIsShared ==
  [][\A p \in Peers : HubAccepts(p) /\ op[Hub].do # "notify" => board'[Hub] = held[p]]_vars

\* Two boards hold the same elements in the same versions, and the same dependencies.
Agree(b, c) == b.edges = c.edges /\ \A x \in Items : Version(b, x) = Version(c, x)

\* When users stop editing, every Harness that syncs comes to the hub's elements and
\* dependencies, and stays there, whatever was lost or restarted before.
BoardsConverge == <>[](\A p \in Peers : enabled[p] => Agree(board[p], board[Hub]))

Settled ==
  /\ \A r \in Replicas : op[r] = NoOp
  /\ \A p \in Peers : enabled[p] /\ Clean(p) /\ board[p] = board[Hub]

\* Deleting a task restores the idea it was promoted from: once all boards agree, no idea
\* is hidden by a task that is gone.
NoIdeaIsLost ==
  Settled => \A i \in Ideas :
    HasIdea(board[Hub], i) /\ board[Hub].ideas[i].task # None => HasTask(board[Hub], board[Hub].ideas[i].task)
=============================================================================
