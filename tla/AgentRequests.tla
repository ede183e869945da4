--------------------------- MODULE AgentRequests ---------------------------
(***************************************************************************)
(* Requests of repo agents to their arch: the store each harness keeps     *)
(* (AgentRequestStore), the operator's decisions and their delivery, and   *)
(* the synchronisation in which a hub pulls its peers' rows and pushes its *)
(* decisions back (ArchAgentService.Requests).                             *)
(*                                                                         *)
(* Every access to a store is one locked step, and nothing spans two: a    *)
(* call of an operator, the engine's delivery and the holder of the        *)
(* synchronisation gate each read a row in one step and act on it in a     *)
(* later one.  Rows and goals are on disk and survive a kill; calls, turns *)
(* and the gate's holder do not.                                           *)
(***************************************************************************)
EXTENDS Integers, FiniteSets

CONSTANTS
  Harnesses,
  Pulls,                 \* <<h, p>>: hub h manages agents of peer p
  Requests, Home, Agent, \* the requests, where each is recorded and by whom
  Text,                  \* what each asks, as far as it can be the same
  Calls, At,             \* calls of operators that may overlap, and their harness
  Does,                  \* what each call may be
  Chatting,              \* harnesses whose arch has other turns too
  Faults,                \* <<h, what>>: what may befall which harness
  NoRequest,
  MaxPendingPerAgent, MaxDecidedKept,
  LongTurns,             \* a turn outlasts the few statements of a delivery
  MaxDecisions, MaxFaults, MaxOptIns  \* bounds

ASSUME RequestsAssumption ==
  /\ Pulls \subseteq {hp \in Harnesses \X Harnesses : hp[1] # hp[2]}
  /\ Home \in [Requests -> Harnesses] /\ At \in [Calls -> Harnesses]
  /\ Does \in [Calls -> SUBSET {"approve", "dismiss", "drive"}]
  /\ {MaxPendingPerAgent, MaxDecidedKept} \subseteq Nat \ {0}
  /\ {MaxDecisions, MaxFaults, MaxOptIns} \subseteq Nat
  /\ LongTurns \in BOOLEAN
  /\ Faults \subseteq Harnesses \X {"kill", "gate", "optin"}
  /\ Chatting \subseteq Harnesses /\ NoRequest \notin Requests

VARIABLES
  row,      \* row[h][r]: what harness h keeps of request r
  clock,    \* the stamps of decisions given so far
  call,     \* call[c]: what a call of an operator is doing
  deliver,  \* deliver[h]: what the engine's delivery is doing
  sync,     \* sync[h]: what the holder of _requestSyncGate is doing
  busy,     \* busy[h]: the arch conversations that have a turn under way
  posted,   \* posted[h][r]: messages for r posted to an arch conversation
  goals,    \* goals[h]: requests a goal was started for
  running,  \* running[h]: those with a goal that still runs
  gate,     \* gate[h]: AutopilotGate.Enabled
  accept,   \* accept[h]: AcceptFleetSends
  spent     \* kills, closings of the gate and changes of the opt-in so far, and what peers refused

vars == <<row, clock, call, deliver, sync, busy, posted, goals, running, gate, accept, spent>>

-----------------------------------------------------------------------------
(* Rows.                                                                   *)

Statuses == {"none", "pending", "approved", "dismissed"}
Rows == [status : Statuses, delivered : BOOLEAN, synced : BOOLEAN, conv : {"arch", "goal"}, at : Nat]

NoRow   == [status |-> "none", delivered |-> FALSE, synced |-> FALSE, conv |-> "arch", at |-> 0]
Pending == [NoRow EXCEPT !.status = "pending"]

Decided(w) == w.status \in {"approved", "dismissed"}
Pulled(h, r) == Home[r] # h

\* The newest decided rows are kept; pending ones always are.
Trim(rows) ==
  LET decided  == {r \in Requests : Decided(rows[r])}
      newer(r) == {s \in decided : rows[s].at > rows[r].at}
  IN  [r \in Requests |->
         IF r \in decided /\ Cardinality(newer(r)) >= MaxDecidedKept THEN NoRow ELSE rows[r]]

\* Variant: the later decision replaces the earlier one.
MayDecide_Again(w, status) == w.status # "none"

\* Decided the same way is a success that changes nothing, the other way is refused.
MayDecide(w, status) == w.status \in {"pending", status}

Decide(h, r, status, conv, stamp) ==
  LET w == row[h][r]
      d == [w EXCEPT !.status = status, !.at = stamp, !.synced = ~Pulled(h, r),
                     !.conv = IF conv = "goal" THEN "goal" ELSE @]
  IN  IF w.status = status THEN row[h] ELSE Trim([row[h] EXCEPT ![r] = d])

\* A decision made here takes the next stamp.
Stamped(h, r, status) == IF row[h][r].status = status THEN clock ELSE clock + 1
MayStamp(h, r, status) == Stamped(h, r, status) <= MaxDecisions

\* Variant: a message that was posted is not noted.
Delivered_Unmarked(w, goal) == w

Delivered(w, goal) ==
  IF w.status = "none" THEN w
  ELSE [w EXCEPT !.delivered = TRUE, !.conv = IF goal THEN "goal" ELSE @]

\* Variant: what the peer says replaces what was decided here.
Merged_PeerWins(mine, peers) ==
  CASE peers.status = "none" -> mine
    [] Decided(peers) /\ mine.status # "none" -> [mine EXCEPT !.status = peers.status, !.at = peers.at, !.synced = TRUE]
    [] mine.status = "none" -> [peers EXCEPT !.synced = Decided(peers)]
    [] OTHER -> mine

\* MergePulled for one row: mine is this store's, peers the pulled one.
Merged(mine, peers) ==
  CASE peers.status = "none" -> mine
    [] mine.status = "none" -> [peers EXCEPT !.synced = Decided(peers)]
    [] mine.status = "pending" /\ Decided(peers) ->
         [mine EXCEPT !.status = peers.status, !.at = peers.at, !.synced = TRUE]
    [] OTHER -> mine

Undelivered(w) == w.status = "approved" /\ ~w.delivered
ApprovedUndelivered(h) == {r \in Requests : Undelivered(row[h][r])}
Oldest(h, rs) == {r \in rs : \A s \in rs : row[h][r].at <= row[h][s].at}

\* What one harness tells another of a row.
AsSent(w) == [NoRow EXCEPT !.status = w.status, !.at = w.at]

\* Variant: a pulled row still pending is pushed too.
DecisionsToPush_Pending(h) == {r \in Requests : Pulled(h, r) /\ row[h][r].status # "none" /\ ~row[h][r].synced}

DecisionsToPush(h) ==
  {r \in Requests : Pulled(h, r) /\ Decided(row[h][r]) /\ ~row[h][r].synced}

-----------------------------------------------------------------------------

Steps == {"idle", "posting", "marking", "pushing", "checking", "starting", "deciding"}
\* conv: where the row is posted, "goal" also for a call that drives one; pending: as that read the row.
IdleCall == [at |-> "idle", r |-> NoRequest, conv |-> "arch", pending |-> FALSE]
ToPush   == [IdleCall EXCEPT !.at = "pushing"]
\* todo: peers still to pull from; snap: the rows of one of them, pulled and not yet merged;
\* push: decisions still to push.
IdleSync == [at |-> "idle", todo |-> {}, snap |-> [r \in {} |-> NoRow],
             push |-> [r \in {} |-> NoRow]]

ToBePushed(decisions) ==
  IF DOMAIN decisions = {} THEN IdleSync ELSE [IdleSync EXCEPT !.at = "pushing", !.push = decisions]

Init ==
  /\ row = [h \in Harnesses |-> [r \in Requests |-> NoRow]] /\ clock = 0
  /\ call = [c \in Calls |-> IdleCall] /\ deliver = [h \in Harnesses |-> IdleCall]
  /\ sync = [h \in Harnesses |-> IdleSync] /\ busy = [h \in Harnesses |-> {}]
  /\ posted = [h \in Harnesses |-> [r \in Requests |-> 0]]
  /\ goals = [h \in Harnesses |-> {}] /\ running = goals
  /\ gate = [h \in Harnesses |-> TRUE] /\ accept = [h \in Harnesses |-> FALSE]
  /\ spent = [kills |-> 0, gates |-> 0, optins |-> 0, refused |-> {}]

\* request_arch: the row and nothing else.  A text already pending is answered with its row.
Record(r) ==
  LET h    == Home[r]
      mine == {s \in Requests : Home[s] = h /\ Agent[s] = Agent[r] /\ row[h][s].status = "pending"}
  IN  /\ \A k \in Harnesses : row[k][r].status = "none"
      /\ \A s \in mine : Text[s] # Text[r]
      /\ Cardinality(mine) < MaxPendingPerAgent
      /\ row' = [row EXCEPT ![h][r] = Pending]
      /\ UNCHANGED <<clock, call, deliver, sync, busy, posted, goals, running, gate, accept, spent>>

-----------------------------------------------------------------------------
(* The operator's calls.                                                   *)

Approve(c, r) ==
  LET h == At[c]
      w == Decide(h, r, "approved", "arch", clock + 1)[r]
  IN  /\ "approve" \in Does[c] /\ call[c].at = "idle" /\ gate[h]
      /\ row[h][r].status # "none" /\ MayDecide(row[h][r], "approved") /\ MayStamp(h, r, "approved")
      /\ row' = [row EXCEPT ![h] = Decide(h, r, "approved", "arch", clock + 1)]
      /\ clock' = Stamped(h, r, "approved")
      /\ call' = [call EXCEPT ![c] = IF w.delivered THEN ToPush
                                      ELSE [IdleCall EXCEPT !.at = "posting", !.r = r, !.conv = w.conv]]
      /\ UNCHANGED <<deliver, sync, busy, posted, goals, running, gate, accept, spent>>

Dismiss(c, r) ==
  LET h == At[c] IN
  /\ "dismiss" \in Does[c] /\ call[c].at = "idle"
  /\ row[h][r].status # "none" /\ MayDecide(row[h][r], "dismissed") /\ MayStamp(h, r, "dismissed")
  /\ row' = [row EXCEPT ![h] = Decide(h, r, "dismissed", "arch", clock + 1)]
  /\ clock' = Stamped(h, r, "dismissed")
  /\ call' = [call EXCEPT ![c] = ToPush]
  /\ UNCHANGED <<deliver, sync, busy, posted, goals, running, gate, accept, spent>>

Arch == "arch"                                         \* the operator-facing conversation
Conversation(d) == IF d.conv = "goal" THEN d.r ELSE Arch   \* a request stands for its goal's

\* TryDeliver: SendToArch posts when the conversation has no turn.
Posts(h, d) ==
  /\ Conversation(d) \notin busy[h]
  /\ posted' = [posted EXCEPT ![h][d.r] = @ + 1]
  /\ busy' = [busy EXCEPT ![h] = @ \cup {Conversation(d)}]
Waits(h, d) == Conversation(d) \in busy[h] /\ UNCHANGED <<posted, busy>>

CallPosts(c) ==
  /\ call[c].at = "posting"
  /\ \/ Posts(At[c], call[c]) /\ call' = [call EXCEPT ![c].at = "marking"]
     \/ Waits(At[c], call[c]) /\ call' = [call EXCEPT ![c] = ToPush]
  /\ UNCHANGED <<row, clock, deliver, sync, goals, running, gate, accept, spent>>

CallMarks(c) ==
  LET h == At[c] IN
  /\ call[c].at = "marking"
  /\ row' = [row EXCEPT ![h][call[c].r] = Delivered(@, call[c].conv = "goal")]
  /\ call' = [call EXCEPT ![c] = ToPush]
  /\ UNCHANGED <<clock, deliver, sync, busy, posted, goals, running, gate, accept, spent>>

\* PushDecisions: waits for the gate, then pushes.
CallPushes(c) ==
  LET h == At[c] IN
  /\ call[c].at = "pushing" /\ sync[h].at = "idle"
  /\ sync' = [sync EXCEPT ![h] = ToBePushed([r \in DecisionsToPush(h) |-> AsSent(row[h][r])])]
  /\ call' = [call EXCEPT ![c] = IdleCall]
  /\ UNCHANGED <<row, clock, deliver, busy, posted, goals, running, gate, accept, spent>>

\* ApproveAgentRequestAsGoal: reads the row, ...
Drive(c, r) ==
  LET h == At[c] IN
  /\ "drive" \in Does[c] /\ call[c].at = "idle" /\ gate[h]
  /\ row[h][r].status = "pending" \/ Undelivered(row[h][r])
  /\ call' = [call EXCEPT ![c] = [at |-> "checking", r |-> r, conv |-> "goal",
                                  pending |-> row[h][r].status = "pending"]]
  /\ UNCHANGED <<row, clock, deliver, sync, busy, posted, goals, running, gate, accept, spent>>

Owned(h, a) == \E r \in running[h] : Agent[r] = a

\* ... looks for the owner of the agent, ...
DriveChecks(c) ==
  LET h == At[c] IN
  /\ call[c].at = "checking"
  /\ call' = [call EXCEPT ![c] = IF gate[h] /\ ~Owned(h, Agent[@.r]) THEN [@ EXCEPT !.at = "starting"] ELSE IdleCall]
  /\ UNCHANGED <<row, clock, deliver, sync, busy, posted, goals, running, gate, accept, spent>>

\* ... starts the goal, ...
DriveStarts(c) ==
  LET h == At[c] IN
  /\ call[c].at = "starting"
  /\ goals' = [goals EXCEPT ![h] = @ \cup {call[c].r}]
  /\ running' = [running EXCEPT ![h] = @ \cup {call[c].r}]
  /\ call' = [call EXCEPT ![c].at = IF call[c].pending THEN "deciding" ELSE "marking"]
  /\ UNCHANGED <<row, clock, deliver, sync, busy, posted, gate, accept, spent>>

\* ... and decides, if it read a pending row.
DriveDecides(c) ==
  LET h == At[c]
      r == call[c].r
      w == row[h][r]
  IN  /\ call[c].at = "deciding"
      /\ IF w.status # "none" /\ MayDecide(w, "approved")
           THEN /\ MayStamp(h, r, "approved")
                /\ row' = [row EXCEPT ![h] = Decide(h, r, "approved", "goal", clock + 1)]
                /\ clock' = Stamped(h, r, "approved")
                /\ call' = [call EXCEPT ![c].at = "marking"]
           ELSE call' = [call EXCEPT ![c] = IdleCall] /\ UNCHANGED <<row, clock>>
      /\ UNCHANGED <<deliver, sync, busy, posted, goals, running, gate, accept, spent>>

-----------------------------------------------------------------------------
(* The engine's delivery: one row a tick, the oldest decision first.       *)

DeliverPicks(h) ==
  /\ deliver[h].at = "idle" /\ gate[h]
  /\ \E r \in Oldest(h, ApprovedUndelivered(h)) :
       deliver' = [deliver EXCEPT ![h] = [IdleCall EXCEPT !.at = "posting", !.r = r, !.conv = row[h][r].conv]]
  /\ UNCHANGED <<row, clock, call, sync, busy, posted, goals, running, gate, accept, spent>>

DeliverPosts(h) ==
  /\ deliver[h].at = "posting" /\ Arch \notin busy[h]
  /\ Posts(h, deliver[h])
  /\ deliver' = [deliver EXCEPT ![h].at = "marking"]
  /\ UNCHANGED <<row, clock, call, sync, goals, running, gate, accept, spent>>

DeliverWaits(h) ==
  /\ deliver[h].at = "posting"
  /\ Arch \in busy[h] \/ Conversation(deliver[h]) \in busy[h]
  /\ deliver' = [deliver EXCEPT ![h] = IdleCall]
  /\ UNCHANGED <<row, clock, call, sync, busy, posted, goals, running, gate, accept, spent>>

DeliverMarks(h) ==
  /\ deliver[h].at = "marking"
  /\ row' = [row EXCEPT ![h][deliver[h].r] = Delivered(@, FALSE)]
  /\ deliver' = [deliver EXCEPT ![h] = IdleCall]
  /\ UNCHANGED <<clock, call, sync, busy, posted, goals, running, gate, accept, spent>>

-----------------------------------------------------------------------------
(* The synchronisation.                                                    *)

PeersOf(h) == {p \in Harnesses : <<h, p>> \in Pulls}

\* On the engine's tick and when the operator looks at the tab.
PullBegins(h) ==
  /\ sync[h].at = "idle" /\ PeersOf(h) # {}
  /\ sync' = [sync EXCEPT ![h].at = "pulling", ![h].todo = PeersOf(h)]
  /\ UNCHANGED <<row, clock, call, deliver, busy, posted, goals, running, gate, accept, spent>>

PullAnswered(h, p) ==
  /\ sync[h].at = "pulling" /\ p \in sync[h].todo
  /\ sync' = [sync EXCEPT ![h].at = "merging", ![h].todo = @ \ {p},
                          ![h].snap = [r \in {s \in Requests : ~Pulled(p, s)} |-> AsSent(row[p][r])]]
  /\ UNCHANGED <<row, clock, call, deliver, busy, posted, goals, running, gate, accept, spent>>

PullFails(h, p) ==
  /\ sync[h].at = "pulling" /\ p \in sync[h].todo
  /\ sync' = [sync EXCEPT ![h].todo = @ \ {p}]
  /\ UNCHANGED <<row, clock, call, deliver, busy, posted, goals, running, gate, accept, spent>>

MergePulled(h) ==
  LET snap == sync[h].snap
      new  == [r \in Requests |-> IF r \in DOMAIN snap THEN Merged(row[h][r], snap[r]) ELSE row[h][r]]
  IN  /\ sync[h].at = "merging"
      /\ row' = [row EXCEPT ![h] = IF new = @ THEN @ ELSE Trim(new)]
      /\ sync' = [sync EXCEPT ![h] = [IdleSync EXCEPT !.at = "pulling", !.todo = sync[h].todo]]
      /\ UNCHANGED <<clock, call, deliver, busy, posted, goals, running, gate, accept, spent>>

PullEnds(h) ==
  /\ sync[h].at = "pulling" /\ sync[h].todo = {}
  /\ sync' = [sync EXCEPT ![h] = ToBePushed([r \in DecisionsToPush(h) |-> AsSent(row[h][r])])]
  /\ UNCHANGED <<row, clock, call, deliver, busy, posted, goals, running, gate, accept, spent>>

\* PeerAgentRequestDecision: behind the opt-in, and final like a decision made there.
PeerApplies(h, r) ==
  LET p == Home[r]
      d == sync[h].push[r]
  IN  IF accept[p] /\ row[p][r].status # "none" /\ MayDecide(row[p][r], d.status)
        THEN [row EXCEPT ![p] = Decide(p, r, d.status, "arch", d.at)] ELSE row

Settled(w) == [w EXCEPT !.synced = @ \/ w.status # "none"]

Pushes(h, r) ==
  /\ sync[h].at = "pushing" /\ r \in DOMAIN sync[h].push
  /\ sync' = [sync EXCEPT ![h] = ToBePushed([s \in DOMAIN @.push \ {r} |-> @.push[s]])]
  /\ UNCHANGED <<clock, call, deliver, busy, posted, goals, running, gate, accept>>

\* Applied or refused, the answer settles it for good.  MarkDecisionSynced is not a step of its
\* own: only the holder of the gate looks at synced.
PushAnswered(h, r) ==
  /\ Pushes(h, r) /\ row' = [PeerApplies(h, r) EXCEPT ![h][r] = Settled(@)]
  /\ spent' = [spent EXCEPT !.refused = IF accept[Home[r]] THEN @ ELSE @ \cup {<<h, r>>}]

\* Variant: a peer that did not answer is taken for settled.
PushFails_Settles(h, r) ==
  Pushes(h, r) /\ UNCHANGED spent /\ \E new \in {row, PeerApplies(h, r)} : row' = [new EXCEPT ![h][r] = Settled(@)]

\* The call or its answer is lost: pushed again in the next round.
PushFails(h, r) == Pushes(h, r) /\ UNCHANGED spent /\ row' \in {row, PeerApplies(h, r)}

-----------------------------------------------------------------------------
(* The rest of the harness.                                                *)

\* A turn of the operator-facing conversation that is not the post of a request.
OtherTurn(h) ==
  /\ h \in Chatting /\ Arch \notin busy[h] /\ busy' = [busy EXCEPT ![h] = @ \cup {Arch}]
  /\ UNCHANGED <<row, clock, call, deliver, sync, posted, goals, running, gate, accept, spent>>

\* A post that is not marked yet, or one at hand of a row that has been marked since it was read.
HalfDelivered(h) ==
  \E d \in {deliver[h]} \cup {call[c] : c \in {x \in Calls : At[x] = h}} :
    d.at = "marking" \/ (d.at = "posting" /\ ~Undelivered(row[h][d.r]))

TurnEnds(h, k) ==
  /\ k \in busy[h] /\ (LongTurns => ~HalfDelivered(h))
  /\ busy' = [busy EXCEPT ![h] = @ \ {k}]
  /\ UNCHANGED <<row, clock, call, deliver, sync, posted, goals, running, gate, accept, spent>>

GoalEnds(h, r) ==
  /\ r \in running[h] /\ running' = [running EXCEPT ![h] = @ \ {r}]
  /\ UNCHANGED <<row, clock, call, deliver, sync, busy, posted, goals, gate, accept, spent>>

Fault(h, what) == <<h, what>> \in Faults /\ spent.kills + spent.gates < MaxFaults

GateCloses(h) ==
  /\ gate[h] /\ Fault(h, "gate")
  /\ gate' = [gate EXCEPT ![h] = FALSE] /\ spent' = [spent EXCEPT !.gates = @ + 1]
  /\ UNCHANGED <<row, clock, call, deliver, sync, busy, posted, goals, running, accept>>

GateOpens(h) ==
  /\ ~gate[h] /\ gate' = [gate EXCEPT ![h] = TRUE]
  /\ UNCHANGED <<row, clock, call, deliver, sync, busy, posted, goals, running, accept, spent>>

OptInFlips(h) ==
  /\ <<h, "optin">> \in Faults /\ spent.optins < MaxOptIns
  /\ accept' = [accept EXCEPT ![h] = ~@] /\ spent' = [spent EXCEPT !.optins = @ + 1]
  /\ UNCHANGED <<row, clock, call, deliver, sync, busy, posted, goals, running, gate>>

Kill(h) ==
  /\ Fault(h, "kill") /\ spent' = [spent EXCEPT !.kills = @ + 1]
  /\ call' = [c \in Calls |-> IF At[c] = h THEN IdleCall ELSE call[c]]
  /\ deliver' = [deliver EXCEPT ![h] = IdleCall] /\ sync' = [sync EXCEPT ![h] = IdleSync]
  /\ busy' = [busy EXCEPT ![h] = {}]
  /\ UNCHANGED <<row, clock, posted, goals, running, gate, accept>>

CallSteps(c) ==
  CallPosts(c) \/ CallMarks(c) \/ CallPushes(c) \/ DriveChecks(c) \/ DriveStarts(c) \/ DriveDecides(c)
DeliverSteps(h) == DeliverPicks(h) \/ DeliverPosts(h) \/ DeliverWaits(h) \/ DeliverMarks(h)
Answered(h) == \E p \in Harnesses : PullAnswered(h, p)
Failed(h)   == \E p \in Harnesses : PullFails(h, p)
SyncSteps(h) ==
  \/ PullBegins(h) \/ MergePulled(h) \/ PullEnds(h)
  \/ Answered(h) \/ Failed(h) \/ \E r \in Requests : PushAnswered(h, r) \/ PushFails(h, r)

Next ==
  \/ \E r \in Requests : Record(r)
  \/ \E c \in Calls, r \in Requests : Approve(c, r) \/ Dismiss(c, r) \/ Drive(c, r)
  \/ \E c \in Calls : CallSteps(c)
  \/ \E h \in Harnesses :
       \/ DeliverSteps(h) \/ SyncSteps(h)
       \/ OtherTurn(h) \/ \E k \in busy[h] : TurnEnds(h, k)
       \/ GateCloses(h) \/ GateOpens(h) \/ OptInFlips(h) \/ Kill(h)
       \/ \E r \in Requests : GoalEnds(h, r)

Spec == Init /\ [][Next]_vars

Hubs == {hp[1] : hp \in Pulls}

\* Threads go on, the tick comes again, the gate reopens and turns end; neither a peer that is
\* told a decision nor the slot is found away at every try.  No pull need succeed.
Fairness ==
  /\ \A c \in Calls : WF_vars(CallSteps(c))
  /\ \A h \in Hubs :
       /\ WF_vars(SyncSteps(h)) /\ \A r \in Requests : SF_vars(PushAnswered(h, r))
       /\ WF_vars(DeliverSteps(h)) /\ WF_vars(GateOpens(h))
       /\ SF_vars(busy[h] = {} /\ DeliverPicks(h)) /\ SF_vars(DeliverPosts(h))
       /\ \A k \in Requests \cup {Arch} : SF_vars(TurnEnds(h, k))

LiveSpec == Spec /\ Fairness

-----------------------------------------------------------------------------
(* Properties.                                                             *)

Threads == [at : Steps, r : Requests \cup {NoRequest}, conv : {"arch", "goal"}, pending : BOOLEAN]

\* The shape of the state: rows as the two stores keep them, and how far each thread may be.
TypeOK ==
  /\ row \in [Harnesses -> [Requests -> Rows]] /\ clock \in 0..MaxDecisions
  /\ call \in [Calls -> Threads] /\ deliver \in [Harnesses -> Threads]
  /\ busy \in [Harnesses -> SUBSET (Requests \cup {Arch})] /\ posted \in [Harnesses -> [Requests -> Nat]]
  /\ goals \in [Harnesses -> SUBSET Requests] /\ running \in [Harnesses -> SUBSET Requests]
  /\ gate \in [Harnesses -> BOOLEAN] /\ accept \in [Harnesses -> BOOLEAN]
  /\ \A h \in Harnesses :
       /\ sync[h].at \in {"idle", "pulling", "merging", "pushing"}
       /\ sync[h].todo \subseteq Harnesses
       /\ \A r \in DOMAIN sync[h].snap : sync[h].snap[r] \in Rows
       /\ \A r \in DOMAIN sync[h].push : Decided(sync[h].push[r])

\* Approvals that overlap and the engine's tick between them read the row unposted, each, and
\* a harness posts it once all the same, but for a kill between the post and its mark.
PostedOnce == \A h \in Harnesses, r \in Requests : posted[h][r] <= 1 + spent.kills

\* What a harness holds dismissed its arch was never sent, whoever decided, in whatever order
\* the calls, the merge of a pulled row and the decision pushed by a hub came.
DismissedIsNotPosted ==
  \A h \in Harnesses, r \in Requests : row[h][r].status = "dismissed" => posted[h][r] = 0

\* No decision is turned by a later one, and no delivery is forgotten: not by the other
\* operator, nor by a row pulled long ago, nor by a push that comes late.
DecisionsAreFinal ==
  [][\A h \in Harnesses, r \in Requests :
       Decided(row[h][r]) => \/ row'[h][r].status = row[h][r].status /\ (row[h][r].delivered => row'[h][r].delivered)
                            \/ row'[h][r].status = "none"]_vars

\* What the hub's operator decides takes effect: an approved request is delivered though the slot
\* was taken, the gate closed or the harness killed, and the peer learns the decision, through
\* calls and answers that are lost, unless it has decided too or has answered that it takes none
\* from a hub: it is not asked twice.
DecisionsTakeEffect ==
  \A hp \in Pulls, r \in Requests :
    []<>(Pulled(hp[1], r) /\ Decided(row[hp[1]][r])
           => ~Undelivered(row[hp[1]][r]) /\ (Decided(row[Home[r]][r]) \/ <<hp[1], r>> \in spent.refused))

\* A peer that takes decisions from a hub comes to know what the hub decided.
DecisionsReachThePeer ==
  \A hp \in Pulls, r \in Requests :
    []<>(Pulled(hp[1], r) /\ Decided(row[hp[1]][r]) /\ accept[Home[r]] => Decided(row[Home[r]][r]))

\* A request reaches one arch: the hub's when the hub approved it (DeliveredAt is "hub side").
OneArch ==
  \A r \in Requests : Cardinality({h \in Harnesses : posted[h][r] > 0 \/ r \in goals[h]}) <= 1

\* No goal drives what the operator dismissed.
DismissedIsNotDriven ==
  \A h \in Harnesses, r \in Requests : row[h][r].status = "dismissed" => r \notin running[h]

\* A request approved once is not both posted and driven.
PostedOrDriven == \A h \in Harnesses, r \in Requests : posted[h][r] = 0 \/ r \notin goals[h]

\* Hub and peer tell the same of a request both know decided.
OneDecision ==
  \A hp \in Pulls, r \in Requests :
    Decided(row[hp[1]][r]) /\ Decided(row[hp[2]][r]) => row[hp[1]][r].status = row[hp[2]][r].status
=============================================================================
