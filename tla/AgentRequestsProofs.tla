-------------------------- MODULE AgentRequestsProofs --------------------------
(***************************************************************************)
(* Proofs about AgentRequests: for every number of harnesses, requests and *)
(* overlapping calls, whatever is lost or killed, a decision is never      *)
(* turned; and where no decision is trimmed, what a harness holds          *)
(* dismissed was never posted to its arch, and what it posted it posted    *)
(* once for every life of its process.                                     *)
(***************************************************************************)
EXTENDS AgentRequests, FiniteSetTheorems, TLAPS

(* Where nothing is trimmed: the store keeps as many decisions as there are requests. *)
NothingTrimmed == IsFiniteSet(Requests) /\ Cardinality(Requests) <= MaxDecidedKept

(* What every access does to the rows of a harness: a decision stays, with the note of its     *)
(* delivery and, until it is delivered, its conversation, or it is trimmed.                     *)
Stays(rows, new) ==
  \A r \in Requests : Decided(rows[r]) =>
    \/ /\ new[r].status = rows[r].status /\ (rows[r].delivered => new[r].delivered)
       /\ new[r].conv = rows[r].conv \/ new[r].delivered
    \/ new[r].status = "none" /\ ~NothingTrimmed

SomeRows == [Requests -> Rows]
Answers  == UNION {[D -> Rows] : D \in SUBSET Requests}
Gates == [at : {"idle", "pulling", "merging", "pushing"}, todo : SUBSET Harnesses,
          snap : Answers, push : Answers]

RowsOK == row \in [Harnesses -> SomeRows] /\ clock \in 0..MaxDecisions
\* A thread between its steps has a request at hand.
Held == {d \in Threads : d.at \notin {"idle", "pushing"} => d.r \in Requests}
ThreadsOK == call \in [Calls -> Held] /\ deliver \in [Harnesses -> Held]
SyncOK == sync \in [Harnesses -> Gates]
          /\ \A h \in Harnesses : \A r \in DOMAIN sync[h].push : Decided(sync[h].push[r])
ArchOK == /\ busy \in [Harnesses -> SUBSET (Requests \cup {Arch})]
          /\ posted \in [Harnesses -> [Requests -> Nat]]
          /\ goals \in [Harnesses -> SUBSET Requests] /\ running \in [Harnesses -> SUBSET Requests]
          /\ gate \in [Harnesses -> BOOLEAN] /\ accept \in [Harnesses -> BOOLEAN]

IInv == RowsOK /\ ThreadsOK /\ SyncOK /\ ArchOK

-----------------------------------------------------------------------------
(* What the operators on rows return and keep.                             *)

\* Fields of a row that are replaced by others of their type leave a row.
LEMMA RowOperators ==
  ASSUME NEW w \in Rows, NEW v \in Rows, NEW goal \in BOOLEAN
  PROVE  /\ NoRow \in Rows /\ Pending \in Rows /\ AsSent(w) \in Rows
         /\ Settled(w) \in Rows /\ Settled(w).status = w.status /\ Settled(w).delivered = w.delivered
         /\ Settled(w).conv = w.conv
         /\ Delivered(w, goal) \in Rows /\ Delivered(w, goal).status = w.status
         /\ w.status # "none" => Delivered(w, goal).delivered
         /\ Merged(w, v) \in Rows /\ (Decided(w) => Merged(w, v) = w)
         /\ AsSent(w).status = w.status
<1>1. NoRow \in Rows /\ Pending \in Rows
  BY DEF Rows, Statuses, NoRow, Pending
<1>2. \A x \in Statuses, n \in Nat :
        [NoRow EXCEPT !.status = x, !.at = n] \in Rows /\ [NoRow EXCEPT !.status = x, !.at = n].status = x
  BY DEF Rows, Statuses, NoRow
<1>3. AsSent(w) \in Rows /\ AsSent(w).status = w.status
  BY <1>2 DEF AsSent, Rows
<1>4. Settled(w) \in Rows /\ Settled(w).status = w.status /\ Settled(w).delivered = w.delivered
      /\ Settled(w).conv = w.conv
  BY DEF Settled, Rows
<1>5. /\ Delivered(w, goal) \in Rows /\ Delivered(w, goal).status = w.status
      /\ w.status # "none" => Delivered(w, goal).delivered
  BY DEF Delivered, Rows
<1>6. Decided(w) => Merged(w, v) = w
  BY DEF Merged, Decided
<1>7. Merged(w, v) \in Rows
  <2>0. Decided(v) \in BOOLEAN
    BY DEF Decided
  <2>1. [v EXCEPT !.synced = Decided(v)] \in Rows
    BY <2>0 DEF Rows
  <2>2. [w EXCEPT !.status = v.status, !.at = v.at, !.synced = TRUE] \in Rows
    BY DEF Rows
  <2> QED BY <2>1, <2>2 DEF Merged
<1> QED BY <1>1, <1>3, <1>4, <1>5, <1>6, <1>7

\* Trimming drops whole rows, and none when there is room for all.
LEMMA TrimKeeps ==
  ASSUME NEW rows \in SomeRows
  PROVE  /\ Trim(rows) \in SomeRows
         /\ \A r \in Requests : Trim(rows)[r] \in {rows[r], NoRow}
         /\ NothingTrimmed => Trim(rows) = rows
<1> DEFINE decided  == {r \in Requests : Decided(rows[r])}
           newer(r) == {s \in decided : rows[s].at > rows[r].at}
           drop(r)  == r \in decided /\ Cardinality(newer(r)) >= MaxDecidedKept
<1>1. Trim(rows) = [r \in Requests |-> IF drop(r) THEN NoRow ELSE rows[r]]
  BY DEF Trim
<1>2. NoRow \in Rows
  BY DEF NoRow, Rows, Statuses
<1>3. Trim(rows) \in SomeRows /\ \A r \in Requests : Trim(rows)[r] \in {rows[r], NoRow}
  <2> HIDE DEF drop
  <2> QED BY <1>1, <1>2 DEF SomeRows
<1>4. ASSUME NothingTrimmed, NEW r \in Requests PROVE ~drop(r)
  <2>1. newer(r) \subseteq Requests \ {r}
    BY DEF SomeRows, Rows
  <2>2. IsFiniteSet(Requests \ {r}) /\ Cardinality(Requests \ {r}) = Cardinality(Requests) - 1
    BY <1>4, FS_RemoveElement DEF NothingTrimmed
  <2>3. Cardinality(newer(r)) <= Cardinality(Requests \ {r})
    <3> HIDE DEF newer
    <3> QED BY <2>1, <2>2, FS_Subset
  <2>4. IsFiniteSet(newer(r))
    <3> HIDE DEF newer
    <3> QED BY <2>1, <2>2, FS_Subset
  <2>5. Cardinality(newer(r)) \in Nat /\ Cardinality(Requests) \in Nat /\ MaxDecidedKept \in Nat
    BY <1>4, <2>4, FS_CardinalityType, RequestsAssumption DEF NothingTrimmed
  <2> HIDE DEF newer
  <2> QED BY <1>4, <2>2, <2>3, <2>5 DEF NothingTrimmed
<1>5. NothingTrimmed => Trim(rows) = rows
  <2> HIDE DEF drop
  <2> QED BY <1>1, <1>4 DEF SomeRows
<1> QED BY <1>3, <1>5

\* Trimming what an access changed without turning a decision.
LEMMA TrimStays ==
  ASSUME NEW rows \in SomeRows, NEW new \in SomeRows,
         \A r \in Requests : Decided(rows[r]) => new[r] = rows[r]
  PROVE  Trim(new) \in SomeRows /\ Stays(rows, Trim(new))
<1>1. Trim(new) \in SomeRows /\ \A r \in Requests : Trim(new)[r] \in {new[r], NoRow}
  BY TrimKeeps
<1>2. NothingTrimmed => Trim(new) = new
  BY TrimKeeps
<1>3. NoRow.status = "none"
  BY DEF NoRow
<1> QED BY <1>1, <1>2, <1>3 DEF Stays

\* A decision is made on a pending row and found made on one decided the same way.
LEMMA DecideStays ==
  ASSUME RowsOK, NEW h \in Harnesses, NEW r \in Requests, NEW status \in {"approved", "dismissed"},
         NEW conv \in {"arch", "goal"}, NEW stamp \in Nat,
         MayDecide(row[h][r], status)
  PROVE  LET new == Decide(h, r, status, conv, stamp) IN
         /\ new \in SomeRows /\ Stays(row[h], new)
         /\ NothingTrimmed => new[r].status = status /\ new[r].conv \in {"arch", "goal"}
<1> DEFINE w == row[h][r]
           d == [w EXCEPT !.status = status, !.at = stamp, !.synced = ~Pulled(h, r),
                          !.conv = IF conv = "goal" THEN "goal" ELSE @]
           over == [row[h] EXCEPT ![r] = d]
<1>1. row[h] \in SomeRows /\ w \in Rows
  BY DEF RowsOK, SomeRows
<1>2. d \in Rows /\ d.status = status
  BY <1>1 DEF Rows, Statuses, Pulled
<1>3. CASE w.status = status
  <2>1. Decide(h, r, status, conv, stamp) = row[h]
    BY <1>3 DEF Decide
  <2> QED BY <1>1, <1>3, <2>1 DEF Stays, Rows
<1>4. CASE w.status # status
  <2>1. Decide(h, r, status, conv, stamp) = Trim(over)
    BY <1>4 DEF Decide
  <2>2. ~Decided(w)
    BY <1>4 DEF MayDecide, Decided
  <2> HIDE DEF w, d
  <2>3. over \in SomeRows /\ over[r] = d /\ \A s \in Requests \ {r} : over[s] = row[h][s]
    BY <1>1, <1>2 DEF SomeRows
  <2>4. \A s \in Requests : Decided(row[h][s]) => over[s] = row[h][s]
    BY <2>2, <2>3 DEF w
  <2> HIDE DEF over
  <2>5. Trim(over) \in SomeRows /\ Stays(row[h], Trim(over))
    BY <1>1, <2>3, <2>4, TrimStays
  <2>6. NothingTrimmed => Trim(over)[r] = d
    BY <2>3, TrimKeeps
  <2> QED BY <1>2, <2>1, <2>5, <2>6 DEF Rows
<1> QED BY <1>3, <1>4

\* One harness's rows are replaced, the others' stay.
LEMMA OneHarness ==
  ASSUME RowsOK, NEW h \in Harnesses, NEW new \in SomeRows, Stays(row[h], new),
         row' = [row EXCEPT ![h] = new]
  PROVE  row' \in [Harnesses -> SomeRows] /\ \A k \in Harnesses : Stays(row[k], row'[k])
<1>1. \A k \in Harnesses : Stays(row[k], row[k])
  BY DEF Stays
<1> QED BY <1>1 DEF RowsOK

-----------------------------------------------------------------------------
(* What the threads hold.                                                  *)

LEMMA ThreadsHeld ==
  /\ IdleCall \in Held /\ ToPush \in Held
  /\ \A r \in Requests, k \in {"arch", "goal"} : [IdleCall EXCEPT !.at = "posting", !.r = r, !.conv = k] \in Held
  /\ \A d \in Held, x \in Steps : d.r \in Requests => [d EXCEPT !.at = x] \in Held
<1>1. IdleCall \in Threads /\ IdleCall.at = "idle"
  BY DEF IdleCall, Threads, Steps
<1>2. ToPush \in Threads /\ ToPush.at = "pushing"
  BY <1>1 DEF ToPush, Threads, Steps
<1>3. ASSUME NEW r \in Requests, NEW k \in {"arch", "goal"}
      PROVE  [IdleCall EXCEPT !.at = "posting", !.r = r, !.conv = k] \in Held
  BY <1>1, <1>3 DEF Threads, Steps, Held
<1>4. ASSUME NEW d \in Held, NEW x \in Steps, d.r \in Requests
      PROVE  [d EXCEPT !.at = x] \in Held
  <2>1. d \in Threads
    BY DEF Held
  <2>2. [d EXCEPT !.at = x] \in Threads /\ [d EXCEPT !.at = x].r = d.r
    BY <2>1 DEF Threads
  <2> QED BY <1>4, <2>2 DEF Held
<1>5. IdleCall \in Held /\ ToPush \in Held
  BY <1>1, <1>2 DEF Held
<1> QED BY <1>3, <1>4, <1>5

\* A call goes on while the others stay.
LEMMA OneCall ==
  ASSUME ThreadsOK, NEW c \in Calls, NEW d \in Held, call' = [call EXCEPT ![c] = d], deliver' = deliver
  PROVE  ThreadsOK'
BY DEF ThreadsOK

LEMMA IdleGate == IdleSync \in Gates /\ IdleSync.push = [r \in {} |-> NoRow]
<1>1. [r \in {} |-> NoRow] \in [{} -> Rows]
  OBVIOUS
<1>2. [r \in {} |-> NoRow] \in Answers
  BY <1>1 DEF Answers
<1> QED BY <1>2 DEF IdleSync, Gates

LEMMA AnswerOf == ASSUME NEW D \in SUBSET Requests, NEW f \in [D -> Rows] PROVE f \in Answers
BY DEF Answers

\* Decisions that are still to be pushed, or none.
LEMMA PushGate ==
  ASSUME NEW p \in Answers, \A r \in DOMAIN p : Decided(p[r])
  PROVE  ToBePushed(p) \in Gates /\ \A r \in DOMAIN ToBePushed(p).push : Decided(ToBePushed(p).push[r])
<1>1. CASE DOMAIN p = {}
  BY <1>1, IdleGate DEF ToBePushed
<1>2. CASE DOMAIN p # {}
  <2>1. ToBePushed(p) = [IdleSync EXCEPT !.at = "pushing", !.push = p]
    BY <1>2 DEF ToBePushed
  <2>2. ToBePushed(p) \in Gates /\ ToBePushed(p).push = p
    BY <2>1, IdleGate DEF Gates
  <2> QED BY <2>2
<1> QED BY <1>1, <1>2

\* What a hub reads from its rows to push.
LEMMA DecisionsRead ==
  ASSUME RowsOK, NEW h \in Harnesses
  PROVE  LET p == [r \in DecisionsToPush(h) |-> AsSent(row[h][r])] IN
         ToBePushed(p) \in Gates /\ \A r \in DOMAIN ToBePushed(p).push : Decided(ToBePushed(p).push[r])
<1> DEFINE p == [r \in DecisionsToPush(h) |-> AsSent(row[h][r])]
<1>1. DecisionsToPush(h) \in SUBSET Requests
  BY DEF DecisionsToPush
<1>2. \A r \in DecisionsToPush(h) : row[h][r] \in Rows /\ Decided(row[h][r])
  BY DEF DecisionsToPush, RowsOK, SomeRows
<1>3. \A r \in DecisionsToPush(h) : AsSent(row[h][r]) \in Rows /\ AsSent(row[h][r]).status = row[h][r].status
  BY <1>2, RowOperators
<1>4. p \in Answers
  BY <1>1, <1>3 DEF Answers
<1>5. \A r \in DOMAIN p : Decided(p[r])
  BY <1>2, <1>3 DEF Decided
<1> HIDE DEF p
<1>6. ToBePushed(p) \in Gates /\ \A r \in DOMAIN ToBePushed(p).push : Decided(ToBePushed(p).push[r])
  BY <1>4, <1>5, PushGate
<1> QED BY <1>6 DEF p

-----------------------------------------------------------------------------
(* The steps.                                                              *)

Steady == \A k \in Harnesses : Stays(row[k], row'[k])

LEMMA SameRows == ASSUME RowsOK, UNCHANGED row PROVE row' \in [Harnesses -> SomeRows] /\ Steady
BY DEF RowsOK, Steady, Stays

LEMMA InitInv == Init => IInv
<1> SUFFICES ASSUME Init PROVE IInv
  OBVIOUS
<1>1. NoRow \in Rows
  BY DEF NoRow, Rows, Statuses
<1>2. RowsOK
  BY <1>1, RequestsAssumption DEF Init, RowsOK, SomeRows
<1>3. ThreadsOK
  BY ThreadsHeld DEF Init, ThreadsOK
<1>4. SyncOK
  BY IdleGate DEF Init, SyncOK
<1>5. ArchOK
  BY DEF Init, ArchOK
<1> QED BY <1>2, <1>3, <1>4, <1>5 DEF IInv

LEMMA RecordStep ==
  ASSUME IInv, NEW r \in Requests, Record(r)
  PROVE  IInv' /\ Steady
<1> DEFINE h == Home[r]
           new == [row[h] EXCEPT ![r] = Pending]
<1>1. h \in Harnesses
  BY RequestsAssumption
<1>2. row[h] \in SomeRows /\ ~Decided(row[h][r])
  BY <1>1 DEF IInv, RowsOK, Record, Decided
<1>3. Pending \in Rows
  BY DEF Pending, NoRow, Rows, Statuses
<1>4. new \in SomeRows /\ Stays(row[h], new)
  BY <1>2, <1>3 DEF SomeRows, Stays
<1>5. row' = [row EXCEPT ![h] = new]
  BY <1>1 DEF Record, IInv, RowsOK
<1> HIDE DEF h, new
<1>6. row' \in [Harnesses -> SomeRows] /\ Steady
  BY <1>1, <1>4, <1>5, OneHarness DEF Steady, IInv
<1>7. RowsOK'
  BY <1>6 DEF IInv, RowsOK, Record
<1>8. ThreadsOK' /\ SyncOK' /\ ArchOK'
  BY DEF IInv, ThreadsOK, SyncOK, ArchOK, Record
<1> QED BY <1>6, <1>7, <1>8 DEF IInv

\* A decision given by a call or pushed by a hub, where it may be given.
LEMMA DecidedRows ==
  ASSUME RowsOK, NEW h \in Harnesses, NEW r \in Requests, NEW status \in {"approved", "dismissed"},
         NEW conv \in {"arch", "goal"}, NEW stamp \in Nat, MayDecide(row[h][r], status),
         row' = [row EXCEPT ![h] = Decide(h, r, status, conv, stamp)]
  PROVE  row' \in [Harnesses -> SomeRows] /\ Steady
<1> DEFINE new == Decide(h, r, status, conv, stamp)
<1>1. new \in SomeRows /\ Stays(row[h], new)
  BY DecideStays
<1> HIDE DEF new
<1>2. row' = [row EXCEPT ![h] = new]
  BY DEF new
<1> QED BY <1>1, <1>2, OneHarness DEF Steady

\* The operator decides.
LEMMA StampedClock ==
  ASSUME RowsOK, NEW h \in Harnesses, NEW r \in Requests, NEW status,
         MayStamp(h, r, status), clock' = Stamped(h, r, status)
  PROVE  clock' \in 0..MaxDecisions
BY RequestsAssumption DEF RowsOK, MayStamp, Stamped

LEMMA ApproveStep ==
  ASSUME IInv, NEW c \in Calls, NEW r \in Requests, Approve(c, r)
  PROVE  IInv' /\ Steady
<1> DEFINE h == At[c]
           w == Decide(h, r, "approved", "arch", clock + 1)[r]
<1>1. h \in Harnesses /\ RowsOK /\ clock \in Nat /\ clock + 1 \in Nat
  BY RequestsAssumption DEF IInv, RowsOK
<1>2. row' \in [Harnesses -> SomeRows] /\ Steady
  BY <1>1, DecidedRows DEF Approve
<1>3. clock' \in 0..MaxDecisions
  BY <1>1, StampedClock DEF Approve
<1>4. w \in Rows
  <2>1. Decide(h, r, "approved", "arch", clock + 1) \in SomeRows
    BY <1>1, DecideStays DEF Approve
  <2> QED BY <2>1 DEF SomeRows
<1>5. \E x \in {ToPush, [IdleCall EXCEPT !.at = "posting", !.r = r, !.conv = w.conv]} :
        call' = [call EXCEPT ![c] = x]
  BY DEF Approve
<1> HIDE DEF w
<1>6. w.conv \in {"arch", "goal"}
  BY <1>4 DEF Rows
<1>7. \E x \in Held : call' = [call EXCEPT ![c] = x]
  BY <1>5, <1>6, ThreadsHeld
<1>8. ThreadsOK'
  BY <1>7, OneCall DEF Approve, IInv
<1>9. SyncOK' /\ ArchOK'
  BY DEF IInv, SyncOK, ArchOK, Approve
<1> QED BY <1>2, <1>3, <1>8, <1>9 DEF IInv, RowsOK

LEMMA DismissStep ==
  ASSUME IInv, NEW c \in Calls, NEW r \in Requests, Dismiss(c, r)
  PROVE  IInv' /\ Steady
<1>1. At[c] \in Harnesses /\ RowsOK /\ clock + 1 \in Nat
  BY RequestsAssumption DEF IInv, RowsOK
<1>2. row' \in [Harnesses -> SomeRows] /\ Steady
  BY <1>1, DecidedRows DEF Dismiss
<1>3. clock' \in 0..MaxDecisions
  BY <1>1, StampedClock DEF Dismiss
<1>4. ThreadsOK'
  BY ThreadsHeld DEF Dismiss, IInv, ThreadsOK
<1>5. SyncOK' /\ ArchOK'
  BY DEF IInv, SyncOK, ArchOK, Dismiss
<1> QED BY <1>2, <1>3, <1>4, <1>5 DEF IInv, RowsOK

\* A row is marked delivered.
LEMMA MarkedRows ==
  ASSUME RowsOK, NEW h \in Harnesses, NEW r \in Requests, NEW goal \in BOOLEAN,
         row' = [row EXCEPT ![h][r] = Delivered(@, goal)]
  PROVE  row' \in [Harnesses -> SomeRows] /\ Steady
<1> DEFINE new == [row[h] EXCEPT ![r] = Delivered(row[h][r], goal)]
<1>1. row[h] \in SomeRows /\ row[h][r] \in Rows
  BY DEF RowsOK, SomeRows
<1>2. /\ Delivered(row[h][r], goal) \in Rows /\ Delivered(row[h][r], goal).status = row[h][r].status
      /\ row[h][r].status # "none" => Delivered(row[h][r], goal).delivered
  BY <1>1, RowOperators
<1>3. new \in SomeRows /\ Stays(row[h], new)
  BY <1>1, <1>2 DEF SomeRows, Stays, Decided
<1>4. row' = [row EXCEPT ![h] = new]
  BY DEF RowsOK
<1> HIDE DEF new
<1> QED BY <1>3, <1>4, OneHarness DEF Steady

LEMMA CallStepsStep ==
  ASSUME IInv, NEW c \in Calls, CallSteps(c)
  PROVE  IInv' /\ Steady
<1> DEFINE h == At[c]
           d == call[c]
<1>0. h \in Harnesses /\ RowsOK /\ clock + 1 \in Nat /\ d \in Held /\ ThreadsOK
  BY RequestsAssumption DEF IInv, RowsOK, ThreadsOK
<1>1. CASE CallPosts(c)
  <2>1. d.r \in Requests
    BY <1>0, <1>1 DEF CallPosts, Held
  <2>2. ThreadsOK'
    <3>1. PICK x \in {[d EXCEPT !.at = "marking"], ToPush} : call' = [call EXCEPT ![c] = x]
      BY <1>0, <1>1 DEF CallPosts, ThreadsOK
    <3>2. x \in Held
      BY <1>0, <2>1, ThreadsHeld DEF Steps
    <3>3. deliver' = deliver
      BY <1>1 DEF CallPosts
    <3> QED BY <1>0, <3>1, <3>2, <3>3, OneCall
  <2>3. ArchOK'
    <3>1. Conversation(d) \in Requests \cup {Arch}
      BY <2>1 DEF Conversation
    <3>2. CASE Waits(h, d)
      BY <1>1, <3>2 DEF CallPosts, Waits, IInv, ArchOK
    <3>3. CASE Posts(h, d)
      <4>1. busy' \in [Harnesses -> SUBSET (Requests \cup {Arch})]
        BY <1>0, <3>1, <3>3 DEF Posts, IInv, ArchOK
      <4>2. posted' \in [Harnesses -> [Requests -> Nat]]
        BY <1>0, <2>1, <3>3 DEF Posts, IInv, ArchOK
      <4> QED BY <1>1, <4>1, <4>2 DEF CallPosts, IInv, ArchOK
    <3> QED BY <1>1, <3>2, <3>3 DEF CallPosts
  <2>4. RowsOK' /\ SyncOK' /\ Steady
    BY <1>1 DEF CallPosts, IInv, RowsOK, SyncOK, Steady, Stays
  <2> QED BY <2>2, <2>3, <2>4 DEF IInv
<1>2. CASE CallMarks(c)
  <2>1. d.r \in Requests
    BY <1>0, <1>2 DEF CallMarks, Held
  <2>2. row' \in [Harnesses -> SomeRows] /\ Steady
    BY <1>0, <1>2, <2>1, MarkedRows DEF CallMarks
  <2>3. ThreadsOK'
    BY <1>2, ThreadsHeld DEF CallMarks, IInv, ThreadsOK
  <2>4. SyncOK' /\ ArchOK'
    BY <1>2 DEF CallMarks, IInv, SyncOK, ArchOK
  <2> QED BY <1>2, <2>2, <2>3, <2>4 DEF IInv, RowsOK, CallMarks
<1>3. CASE CallPushes(c)
  <2>1. ThreadsOK'
    BY <1>3, ThreadsHeld DEF CallPushes, IInv, ThreadsOK
  <2>2. SyncOK'
    BY <1>0, <1>3, DecisionsRead DEF CallPushes, IInv, SyncOK
  <2>3. RowsOK' /\ ArchOK' /\ Steady
    BY <1>3 DEF CallPushes, IInv, RowsOK, ArchOK, Steady, Stays
  <2> QED BY <2>1, <2>2, <2>3 DEF IInv
<1>4. CASE DriveChecks(c)
  <2>1. d.r \in Requests
    BY <1>0, <1>4 DEF DriveChecks, Held
  <2>2. ThreadsOK'
    <3>1. PICK x \in {[d EXCEPT !.at = "starting"], IdleCall} : call' = [call EXCEPT ![c] = x]
      BY <1>0, <1>4 DEF DriveChecks, ThreadsOK
    <3>2. x \in Held
      BY <1>0, <2>1, ThreadsHeld DEF Steps
    <3>3. deliver' = deliver
      BY <1>4 DEF DriveChecks
    <3> QED BY <1>0, <3>1, <3>2, <3>3, OneCall
  <2>3. RowsOK' /\ SyncOK' /\ ArchOK' /\ Steady
    BY <1>4 DEF DriveChecks, IInv, RowsOK, SyncOK, ArchOK, Steady, Stays
  <2> QED BY <2>2, <2>3 DEF IInv
<1>5. CASE DriveStarts(c)
  <2>1. d.r \in Requests
    BY <1>0, <1>5 DEF DriveStarts, Held
  <2>2. ThreadsOK'
    <3>1. PICK x \in {[d EXCEPT !.at = "deciding"], [d EXCEPT !.at = "marking"]} : call' = [call EXCEPT ![c] = x]
      BY <1>0, <1>5 DEF DriveStarts, ThreadsOK
    <3>2. x \in Held
      BY <1>0, <2>1, ThreadsHeld DEF Steps
    <3>3. deliver' = deliver
      BY <1>5 DEF DriveStarts
    <3> QED BY <1>0, <3>1, <3>2, <3>3, OneCall
  <2>3. ArchOK'
    BY <1>0, <1>5, <2>1 DEF DriveStarts, IInv, ArchOK
  <2>4. RowsOK' /\ SyncOK' /\ Steady
    BY <1>5 DEF DriveStarts, IInv, RowsOK, SyncOK, Steady, Stays
  <2> QED BY <2>2, <2>3, <2>4 DEF IInv
<1>6. CASE DriveDecides(c)
  <2>1. d.r \in Requests
    BY <1>0, <1>6 DEF DriveDecides, Held
  <2>2. SyncOK' /\ ArchOK'
    BY <1>6 DEF DriveDecides, IInv, SyncOK, ArchOK
  <2>3. ThreadsOK'
    <3>1. PICK x \in {[d EXCEPT !.at = "marking"], IdleCall} : call' = [call EXCEPT ![c] = x]
      BY <1>0, <1>6 DEF DriveDecides, ThreadsOK
    <3>2. x \in Held
      BY <1>0, <2>1, ThreadsHeld DEF Steps
    <3>3. deliver' = deliver
      BY <1>6 DEF DriveDecides
    <3> QED BY <1>0, <3>1, <3>2, <3>3, OneCall
  <2>4. CASE row[h][d.r].status # "none" /\ MayDecide(row[h][d.r], "approved")
    <3>1. row' \in [Harnesses -> SomeRows] /\ Steady
      BY <1>0, <1>6, <2>1, <2>4, DecidedRows DEF DriveDecides
    <3>2. clock' \in 0..MaxDecisions
      BY <1>0, <1>6, <2>1, <2>4, StampedClock DEF DriveDecides
    <3> QED BY <2>2, <2>3, <3>1, <3>2 DEF IInv, RowsOK
  <2>5. CASE ~(row[h][d.r].status # "none" /\ MayDecide(row[h][d.r], "approved"))
    <3>1. RowsOK' /\ Steady
      BY <1>6, <2>5 DEF DriveDecides, IInv, RowsOK, Steady, Stays
    <3> QED BY <2>2, <2>3, <3>1 DEF IInv
  <2> QED BY <2>4, <2>5
<1> QED BY <1>1, <1>2, <1>3, <1>4, <1>5, <1>6 DEF CallSteps

LEMMA DriveStep ==
  ASSUME IInv, NEW c \in Calls, NEW r \in Requests, Drive(c, r)
  PROVE  IInv' /\ Steady
<1>1. [at |-> "checking", r |-> r, conv |-> "goal", pending |-> row[At[c]][r].status = "pending"] \in Held
  BY DEF Held, Threads, Steps
<1>2. ThreadsOK'
  BY <1>1, OneCall DEF Drive, IInv
<1>3. RowsOK' /\ SyncOK' /\ ArchOK' /\ Steady
  BY DEF Drive, IInv, RowsOK, SyncOK, ArchOK, Steady, Stays
<1> QED BY <1>2, <1>3 DEF IInv

LEMMA DeliverStepsStep ==
  ASSUME IInv, NEW h \in Harnesses, DeliverSteps(h)
  PROVE  IInv' /\ Steady
<1> DEFINE d == deliver[h]
<1>0. RowsOK /\ ThreadsOK /\ d \in Held
  BY DEF IInv, ThreadsOK
<1>1. ASSUME NEW x \in Held, deliver' = [deliver EXCEPT ![h] = x], call' = call
      PROVE  ThreadsOK'
  BY <1>0, <1>1 DEF ThreadsOK
<1>2. CASE DeliverPicks(h)
  <2>1. PICK r \in Oldest(h, ApprovedUndelivered(h)) :
          deliver' = [deliver EXCEPT ![h] = [IdleCall EXCEPT !.at = "posting", !.r = r, !.conv = row[h][r].conv]]
    BY <1>2 DEF DeliverPicks
  <2>2. r \in Requests
    BY DEF Oldest, ApprovedUndelivered
  <2>3. row[h][r].conv \in {"arch", "goal"}
    BY <1>0, <2>2 DEF RowsOK, SomeRows, Rows
  <2>4. ThreadsOK'
    BY <1>1, <1>2, <2>1, <2>2, <2>3, ThreadsHeld DEF DeliverPicks
  <2>5. RowsOK' /\ SyncOK' /\ ArchOK' /\ Steady
    BY <1>2 DEF DeliverPicks, IInv, RowsOK, SyncOK, ArchOK, Steady, Stays
  <2> QED BY <2>4, <2>5 DEF IInv
<1>3. CASE DeliverPosts(h)
  <2>1. d.r \in Requests
    BY <1>0, <1>3 DEF DeliverPosts, Held
  <2>2. deliver' = [deliver EXCEPT ![h] = [d EXCEPT !.at = "marking"]]
    BY <1>0, <1>3 DEF DeliverPosts, ThreadsOK
  <2>3. ThreadsOK'
    BY <1>0, <1>1, <1>3, <2>1, <2>2, ThreadsHeld DEF DeliverPosts, Steps
  <2>4. Conversation(d) \in Requests \cup {Arch}
    BY <2>1 DEF Conversation
  <2>5. busy' \in [Harnesses -> SUBSET (Requests \cup {Arch})]
    BY <1>3, <2>4 DEF DeliverPosts, Posts, IInv, ArchOK
  <2>6. posted' \in [Harnesses -> [Requests -> Nat]]
    BY <1>3, <2>1 DEF DeliverPosts, Posts, IInv, ArchOK
  <2>7. RowsOK' /\ SyncOK' /\ ArchOK' /\ Steady
    BY <1>3, <2>5, <2>6 DEF DeliverPosts, IInv, RowsOK, SyncOK, ArchOK, Steady, Stays
  <2> QED BY <2>3, <2>7 DEF IInv
<1>4. CASE DeliverWaits(h)
  <2>1. ThreadsOK'
    BY <1>1, <1>4, ThreadsHeld DEF DeliverWaits
  <2>2. RowsOK' /\ SyncOK' /\ ArchOK' /\ Steady
    BY <1>4 DEF DeliverWaits, IInv, RowsOK, SyncOK, ArchOK, Steady, Stays
  <2> QED BY <2>1, <2>2 DEF IInv
<1>5. CASE DeliverMarks(h)
  <2>1. d.r \in Requests
    BY <1>0, <1>5 DEF DeliverMarks, Held
  <2>2. row' \in [Harnesses -> SomeRows] /\ Steady
    BY <1>0, <1>5, <2>1, MarkedRows DEF DeliverMarks
  <2>3. ThreadsOK'
    BY <1>1, <1>5, ThreadsHeld DEF DeliverMarks
  <2>4. SyncOK' /\ ArchOK' /\ clock' = clock
    BY <1>5 DEF DeliverMarks, IInv, SyncOK, ArchOK
  <2> QED BY <2>2, <2>3, <2>4 DEF IInv, RowsOK
<1> QED BY <1>2, <1>3, <1>4, <1>5 DEF DeliverSteps

-----------------------------------------------------------------------------
\* The gate's holder goes on at one harness.
LEMMA OneGate ==
  ASSUME SyncOK, NEW h \in Harnesses, NEW g \in Gates, \A r \in DOMAIN g.push : Decided(g.push[r]),
         sync' = [sync EXCEPT ![h] = g]
  PROVE  SyncOK'
BY DEF SyncOK

LEMMA PullsStep ==
  ASSUME IInv, NEW h \in Harnesses, PullBegins(h) \/ Answered(h) \/ Failed(h) \/ PullEnds(h)
  PROVE  IInv' /\ Steady
<1> DEFINE g == sync[h]
<1>0. RowsOK /\ SyncOK /\ g \in Gates /\ \A r \in DOMAIN g.push : Decided(g.push[r])
  BY DEF IInv, SyncOK
<1>1. RowsOK' /\ ThreadsOK' /\ ArchOK' /\ Steady
  BY DEF PullBegins, Answered, PullAnswered, Failed, PullFails, PullEnds, IInv, RowsOK, ThreadsOK, ArchOK, Steady, Stays
<1>2. CASE PullBegins(h)
  <2> DEFINE n == [g EXCEPT !.at = "pulling", !.todo = PeersOf(h)]
  <2>1. sync' = [sync EXCEPT ![h] = n]
    BY <1>0, <1>2 DEF PullBegins, SyncOK
  <2>2. n \in Gates /\ n.push = g.push
    BY <1>0 DEF Gates, PeersOf
  <2> HIDE DEF n
  <2>3. SyncOK'
    BY <1>0, <2>1, <2>2, OneGate
  <2> QED BY <1>1, <2>3 DEF IInv
<1>3. CASE Answered(h)
  <2>1. PICK p \in Harnesses : PullAnswered(h, p)
    BY <1>3 DEF Answered
  <2> DEFINE snap == [r \in {s \in Requests : ~Pulled(p, s)} |-> AsSent(row[p][r])]
             n == [g EXCEPT !.at = "merging", !.todo = @ \ {p}, !.snap = snap]
  <2>2. sync' = [sync EXCEPT ![h] = n]
    BY <1>0, <2>1 DEF PullAnswered, SyncOK
  <2>3. \A r \in Requests : AsSent(row[p][r]) \in Rows
    <3>1. \A r \in Requests : row[p][r] \in Rows
      BY <1>0 DEF RowsOK, SomeRows
    <3> QED BY <3>1, RowOperators
  <2>4. snap \in [{s \in Requests : ~Pulled(p, s)} -> Rows]
    BY <2>3
  <2>5. snap \in Answers
    BY <2>4, AnswerOf
  <2> HIDE DEF snap
  <2>6. n \in Gates /\ n.push = g.push
    BY <1>0, <2>5 DEF Gates
  <2> HIDE DEF n
  <2>7. SyncOK'
    BY <1>0, <2>2, <2>6, OneGate
  <2> QED BY <1>1, <2>7 DEF IInv
<1>4. CASE Failed(h)
  <2>1. PICK p \in Harnesses : PullFails(h, p)
    BY <1>4 DEF Failed
  <2> DEFINE n == [g EXCEPT !.todo = @ \ {p}]
  <2>2. sync' = [sync EXCEPT ![h] = n]
    BY <1>0, <2>1 DEF PullFails, SyncOK
  <2>3. n \in Gates /\ n.push = g.push
    BY <1>0 DEF Gates
  <2> HIDE DEF n
  <2>4. SyncOK'
    BY <1>0, <2>2, <2>3, OneGate
  <2> QED BY <1>1, <2>4 DEF IInv
<1>5. CASE PullEnds(h)
  <2> DEFINE n == ToBePushed([r \in DecisionsToPush(h) |-> AsSent(row[h][r])])
  <2>1. sync' = [sync EXCEPT ![h] = n]
    BY <1>5 DEF PullEnds
  <2>2. n \in Gates /\ \A r \in DOMAIN n.push : Decided(n.push[r])
    BY <1>0, DecisionsRead
  <2> HIDE DEF n
  <2>3. SyncOK'
    BY <1>0, <2>1, <2>2, OneGate
  <2> QED BY <1>1, <2>3 DEF IInv
<1> QED BY <1>2, <1>3, <1>4, <1>5

LEMMA MergeStep ==
  ASSUME IInv, NEW h \in Harnesses, MergePulled(h)
  PROVE  IInv' /\ Steady
<1> DEFINE snap == sync[h].snap
           new  == [r \in Requests |-> IF r \in DOMAIN snap THEN Merged(row[h][r], snap[r]) ELSE row[h][r]]
           g    == [IdleSync EXCEPT !.at = "pulling", !.todo = sync[h].todo]
<1>0. RowsOK /\ SyncOK /\ row[h] \in SomeRows /\ sync[h] \in Gates
  BY DEF IInv, RowsOK, SyncOK
<1>1. \A r \in DOMAIN snap : snap[r] \in Rows
  BY <1>0 DEF Gates, Answers
<1>2. ASSUME NEW r \in Requests
      PROVE  new[r] \in Rows /\ (Decided(row[h][r]) => new[r] = row[h][r])
  <2>1. row[h][r] \in Rows
    BY <1>0 DEF SomeRows
  <2> HIDE DEF snap
  <2>2. CASE r \in DOMAIN snap
    <3>1. Merged(row[h][r], snap[r]) \in Rows /\ (Decided(row[h][r]) => Merged(row[h][r], snap[r]) = row[h][r])
      BY <1>1, <2>1, <2>2, RowOperators
    <3> QED BY <2>2, <3>1
  <2> QED BY <2>1, <2>2
<1>3. new \in SomeRows
  BY <1>2 DEF SomeRows
<1>4. row' = [row EXCEPT ![h] = IF new = @ THEN @ ELSE Trim(new)] /\ sync' = [sync EXCEPT ![h] = g]
  BY DEF MergePulled
<1>5. \A r \in Requests : Decided(row[h][r]) => new[r] = row[h][r]
  BY <1>2
<1> HIDE DEF new
<1>6. Trim(new) \in SomeRows /\ Stays(row[h], Trim(new))
  BY <1>0, <1>3, <1>5, TrimStays
<1>7. row' = [row EXCEPT ![h] = row[h]] \/ row' = [row EXCEPT ![h] = Trim(new)]
  BY <1>0, <1>4 DEF RowsOK
<1>8. Stays(row[h], row[h])
  BY DEF Stays
<1>9. row' \in [Harnesses -> SomeRows] /\ Steady
  BY <1>0, <1>6, <1>7, <1>8, OneHarness DEF Steady
<1>10. g \in Gates /\ g.push = IdleSync.push /\ DOMAIN IdleSync.push = {}
  BY <1>0, IdleGate DEF Gates
<1> HIDE DEF g
<1>11. SyncOK'
  BY <1>0, <1>4, <1>10, OneGate
<1>12. ThreadsOK' /\ ArchOK' /\ clock' = clock
  BY DEF MergePulled, IInv, ThreadsOK, ArchOK
<1> QED BY <1>9, <1>11, <1>12 DEF IInv, RowsOK

\* The peer decides as it is told, if it may, and the hub settles its row, or does not.
LEMMA PeerAppliesRows ==
  ASSUME RowsOK, NEW h \in Harnesses, NEW r \in Requests, NEW mid,
         mid = PeerApplies(h, r), Decided(sync[h].push[r]), sync[h].push[r] \in Rows
  PROVE  mid \in [Harnesses -> SomeRows] /\ \A k \in Harnesses : Stays(row[k], mid[k])
<1> DEFINE p == Home[r]
           d == sync[h].push[r]
           new == Decide(p, r, d.status, "arch", d.at)
<1>0. p \in Harnesses /\ d.status \in {"approved", "dismissed"} /\ d.at \in Nat
  BY RequestsAssumption DEF Decided, Rows
<1>1. \A k \in Harnesses : Stays(row[k], row[k])
  BY DEF Stays
<1>2. CASE mid = row
  BY <1>1, <1>2 DEF RowsOK
<1>3. CASE MayDecide(row[p][r], d.status) /\ mid = [row EXCEPT ![p] = new]
  <2>1. new \in SomeRows /\ Stays(row[p], new)
    BY <1>0, <1>3, DecideStays
  <2> HIDE DEF new
  <2> QED BY <1>0, <1>1, <1>3, <2>1 DEF RowsOK
<1> QED BY <1>2, <1>3 DEF PeerApplies

LEMMA SettledRows ==
  ASSUME RowsOK, NEW h \in Harnesses, NEW r \in Requests, NEW mid \in [Harnesses -> SomeRows],
         \A k \in Harnesses : Stays(row[k], mid[k]), row' = [mid EXCEPT ![h][r] = Settled(@)]
  PROVE  row' \in [Harnesses -> SomeRows] /\ Steady
<1>1. mid[h][r] \in Rows
  BY DEF SomeRows
<1>2. /\ Settled(mid[h][r]) \in Rows /\ Settled(mid[h][r]).status = mid[h][r].status
      /\ Settled(mid[h][r]).delivered = mid[h][r].delivered
      /\ Settled(mid[h][r]).conv = mid[h][r].conv
  BY <1>1, RowOperators
<1>3. row' \in [Harnesses -> SomeRows]
  BY <1>2 DEF SomeRows
<1>4. ASSUME NEW k \in Harnesses, NEW s \in Requests
      PROVE  /\ row'[k][s].status = mid[k][s].status /\ row'[k][s].delivered = mid[k][s].delivered
             /\ row'[k][s].conv = mid[k][s].conv
  BY <1>2, <1>4 DEF SomeRows
<1>5. Steady
  BY <1>4 DEF Steady, Stays
<1> QED BY <1>3, <1>5

LEMMA PushStep ==
  ASSUME IInv, NEW h \in Harnesses, NEW r \in Requests, PushAnswered(h, r) \/ PushFails(h, r)
  PROVE  IInv' /\ Steady
<1> DEFINE old == sync[h].push
           push == [s \in DOMAIN old \ {r} |-> old[s]]
<1>0. /\ RowsOK /\ SyncOK /\ sync[h] \in Gates /\ Pushes(h, r) /\ r \in DOMAIN old
      /\ \A s \in DOMAIN old : Decided(old[s])
  BY DEF IInv, SyncOK, PushAnswered, PushFails, Pushes
<1>1. old \in Answers
  BY <1>0 DEF Gates
<1>2. \A s \in DOMAIN old : old[s] \in Rows /\ s \in Requests
  BY <1>1 DEF Answers
<1>3. push \in Answers
  <2>1. DOMAIN old \ {r} \in SUBSET Requests
    BY <1>2
  <2>2. push \in [DOMAIN old \ {r} -> Rows]
    BY <1>2
  <2> HIDE DEF push
  <2> QED BY <2>1, <2>2, AnswerOf
<1>4. \A s \in DOMAIN push : Decided(push[s])
  BY <1>0
<1>5. sync' = [sync EXCEPT ![h] = ToBePushed(push)]
  BY <1>0 DEF Pushes, SyncOK
<1> HIDE DEF push
<1>6. SyncOK'
  BY <1>0, <1>3, <1>4, <1>5, PushGate, OneGate
<1> DEFINE mid == PeerApplies(h, r)
<1>7. mid \in [Harnesses -> SomeRows] /\ \A k \in Harnesses : Stays(row[k], mid[k])
  BY <1>0, <1>2, PeerAppliesRows
<1> HIDE DEF mid
<1>8. row' \in [Harnesses -> SomeRows] /\ Steady
  <2>1. CASE PushAnswered(h, r)
    BY <1>0, <1>7, <2>1, SettledRows DEF PushAnswered, mid
  <2>2. CASE PushFails(h, r)
    <3>1. row' = row \/ row' = mid
      BY <2>2 DEF PushFails, mid
    <3>2. CASE row' = row
      BY <1>0, <3>2, SameRows
    <3>3. CASE row' = mid
      BY <1>7, <3>3 DEF Steady
    <3> QED BY <3>1, <3>2, <3>3
  <2> QED BY <2>1, <2>2
<1>9. ThreadsOK' /\ ArchOK' /\ clock' = clock
  BY <1>0 DEF Pushes, IInv, ThreadsOK, ArchOK
<1> QED BY <1>6, <1>8, <1>9 DEF IInv, RowsOK

LEMMA RestStep ==
  ASSUME IInv, NEW h \in Harnesses,
         \/ OtherTurn(h) \/ (\E k \in busy[h] : TurnEnds(h, k)) \/ (\E r \in Requests : GoalEnds(h, r))
         \/ GateCloses(h) \/ GateOpens(h) \/ OptInFlips(h)
  PROVE  IInv' /\ Steady
<1>1. RowsOK' /\ Steady
  BY DEF OtherTurn, TurnEnds, GoalEnds, GateCloses, GateOpens, OptInFlips, IInv, RowsOK, Steady, Stays
<1>2. ThreadsOK' /\ SyncOK'
  BY DEF OtherTurn, TurnEnds, GoalEnds, GateCloses, GateOpens, OptInFlips, IInv, ThreadsOK, SyncOK
<1>3. ArchOK'
  <2>1. CASE OtherTurn(h)
    BY <2>1 DEF OtherTurn, IInv, ArchOK
  <2>2. CASE \E k \in busy[h] : TurnEnds(h, k)
    BY <2>2 DEF TurnEnds, IInv, ArchOK
  <2>3. CASE \E r \in Requests : GoalEnds(h, r)
    BY <2>3 DEF GoalEnds, IInv, ArchOK
  <2>4. CASE GateCloses(h)
    BY <2>4 DEF GateCloses, IInv, ArchOK
  <2>5. CASE GateOpens(h)
    BY <2>5 DEF GateOpens, IInv, ArchOK
  <2>6. CASE OptInFlips(h)
    BY <2>6 DEF OptInFlips, IInv, ArchOK
  <2> QED BY <2>1, <2>2, <2>3, <2>4, <2>5, <2>6
<1> QED BY <1>1, <1>2, <1>3 DEF IInv

LEMMA KillStep ==
  ASSUME IInv, NEW h \in Harnesses, Kill(h)
  PROVE  IInv' /\ Steady
<1>1. RowsOK' /\ Steady
  BY DEF Kill, IInv, RowsOK, Steady, Stays
<1>2. ThreadsOK'
  BY ThreadsHeld DEF Kill, IInv, ThreadsOK
<1>3. DOMAIN IdleSync.push = {}
  BY IdleGate
<1>4. SyncOK'
  BY <1>3, IdleGate, OneGate DEF Kill, IInv
<1>5. ArchOK'
  BY DEF Kill, IInv, ArchOK
<1> QED BY <1>1, <1>2, <1>4, <1>5 DEF IInv

LEMMA StutterStep == ASSUME IInv, UNCHANGED vars PROVE IInv' /\ Steady
BY DEF vars, IInv, RowsOK, ThreadsOK, SyncOK, ArchOK, Steady, Stays

LEMMA StepInv == IInv /\ [Next]_vars => IInv' /\ Steady
<1> SUFFICES ASSUME IInv, [Next]_vars PROVE IInv' /\ Steady
  OBVIOUS
<1>1. CASE \E r \in Requests : Record(r)
  BY <1>1, RecordStep
<1>2. CASE \E c \in Calls, r \in Requests : Approve(c, r) \/ Dismiss(c, r) \/ Drive(c, r)
  BY <1>2, ApproveStep, DismissStep, DriveStep
<1>3. CASE \E c \in Calls : CallSteps(c)
  BY <1>3, CallStepsStep
<1>4. CASE \E h \in Harnesses : DeliverSteps(h)
  BY <1>4, DeliverStepsStep
<1>5. CASE \E h \in Harnesses : SyncSteps(h)
  BY <1>5, PullsStep, MergeStep, PushStep DEF SyncSteps
<1>6. CASE \E h \in Harnesses :
             \/ OtherTurn(h) \/ (\E k \in busy[h] : TurnEnds(h, k)) \/ (\E r \in Requests : GoalEnds(h, r))
             \/ GateCloses(h) \/ GateOpens(h) \/ OptInFlips(h)
  BY <1>6, RestStep
<1>7. CASE \E h \in Harnesses : Kill(h)
  BY <1>7, KillStep
<1>8. CASE UNCHANGED vars
  BY <1>8, StutterStep
<1> QED BY <1>1, <1>2, <1>3, <1>4, <1>5, <1>6, <1>7, <1>8 DEF Next

-----------------------------------------------------------------------------
\* The invariant of every harness's rows, threads and gate.
THEOREM Invariance == Spec => []IInv
BY InitInv, StepInv, PTL DEF Spec

\* Every field of the rows, calls, deliveries and synchronisations keeps its type, for every set
\* of harnesses, requests and overlapping calls.
THEOREM TypeCorrect == Spec => []TypeOK
<1>1. IInv => TypeOK
  <2> SUFFICES ASSUME IInv PROVE TypeOK
    OBVIOUS
  <2>1. row \in [Harnesses -> [Requests -> Rows]] /\ clock \in 0..MaxDecisions
    BY DEF IInv, RowsOK, SomeRows
  <2>2. call \in [Calls -> Threads] /\ deliver \in [Harnesses -> Threads]
    BY DEF IInv, ThreadsOK, Held
  <2>3. \A h \in Harnesses :
          /\ sync[h].at \in {"idle", "pulling", "merging", "pushing"}
          /\ sync[h].todo \subseteq Harnesses
          /\ \A r \in DOMAIN sync[h].snap : sync[h].snap[r] \in Rows
          /\ \A r \in DOMAIN sync[h].push : Decided(sync[h].push[r])
    BY DEF IInv, SyncOK, Gates, Answers
  <2> QED BY <2>1, <2>2, <2>3 DEF TypeOK, IInv, ArchOK
<1> QED BY <1>1, Invariance, PTL

\* No decision is turned and no delivery forgotten, by either operator, by a row pulled long ago or
\* by a push that comes late: a decided row stays as it is, or is trimmed.
THEOREM DecisionsStayFinal == Spec => DecisionsAreFinal
<1>1. Steady => \A h \in Harnesses, r \in Requests :
        Decided(row[h][r]) => \/ row'[h][r].status = row[h][r].status /\ (row[h][r].delivered => row'[h][r].delivered)
                             \/ row'[h][r].status = "none"
  BY DEF Steady, Stays
<1>2. IInv /\ [Next]_vars => [\A h \in Harnesses, r \in Requests :
        Decided(row[h][r]) => \/ row'[h][r].status = row[h][r].status /\ (row[h][r].delivered => row'[h][r].delivered)
                             \/ row'[h][r].status = "none"]_vars
  BY <1>1, StepInv
<1> QED BY <1>2, Invariance, PTL DEF Spec, DecisionsAreFinal

-----------------------------------------------------------------------------
(* Posting follows an approval, and where nothing is trimmed approvals stay. *)

PostingAt(h, r) ==
  \/ deliver[h].at = "posting" /\ deliver[h].r = r
  \/ \E c \in Calls : At[c] = h /\ call[c].at = "posting" /\ call[c].r = r

PostsAreApproved ==
  \A h \in Harnesses, r \in Requests :
    posted[h][r] > 0 \/ PostingAt(h, r) => row[h][r].status = "approved"

\* A post comes from a thread that is posting, and such a thread from a row it found or made approved.
PostsFollow ==
  \A h \in Harnesses, r \in Requests :
    /\ posted'[h][r] > 0 => posted[h][r] > 0 \/ PostingAt(h, r)
    /\ PostingAt(h, r)' => PostingAt(h, r) \/ row[h][r].status = "approved" \/ row'[h][r].status = "approved"

LEMMA QuietPosts ==
  ASSUME posted' = posted, \A h \in Harnesses, r \in Requests : PostingAt(h, r)' => PostingAt(h, r)
  PROVE  PostsFollow
BY DEF PostsFollow

LEMMA SameThreadsPosts ==
  ASSUME posted' = posted, call' = call, deliver' = deliver
  PROVE  PostsFollow
BY DEF PostsFollow, PostingAt

\* A call that goes on to a step that posts nothing.
LEMMA CallLeavesPosting ==
  ASSUME ThreadsOK, NEW c \in Calls, NEW d, d.at # "posting", call' = [call EXCEPT ![c] = d],
         deliver' = deliver
  PROVE  \A h \in Harnesses, r \in Requests : PostingAt(h, r)' => PostingAt(h, r)
BY DEF PostingAt, ThreadsOK

LEMMA DeliveryLeavesPosting ==
  ASSUME ThreadsOK, NEW k \in Harnesses, NEW d, d.at # "posting", deliver' = [deliver EXCEPT ![k] = d],
         call' = call
  PROVE  \A h \in Harnesses, r \in Requests : PostingAt(h, r)' => PostingAt(h, r)
BY DEF PostingAt, ThreadsOK

\* SendToArch posts what the thread has at hand.
LEMMA PostedByThread ==
  ASSUME ArchOK, NEW k \in Harnesses, NEW d, d.r \in Requests, PostingAt(k, d.r), Posts(k, d)
  PROVE  \A h \in Harnesses, r \in Requests : posted'[h][r] > 0 => posted[h][r] > 0 \/ PostingAt(h, r)
BY DEF ArchOK, Posts

LEMMA IdleAt == IdleCall.at = "idle" /\ ToPush.at = "pushing"
BY DEF IdleCall, ToPush

LEMMA CallPostsFollow ==
  ASSUME NothingTrimmed, IInv, NEW c \in Calls,
         CallSteps(c) \/ (\E r \in Requests : Approve(c, r) \/ Dismiss(c, r) \/ Drive(c, r))
  PROVE  PostsFollow
<1> DEFINE k == At[c]
           d == call[c]
<1>0. ThreadsOK /\ ArchOK /\ RowsOK /\ k \in Harnesses /\ d \in Held /\ clock + 1 \in Nat
  BY RequestsAssumption DEF IInv, ThreadsOK, RowsOK
<1>1. CASE CallPosts(c)
  <2>1. PICK x \in {[d EXCEPT !.at = "marking"], ToPush} : call' = [call EXCEPT ![c] = x]
    BY <1>0, <1>1 DEF CallPosts, ThreadsOK
  <2>2. x.at # "posting"
    BY <1>0, IdleAt DEF Held, Threads
  <2>3. deliver' = deliver
    BY <1>1 DEF CallPosts
  <2>4. \A h \in Harnesses, r \in Requests : PostingAt(h, r)' => PostingAt(h, r)
    BY <1>0, <2>1, <2>2, <2>3, CallLeavesPosting
  <2>5. d.r \in Requests /\ PostingAt(k, d.r)
    BY <1>0, <1>1 DEF CallPosts, Held, PostingAt
  <2>6. CASE Posts(k, d)
    BY <1>0, <2>4, <2>5, <2>6, PostedByThread DEF PostsFollow
  <2>7. CASE Waits(k, d)
    BY <2>4, <2>7, QuietPosts DEF Waits
  <2> QED BY <1>1, <2>6, <2>7 DEF CallPosts
<1>2. CASE CallMarks(c) \/ CallPushes(c) \/ DriveChecks(c) \/ DriveStarts(c) \/ DriveDecides(c)
  <2>1. PICK x \in {ToPush, IdleCall, [d EXCEPT !.at = "starting"], [d EXCEPT !.at = "deciding"],
                     [d EXCEPT !.at = "marking"]} : call' = [call EXCEPT ![c] = x]
    <3>1. CASE CallMarks(c)
      BY <3>1 DEF CallMarks
    <3>2. CASE CallPushes(c)
      BY <3>2 DEF CallPushes
    <3>3. CASE DriveChecks(c)
      BY <1>0, <3>3 DEF DriveChecks, ThreadsOK
    <3>4. CASE DriveStarts(c)
      BY <1>0, <3>4 DEF DriveStarts, ThreadsOK
    <3>5. CASE DriveDecides(c)
      BY <1>0, <3>5 DEF DriveDecides, ThreadsOK
    <3> QED BY <1>2, <3>1, <3>2, <3>3, <3>4, <3>5
  <2>2. x.at # "posting"
    BY <1>0, IdleAt DEF Held, Threads
  <2>3. deliver' = deliver /\ posted' = posted
    BY <1>2 DEF CallMarks, CallPushes, DriveChecks, DriveStarts, DriveDecides
  <2> QED BY <1>0, <2>1, <2>2, <2>3, CallLeavesPosting, QuietPosts
<1>3. ASSUME NEW r \in Requests, Dismiss(c, r) \/ Drive(c, r) PROVE PostsFollow
  <2>1. PICK x : x.at # "posting" /\ call' = [call EXCEPT ![c] = x]
    BY <1>3, IdleAt DEF Dismiss, Drive
  <2>2. deliver' = deliver /\ posted' = posted
    BY <1>3 DEF Dismiss, Drive
  <2> QED BY <1>0, <2>1, <2>2, CallLeavesPosting, QuietPosts
<1>4. ASSUME NEW r \in Requests, Approve(c, r) PROVE PostsFollow
  <2> DEFINE new == Decide(k, r, "approved", "arch", clock + 1)
             y == [IdleCall EXCEPT !.at = "posting", !.r = r, !.conv = new[r].conv]
  <2>1. new[r].status = "approved"
    <3>1. MayDecide(row[k][r], "approved")
      BY <1>4 DEF Approve
    <3>2. NothingTrimmed => Decide(k, r, "approved", "arch", clock + 1)[r].status = "approved"
      BY <1>0, <3>1, DecideStays
    <3> QED BY <3>2
  <2>2. row'[k][r].status = "approved"
    BY <1>0, <1>4, <2>1 DEF Approve, RowsOK
  <2>3. deliver' = deliver /\ posted' = posted
    BY <1>4 DEF Approve
  <2>4. PICK x \in {ToPush, y} : call' = [call EXCEPT ![c] = x]
    BY <1>4 DEF Approve
  <2> HIDE DEF new
  <2>5. y.r = r
    BY DEF IdleCall
  <2>6. CASE x = ToPush
    BY <1>0, <2>3, <2>4, <2>6, IdleAt, CallLeavesPosting, QuietPosts
  <2>7. CASE x = y
    <3>1. \A h \in Harnesses, s \in Requests : PostingAt(h, s)' => PostingAt(h, s) \/ (h = k /\ s = r)
      BY <1>0, <2>3, <2>4, <2>5, <2>7 DEF PostingAt, ThreadsOK
    <3> QED BY <2>2, <2>3, <3>1 DEF PostsFollow
  <2> QED BY <2>4, <2>6, <2>7
<1> QED BY <1>1, <1>2, <1>3, <1>4 DEF CallSteps

LEMMA DeliverPostsFollow ==
  ASSUME IInv, NEW k \in Harnesses, DeliverSteps(k)
  PROVE  PostsFollow
<1> DEFINE d == deliver[k]
<1>0. ThreadsOK /\ ArchOK /\ d \in Held
  BY DEF IInv, ThreadsOK
<1>1. CASE DeliverPicks(k)
  <2>1. PICK r \in Oldest(k, ApprovedUndelivered(k)) :
          deliver' = [deliver EXCEPT ![k] = [IdleCall EXCEPT !.at = "posting", !.r = r, !.conv = row[k][r].conv]]
    BY <1>1 DEF DeliverPicks
  <2>2. row[k][r].status = "approved"
    BY DEF Oldest, ApprovedUndelivered, Undelivered
  <2>3. deliver'[k].r = r /\ \A h \in Harnesses \ {k} : deliver'[h] = deliver[h]
    BY <1>0, <2>1 DEF ThreadsOK, IdleCall
  <2>4. call' = call /\ posted' = posted
    BY <1>1 DEF DeliverPicks
  <2> QED BY <2>2, <2>3, <2>4 DEF PostsFollow, PostingAt
<1>2. CASE DeliverPosts(k)
  <2>1. deliver' = [deliver EXCEPT ![k] = [d EXCEPT !.at = "marking"]] /\ call' = call /\ Posts(k, d)
    BY <1>0, <1>2 DEF DeliverPosts, ThreadsOK
  <2>2. [d EXCEPT !.at = "marking"].at # "posting"
    BY <1>0 DEF Held, Threads
  <2>3. \A h \in Harnesses, r \in Requests : PostingAt(h, r)' => PostingAt(h, r)
    BY <1>0, <2>1, <2>2, DeliveryLeavesPosting
  <2>4. d.r \in Requests /\ PostingAt(k, d.r)
    BY <1>0, <1>2 DEF DeliverPosts, Held, PostingAt
  <2> QED BY <1>0, <2>1, <2>3, <2>4, PostedByThread DEF PostsFollow
<1>3. CASE DeliverWaits(k) \/ DeliverMarks(k)
  BY <1>0, <1>3, IdleAt, DeliveryLeavesPosting, QuietPosts DEF DeliverWaits, DeliverMarks
<1> QED BY <1>1, <1>2, <1>3 DEF DeliverSteps

LEMMA PostsStep ==
  ASSUME NothingTrimmed, IInv, [Next]_vars, PostsAreApproved
  PROVE  PostsAreApproved'
<1>1. PostsFollow
  <2>1. CASE \E r \in Requests : Record(r)
    BY <2>1, SameThreadsPosts DEF Record
  <2>2. CASE \E c \in Calls, r \in Requests : Approve(c, r) \/ Dismiss(c, r) \/ Drive(c, r)
    BY <2>2, CallPostsFollow
  <2>3. CASE \E c \in Calls : CallSteps(c)
    BY <2>3, CallPostsFollow
  <2>4. CASE \E h \in Harnesses : DeliverSteps(h)
    BY <2>4, DeliverPostsFollow
  <2>5. CASE \E h \in Harnesses : SyncSteps(h)
    BY <2>5, SameThreadsPosts
    DEF SyncSteps, PullBegins, MergePulled, PullEnds, Answered, PullAnswered, Failed, PullFails,
        PushAnswered, PushFails, Pushes
  <2>6. CASE \E h \in Harnesses :
               \/ OtherTurn(h) \/ (\E k \in busy[h] : TurnEnds(h, k)) \/ (\E r \in Requests : GoalEnds(h, r))
               \/ GateCloses(h) \/ GateOpens(h) \/ OptInFlips(h)
    BY <2>6, SameThreadsPosts DEF OtherTurn, TurnEnds, GoalEnds, GateCloses, GateOpens, OptInFlips
  <2>7. CASE \E h \in Harnesses : Kill(h)
    <3>1. \A h \in Harnesses, r \in Requests : PostingAt(h, r)' => PostingAt(h, r)
      BY <2>7, IdleAt DEF Kill, PostingAt, IInv, ThreadsOK
    <3> QED BY <2>7, <3>1, QuietPosts DEF Kill
  <2>8. CASE UNCHANGED vars
    BY <2>8, SameThreadsPosts DEF vars
  <2> QED BY <2>1, <2>2, <2>3, <2>4, <2>5, <2>6, <2>7, <2>8 DEF Next
<1>2. Steady
  BY StepInv
<1>3. ASSUME NEW h \in Harnesses, NEW r \in Requests, row[h][r].status = "approved"
      PROVE  row'[h][r].status = "approved"
  BY <1>2, <1>3 DEF Steady, Stays, Decided
<1> QED BY <1>1, <1>3 DEF PostsFollow, PostsAreApproved

\* What a harness holds dismissed its arch was never sent, whoever decided and in whatever order
\* calls, merges and pushed decisions came, as long as the store trims no decision: one that was
\* trimmed comes back pending, and may then be dismissed after its post.
THEOREM DismissedIsNeverPosted ==
  ASSUME NothingTrimmed
  PROVE  Spec => []DismissedIsNotPosted
<1>1. Init => PostsAreApproved
  BY IdleAt DEF Init, PostsAreApproved, PostingAt
<1>2. PostsAreApproved /\ IInv => DismissedIsNotPosted
  BY DEF PostsAreApproved, DismissedIsNotPosted, IInv, ArchOK
<1>3. IInv /\ PostsAreApproved /\ [Next]_vars => PostsAreApproved'
  BY PostsStep
<1> QED BY <1>1, <1>2, <1>3, Invariance, PTL DEF Spec

-----------------------------------------------------------------------------
(* A request is posted once.  Who posts leaves the conversation busy and is on its way to the   *)
(* mark; until the row is marked nobody else finds the conversation free, and a thread that     *)
(* read the row before the mark still finds it busy, a turn being longer than that.             *)

ThreadsOf(h)     == {deliver[h]} \cup {call[c] : c \in {x \in Calls : At[x] = h}}
PostingNow(h, r) == {d \in ThreadsOf(h) : d.at = "posting" /\ d.r = r}
MarkingNow(h, r) == {d \in ThreadsOf(h) : d.at = "marking" /\ d.r = r}
Talk(r, conv)    == IF conv = "goal" THEN r ELSE Arch

OnePost(h, r) ==
  /\ posted[h][r] <= 1 + spent.kills
  /\ \A d, e \in PostingNow(h, r) : d.conv = e.conv
  /\ \A d \in PostingNow(h, r) : row[h][r].delivered \/ row[h][r].conv = d.conv
  /\ posted[h][r] > spent.kills =>
       /\ \A d \in PostingNow(h, r) : Talk(r, d.conv) \in busy[h]
       /\ row[h][r].delivered \/ (MarkingNow(h, r) # {} /\ Talk(r, row[h][r].conv) \in busy[h])

SpentOK  == spent \in [kills : Nat, gates : Nat, optins : Nat, refused : SUBSET (Harnesses \X Requests)]
PostsOnce == SpentOK /\ \A h \in Harnesses, r \in Requests : OnePost(h, r)

\* A harness that posts nothing: turns end only when nothing is half delivered, a thread comes to
\* post only what it found undelivered, and leaves a mark only by marking.
Calm(h) ==
  /\ posted'[h] = posted[h]
  /\ \/ busy[h] \subseteq busy'[h]
     \/ ~HalfDelivered(h) /\ row'[h] = row[h] /\ ThreadsOf(h)' = ThreadsOf(h)
  /\ \A d \in ThreadsOf(h)' : d.at = "posting" =>
       d \in ThreadsOf(h) \/ (~row'[h][d.r].delivered /\ row'[h][d.r].conv = d.conv)
  /\ \A d \in ThreadsOf(h) : d.at = "marking" =>
       d \in ThreadsOf(h)' \/ row'[h][d.r].delivered \/ row[h][d.r].status = "none"

\* One of its threads posts what it has at hand.
PostsNow(h, d) ==
  /\ d \in ThreadsOf(h) /\ d.at = "posting" /\ d.r \in Requests
  /\ Talk(d.r, d.conv) \notin busy[h] /\ busy'[h] = busy[h] \cup {Talk(d.r, d.conv)}
  /\ posted'[h] = [posted[h] EXCEPT ![d.r] = posted[h][d.r] + 1] /\ row'[h] = row[h]
  /\ \E e \in ThreadsOf(h)' : e.at = "marking" /\ e.r = d.r
  /\ \A e \in ThreadsOf(h)' : e.at = "posting" => e \in ThreadsOf(h)
  /\ \A e \in ThreadsOf(h) : e.at = "marking" => e \in ThreadsOf(h)'

LEMMA ApprovedStays ==
  ASSUME NothingTrimmed, Steady, PostsAreApproved, NEW h \in Harnesses, NEW r \in Requests,
         posted[h][r] > 0 \/ PostingNow(h, r) # {}
  PROVE  /\ row[h][r].status = "approved" /\ (row[h][r].delivered => row'[h][r].delivered)
         /\ row'[h][r].conv = row[h][r].conv \/ row'[h][r].delivered
<1>1. PostingNow(h, r) # {} => PostingAt(h, r)
  BY DEF PostingNow, ThreadsOf, PostingAt
<1>2. row[h][r].status = "approved"
  BY <1>1 DEF PostsAreApproved
<1> QED BY <1>2 DEF Steady, Stays, Decided

LEMMA CalmKeeps ==
  ASSUME NothingTrimmed, LongTurns, Steady, PostsAreApproved, NEW h \in Harnesses, NEW r \in Requests,
         posted[h][r] \in Nat, SpentOK, spent'.kills = spent.kills, OnePost(h, r), Calm(h)
  PROVE  OnePost(h, r)'
<1> DEFINE w == row[h][r]
           v == row'[h][r]
           P == PostingNow(h, r)
           Q == PostingNow(h, r)'
<1>1. posted[h][r] > 0 \/ P # {} =>
        w.status = "approved" /\ (w.delivered => v.delivered) /\ (v.conv = w.conv \/ v.delivered)
  BY ApprovedStays
<1>2. \A d \in Q : d \in P \/ (~v.delivered /\ v.conv = d.conv)
  BY DEF Calm, PostingNow
<1>3. /\ posted[h][r] <= 1 + spent.kills
      /\ \A d, e \in P : d.conv = e.conv
      /\ \A d \in P : w.delivered \/ w.conv = d.conv
      /\ posted[h][r] > spent.kills =>
           /\ \A d \in P : Talk(r, d.conv) \in busy[h]
           /\ w.delivered \/ (MarkingNow(h, r) # {} /\ Talk(r, w.conv) \in busy[h])
  BY DEF OnePost
<1>4. posted'[h][r] = posted[h][r] /\ spent.kills \in Nat
  BY DEF Calm, SpentOK
<1> HIDE DEF w, v, P, Q
<1>5. \A d \in Q : v.delivered \/ v.conv = d.conv
  BY <1>1, <1>2, <1>3
<1>6. \A d, e \in Q : d.conv = e.conv
  BY <1>2, <1>3, <1>5
<1>7. ASSUME posted[h][r] > spent.kills
      PROVE  /\ \A d \in Q : Talk(r, d.conv) \in busy'[h]
             /\ v.delivered \/ (MarkingNow(h, r)' # {} /\ Talk(r, v.conv) \in busy'[h])
  <2>1. posted[h][r] > 0
    BY <1>4, <1>7
  <2>2. CASE busy[h] \subseteq busy'[h]
    <3>1. ASSUME NEW d \in Q PROVE Talk(r, d.conv) \in busy'[h]
      <4>1. CASE d \in P
        BY <1>3, <1>7, <2>2, <4>1
      <4>2. CASE ~v.delivered /\ v.conv = d.conv
        BY <1>1, <1>3, <1>7, <2>1, <2>2, <4>2
      <4> QED BY <1>2, <4>1, <4>2
    <3>2. ASSUME ~v.delivered PROVE MarkingNow(h, r)' # {} /\ Talk(r, v.conv) \in busy'[h]
      <4>1. ~w.delivered /\ v.conv = w.conv /\ w.status = "approved"
        BY <1>1, <2>1, <3>2
      <4>2. PICK d \in MarkingNow(h, r) : TRUE
        BY <1>3, <1>7, <4>1
      <4>3. d \in ThreadsOf(h)'
        BY <3>2, <4>1 DEF MarkingNow, Calm, v, w
      <4> QED BY <1>3, <1>7, <2>2, <4>1, <4>3 DEF MarkingNow
    <3> QED BY <3>1, <3>2
  <2>3. CASE ~HalfDelivered(h) /\ row'[h] = row[h] /\ ThreadsOf(h)' = ThreadsOf(h)
    <3>1. \A d \in ThreadsOf(h) : ~(d.at = "marking") /\ ~(d.at = "posting" /\ ~Undelivered(row[h][d.r]))
      BY <2>3 DEF HalfDelivered, ThreadsOf
    <3>2. w.delivered
      BY <1>3, <1>7, <3>1 DEF MarkingNow
    <3>3. v = w /\ Q = P
      BY <2>3 DEF v, w, P, Q, PostingNow
    <3>4. P = {}
      BY <3>1, <3>2 DEF P, PostingNow, w, Undelivered
    <3> QED BY <3>2, <3>3, <3>4
  <2> QED BY <2>2, <2>3 DEF Calm
<1> QED BY <1>3, <1>4, <1>5, <1>6, <1>7 DEF OnePost, v, Q

LEMMA PostKeeps ==
  ASSUME NEW h \in Harnesses, NEW r \in Requests, posted[h] \in [Requests -> Nat],
         SpentOK, spent'.kills = spent.kills, OnePost(h, r), NEW d, PostsNow(h, d)
  PROVE  OnePost(h, r)'
<1> DEFINE w == row[h][r]
           P == PostingNow(h, r)
           Q == PostingNow(h, r)'
<1>1. /\ posted[h][r] <= 1 + spent.kills
      /\ \A x, y \in P : x.conv = y.conv
      /\ \A x \in P : w.delivered \/ w.conv = x.conv
      /\ posted[h][r] > spent.kills =>
           /\ \A x \in P : Talk(r, x.conv) \in busy[h]
           /\ w.delivered \/ (MarkingNow(h, r) # {} /\ Talk(r, w.conv) \in busy[h])
  BY DEF OnePost
<1>2. Q \subseteq P /\ row'[h][r] = w /\ busy[h] \subseteq busy'[h]
  BY DEF PostsNow, PostingNow
<1>3. MarkingNow(h, r) \subseteq MarkingNow(h, r)'
  BY DEF PostsNow, MarkingNow
<1>4. spent.kills \in Nat /\ posted[h][r] \in Nat
  BY DEF SpentOK
<1>5. CASE d.r = r
  <2>1. d \in P /\ Talk(r, d.conv) \notin busy[h] /\ Talk(r, d.conv) \in busy'[h]
    BY <1>5 DEF PostsNow, PostingNow
  <2>2. posted'[h][r] = posted[h][r] + 1
    BY <1>5 DEF PostsNow
  <2>3. MarkingNow(h, r)' # {}
    BY <1>5 DEF PostsNow, MarkingNow
  <2> HIDE DEF P, Q, w
  <2>4. ~(posted[h][r] > spent.kills)
    BY <1>1, <2>1
  <2>5. posted'[h][r] <= 1 + spent.kills
    BY <1>4, <2>2, <2>4
  <2>6. \A x \in Q : Talk(r, x.conv) \in busy'[h]
    BY <1>1, <1>2, <2>1
  <2>7. w.delivered \/ Talk(r, w.conv) \in busy'[h]
    BY <1>1, <2>1
  <2> QED BY <1>1, <1>2, <2>3, <2>5, <2>6, <2>7 DEF OnePost, Q
<1>6. CASE d.r # r
  <2>1. posted'[h][r] = posted[h][r]
    BY <1>6 DEF PostsNow
  <2> HIDE DEF P, Q, w
  <2> QED BY <1>1, <1>2, <1>3, <2>1 DEF OnePost, Q
<1> QED BY <1>5, <1>6

\* A thread of a harness goes from one record to another while the other threads stay.
Goes(k, d, x) ==
  /\ d \in ThreadsOf(k) /\ x \in ThreadsOf(k)'
  /\ ThreadsOf(k)' \subseteq ThreadsOf(k) \cup {x} /\ ThreadsOf(k) \subseteq ThreadsOf(k)' \cup {d}
  /\ \A h \in Harnesses \ {k} : ThreadsOf(h)' = ThreadsOf(h)

LEMMA CallGoes ==
  ASSUME ThreadsOK, NEW c \in Calls, NEW x, call' = [call EXCEPT ![c] = x], deliver' = deliver
  PROVE  Goes(At[c], call[c], x)
BY DEF Goes, ThreadsOf, ThreadsOK

LEMMA DeliveryGoes ==
  ASSUME ThreadsOK, NEW k \in Harnesses, NEW x, deliver' = [deliver EXCEPT ![k] = x], call' = call
  PROVE  Goes(k, deliver[k], x)
BY DEF Goes, ThreadsOf, ThreadsOK

LEMMA SameThreads ==
  ASSUME call' = call, deliver' = deliver
  PROVE  \A h \in Harnesses : ThreadsOf(h)' = ThreadsOf(h)
BY DEF ThreadsOf

LEMMA StillCalm ==
  ASSUME posted' = posted, call' = call, deliver' = deliver, \A h \in Harnesses : busy[h] \subseteq busy'[h]
  PROVE  \A h \in Harnesses : Calm(h)
BY SameThreads DEF Calm

LEMMA GoesCalmly ==
  ASSUME NEW k \in Harnesses, NEW d, NEW x, Goes(k, d, x), posted' = posted, busy' = busy,
         x.at = "posting" => ~row'[k][x.r].delivered /\ row'[k][x.r].conv = x.conv,
         d.at = "marking" => row'[k][d.r].delivered \/ row[k][d.r].status = "none"
  PROVE  \A h \in Harnesses : Calm(h)
<1>1. Calm(k)
  BY DEF Goes, Calm
<1>2. \A h \in Harnesses \ {k} : Calm(h)
  BY DEF Goes, Calm
<1> QED BY <1>1, <1>2

\* SendToArch posts what a thread has at hand and finds its conversation free.
LEMMA GoesPosting ==
  ASSUME ArchOK, NEW k \in Harnesses, NEW d \in Held, NEW x, Goes(k, d, x), d.at = "posting",
         x.at = "marking", x.r = d.r, Posts(k, d), row' = row
  PROVE  PostsNow(k, d) /\ \A h \in Harnesses \ {k} : Calm(h)
<1>1. d.r \in Requests /\ Conversation(d) = Talk(d.r, d.conv)
  BY DEF Held, Conversation, Talk
<1>2. /\ Talk(d.r, d.conv) \notin busy[k] /\ busy' = [busy EXCEPT ![k] = busy[k] \cup {Talk(d.r, d.conv)}]
      /\ posted' = [posted EXCEPT ![k] = [posted[k] EXCEPT ![d.r] = posted[k][d.r] + 1]]
  BY <1>1 DEF Posts
<1>3. PostsNow(k, d)
  BY <1>1, <1>2 DEF PostsNow, Goes, ArchOK
<1>4. \A h \in Harnesses \ {k} : Calm(h)
  BY <1>2 DEF Calm, Goes, ArchOK
<1> QED BY <1>3, <1>4

Effects == \A h \in Harnesses : Calm(h) \/ \E d : PostsNow(h, d)

LEMMA CallEffects ==
  ASSUME NothingTrimmed, IInv, NEW c \in Calls,
         CallSteps(c) \/ (\E r \in Requests : Approve(c, r) \/ Dismiss(c, r) \/ Drive(c, r))
  PROVE  Effects
<1> DEFINE k == At[c]
           d == call[c]
<1>0. ThreadsOK /\ ArchOK /\ RowsOK /\ k \in Harnesses /\ d \in Held /\ clock + 1 \in Nat
  BY RequestsAssumption DEF IInv, ThreadsOK, RowsOK
\* Steps that neither begin a post nor make or lose a mark.
<1>1. ASSUME NEW x, call' = [call EXCEPT ![c] = x], x.at # "posting", d.at # "marking",
             deliver' = deliver, posted' = posted, busy' = busy
      PROVE  Effects
  <2>1. Goes(k, d, x)
    BY <1>0, <1>1, CallGoes
  <2> HIDE DEF k, d
  <2>2. \A h \in Harnesses : Calm(h)
    BY <1>0, <1>1, <2>1, GoesCalmly
  <2> QED BY <2>2 DEF Effects
<1>2. CASE CallPosts(c)
  <2>1. CASE Posts(k, d) /\ call' = [call EXCEPT ![c].at = "marking"]
    <3>1. PICK x : x = [d EXCEPT !.at = "marking"]
      OBVIOUS
    <3>2. x.at = "marking" /\ x.r = d.r
      BY <1>0, <3>1 DEF Held, Threads
    <3>3. call' = [call EXCEPT ![c] = x] /\ deliver' = deliver /\ row' = row /\ d.at = "posting"
      BY <1>0, <1>2, <2>1, <3>1 DEF CallPosts, ThreadsOK
    <3>4. Goes(k, d, x)
      BY <1>0, <3>3, CallGoes
    <3> HIDE DEF k, d
    <3>5. PostsNow(k, d) /\ \A h \in Harnesses \ {k} : Calm(h)
      BY <1>0, <2>1, <3>2, <3>3, <3>4, GoesPosting
    <3> QED BY <3>5 DEF Effects
  <2>2. CASE Waits(k, d) /\ call' = [call EXCEPT ![c] = ToPush]
    BY <1>1, <1>2, <2>2, IdleAt DEF CallPosts, Waits
  <2> QED BY <1>2, <2>1, <2>2 DEF CallPosts
<1>3. CASE CallMarks(c)
  <2>1. /\ d.at = "marking" /\ call' = [call EXCEPT ![c] = ToPush] /\ deliver' = deliver
        /\ posted' = posted /\ busy' = busy /\ d.r \in Requests
    BY <1>0, <1>3 DEF CallMarks, Held
  <2>2. PICK w \in Rows : w = row[k][d.r]
    BY <1>0, <2>1 DEF RowsOK, SomeRows
  <2>3. PICK goal \in BOOLEAN : goal = (d.conv = "goal")
    OBVIOUS
  <2>4. row'[k][d.r] = Delivered(w, goal)
    BY <1>0, <1>3, <2>1, <2>2, <2>3 DEF CallMarks, RowsOK, SomeRows
  <2>5. row'[k][d.r].delivered \/ row[k][d.r].status = "none"
    BY <2>2, <2>4, RowOperators
  <2>6. Goes(k, d, ToPush)
    BY <1>0, <2>1, CallGoes
  <2> HIDE DEF k, d
  <2>7. \A h \in Harnesses : Calm(h)
    BY <1>0, <2>1, <2>5, <2>6, IdleAt, GoesCalmly
  <2> QED BY <2>7 DEF Effects
<1>4. CASE CallPushes(c) \/ DriveChecks(c) \/ DriveStarts(c) \/ DriveDecides(c)
  <2>1. \/ call' = [call EXCEPT ![c] = IdleCall] \/ call' = [call EXCEPT ![c] = [d EXCEPT !.at = "starting"]]
        \/ call' = [call EXCEPT ![c] = [d EXCEPT !.at = "deciding"]]
        \/ call' = [call EXCEPT ![c] = [d EXCEPT !.at = "marking"]]
    <3>1. CASE CallPushes(c)
      BY <3>1 DEF CallPushes
    <3>2. CASE DriveChecks(c)
      BY <1>0, <3>2 DEF DriveChecks, ThreadsOK
    <3>3. CASE DriveStarts(c)
      BY <1>0, <3>3 DEF DriveStarts, ThreadsOK
    <3>4. CASE DriveDecides(c)
      BY <1>0, <3>4 DEF DriveDecides, ThreadsOK
    <3> QED BY <1>4, <3>1, <3>2, <3>3, <3>4
  <2>2. \A a \in {"starting", "deciding", "marking"} : [d EXCEPT !.at = a].at # "posting"
    BY <1>0 DEF Held, Threads
  <2>3. d.at # "marking" /\ deliver' = deliver /\ posted' = posted /\ busy' = busy
    BY <1>4 DEF CallPushes, DriveChecks, DriveStarts, DriveDecides
  <2> QED BY <1>1, <2>1, <2>2, <2>3, IdleAt
<1>5. ASSUME NEW r \in Requests, Dismiss(c, r) \/ Drive(c, r) PROVE Effects
  <2>1. PICK x : x.at # "posting" /\ call' = [call EXCEPT ![c] = x]
    BY <1>5, IdleAt DEF Dismiss, Drive
  <2>2. d.at # "marking" /\ deliver' = deliver /\ posted' = posted /\ busy' = busy
    BY <1>5 DEF Dismiss, Drive
  <2> QED BY <1>1, <2>1, <2>2
<1>6. ASSUME NEW r \in Requests, Approve(c, r) PROVE Effects
  <2>1. PICK new : new = Decide(k, r, "approved", "arch", clock + 1)
    OBVIOUS
  <2>2. /\ row'[k] = new /\ d.at = "idle" /\ deliver' = deliver /\ posted' = posted /\ busy' = busy
        /\ call' = [call EXCEPT ![c] = IF new[r].delivered THEN ToPush
                                        ELSE [IdleCall EXCEPT !.at = "posting", !.r = r, !.conv = new[r].conv]]
    BY <1>0, <1>6, <2>1 DEF Approve, RowsOK
  <2>3. CASE new[r].delivered
    BY <1>1, <2>2, <2>3, IdleAt
  <2>4. CASE ~new[r].delivered
    <3>1. PICK x : x = [IdleCall EXCEPT !.at = "posting", !.r = r, !.conv = new[r].conv]
      OBVIOUS
    <3>2. x.r = r /\ x.conv = new[r].conv
      BY <3>1 DEF IdleCall
    <3>3. Goes(k, d, x)
      BY <1>0, <2>2, <2>4, <3>1, CallGoes
    <3> HIDE DEF k, d
    <3>4. \A h \in Harnesses : Calm(h)
      BY <1>0, <2>2, <2>4, <3>2, <3>3, GoesCalmly
    <3> QED BY <3>4 DEF Effects
  <2> QED BY <2>3, <2>4
<1> QED BY <1>2, <1>3, <1>4, <1>5, <1>6 DEF CallSteps

LEMMA DeliverEffects ==
  ASSUME IInv, NEW k \in Harnesses, DeliverSteps(k)
  PROVE  Effects
<1> DEFINE d == deliver[k]
<1>0. ThreadsOK /\ ArchOK /\ RowsOK /\ d \in Held
  BY DEF IInv, ThreadsOK
<1>1. CASE DeliverPicks(k)
  <2>1. PICK r \in Oldest(k, ApprovedUndelivered(k)) :
          deliver' = [deliver EXCEPT ![k] = [IdleCall EXCEPT !.at = "posting", !.r = r, !.conv = row[k][r].conv]]
    BY <1>1 DEF DeliverPicks
  <2>2. ~row[k][r].delivered
    BY DEF Oldest, ApprovedUndelivered, Undelivered
  <2>3. PICK x : x = [IdleCall EXCEPT !.at = "posting", !.r = r, !.conv = row[k][r].conv]
    OBVIOUS
  <2>4. x.r = r /\ x.conv = row[k][r].conv
    BY <2>3 DEF IdleCall
  <2>5. d.at = "idle" /\ call' = call /\ posted' = posted /\ busy' = busy /\ row' = row
    BY <1>1 DEF DeliverPicks
  <2>6. Goes(k, d, x)
    BY <1>0, <2>1, <2>3, <2>5, DeliveryGoes
  <2> HIDE DEF d
  <2>7. \A h \in Harnesses : Calm(h)
    BY <2>2, <2>4, <2>5, <2>6, GoesCalmly
  <2> QED BY <2>7 DEF Effects
<1>2. CASE DeliverPosts(k)
  <2>1. PICK x : x = [d EXCEPT !.at = "marking"]
    OBVIOUS
  <2>2. x.at = "marking" /\ x.r = d.r
    BY <1>0, <2>1 DEF Held, Threads
  <2>3. /\ deliver' = [deliver EXCEPT ![k] = x] /\ call' = call /\ row' = row
        /\ d.at = "posting" /\ Posts(k, d)
    BY <1>0, <1>2, <2>1 DEF DeliverPosts, ThreadsOK
  <2>4. Goes(k, d, x)
    BY <1>0, <2>3, DeliveryGoes
  <2> HIDE DEF d
  <2>5. PostsNow(k, d) /\ \A h \in Harnesses \ {k} : Calm(h)
    BY <1>0, <2>2, <2>3, <2>4, GoesPosting
  <2> QED BY <2>5 DEF Effects
<1>3. CASE DeliverWaits(k) \/ DeliverMarks(k)
  <2>1. deliver' = [deliver EXCEPT ![k] = IdleCall] /\ call' = call /\ posted' = posted /\ busy' = busy
    BY <1>3 DEF DeliverWaits, DeliverMarks
  <2>2. Goes(k, d, IdleCall)
    BY <1>0, <2>1, DeliveryGoes
  <2>3. d.at = "marking" => row'[k][d.r].delivered \/ row[k][d.r].status = "none"
    <3>1. SUFFICES ASSUME d.at = "marking"
                   PROVE  row'[k][d.r].delivered \/ row[k][d.r].status = "none"
      OBVIOUS
    <3>2. row' = [row EXCEPT ![k][d.r] = Delivered(@, FALSE)] /\ d.r \in Requests
      BY <1>0, <1>3, <3>1 DEF DeliverWaits, DeliverMarks, Held
    <3>3. PICK w \in Rows : w = row[k][d.r]
      BY <1>0, <3>2 DEF RowsOK, SomeRows
    <3>4. row'[k][d.r] = Delivered(w, FALSE)
      BY <1>0, <3>2, <3>3 DEF RowsOK, SomeRows
    <3>5. \A goal \in BOOLEAN : w.status # "none" => Delivered(w, goal).delivered
      BY RowOperators
    <3> QED BY <3>3, <3>4, <3>5
  <2> HIDE DEF d
  <2>4. \A h \in Harnesses : Calm(h)
    BY <2>1, <2>2, <2>3, IdleAt, GoesCalmly
  <2> QED BY <2>4 DEF Effects
<1> QED BY <1>1, <1>2, <1>3 DEF DeliverSteps

\* A turn ends only when nothing is half delivered.
LEMMA TurnEffects ==
  ASSUME LongTurns, ArchOK, NEW k \in Harnesses, NEW t, TurnEnds(k, t)
  PROVE  Effects
<1>1. ~HalfDelivered(k) /\ busy' = [busy EXCEPT ![k] = @ \ {t}] /\ posted' = posted /\ row' = row
      /\ call' = call /\ deliver' = deliver
  BY DEF TurnEnds
<1>2. \A h \in Harnesses : ThreadsOf(h)' = ThreadsOf(h)
  BY <1>1, SameThreads
<1>3. \A h \in Harnesses : h # k => busy'[h] = busy[h]
  BY <1>1 DEF ArchOK
<1>4. \A h \in Harnesses : Calm(h)
  BY <1>1, <1>2, <1>3 DEF Calm
<1> QED BY <1>4 DEF Effects

\* What is spent grows, the kills only when one is killed.
LEMMA SpentStep ==
  ASSUME SpentOK, [Next]_vars
  PROVE  /\ SpentOK'
         /\ \/ spent'.kills = spent.kills
            \/ spent'.kills = spent.kills + 1 /\ \E h \in Harnesses : Kill(h)
<1>1. CASE \E h \in Harnesses : GateCloses(h) \/ OptInFlips(h)
  BY <1>1 DEF GateCloses, OptInFlips, SpentOK
<1>2. CASE \E h \in Harnesses : Kill(h)
  <2>1. spent' = [spent EXCEPT !.kills = spent.kills + 1]
    BY <1>2 DEF Kill
  <2> QED BY <1>2, <2>1 DEF SpentOK
<1>3. CASE spent' = spent
  BY <1>3 DEF SpentOK
<1>4. CASE \E h \in Harnesses, r \in Requests : PushAnswered(h, r)
  <2> PICK h \in Harnesses, r \in Requests : PushAnswered(h, r)
    BY <1>4
  <2>1. spent' = [spent EXCEPT !.refused = IF accept[Home[r]] THEN @ ELSE @ \cup {<<h, r>>}]
    BY DEF PushAnswered
  <2> QED BY <2>1 DEF SpentOK
<1>5. \/ spent' = spent
      \/ \E h \in Harnesses : GateCloses(h) \/ OptInFlips(h) \/ Kill(h)
      \/ \E h \in Harnesses, r \in Requests : PushAnswered(h, r)
  BY DEF Next, vars, Record, Approve, Dismiss, Drive, CallSteps, CallPosts, CallMarks, CallPushes, DriveChecks,
         DriveStarts, DriveDecides, DeliverSteps, DeliverPicks, DeliverPosts, DeliverWaits, DeliverMarks,
         SyncSteps, PullBegins, MergePulled, PullEnds, Answered, PullAnswered, Failed, PullFails,
         PushFails, OtherTurn, TurnEnds, GoalEnds, GateOpens
<1> QED BY <1>1, <1>2, <1>3, <1>4, <1>5

LEMMA PostsOnceStep ==
  ASSUME NothingTrimmed, LongTurns, IInv, [Next]_vars, PostsAreApproved, PostsOnce
  PROVE  PostsOnce'
<1>1. SpentOK /\ Steady /\ ArchOK /\ ThreadsOK /\ spent.kills \in Nat
  BY StepInv DEF PostsOnce, IInv, SpentOK
<1>2. SpentOK'
  BY <1>1, SpentStep
<1>3. CASE \E h \in Harnesses : Kill(h)
  <2>1. PICK k \in Harnesses : Kill(k)
    BY <1>3
  <2>2. spent'.kills = spent.kills + 1 /\ posted' = posted /\ row' = row
    BY <1>1, <2>1 DEF Kill, SpentOK
  <2>3. \A h \in Harnesses, r \in Requests : PostingNow(h, r)' \subseteq PostingNow(h, r)
    <3>1. \A h \in Harnesses : ThreadsOf(h)' \subseteq ThreadsOf(h) \cup {IdleCall}
      BY <1>1, <2>1 DEF Kill, ThreadsOf, ThreadsOK
    <3> QED BY <3>1, IdleAt DEF PostingNow
  <2>4. ASSUME NEW h \in Harnesses, NEW r \in Requests PROVE OnePost(h, r)'
    <3>1. posted[h][r] \in Nat /\ posted[h][r] <= 1 + spent.kills
      BY <1>1 DEF ArchOK, PostsOnce, OnePost
    <3>2. ~(posted'[h][r] > spent'.kills) /\ posted'[h][r] <= 1 + spent'.kills
      BY <1>1, <2>2, <3>1
    <3>3. /\ \A d, e \in PostingNow(h, r)' : d.conv = e.conv
          /\ \A d \in PostingNow(h, r)' : row'[h][r].delivered \/ row'[h][r].conv = d.conv
      BY <2>2, <2>3 DEF PostsOnce, OnePost
    <3> QED BY <3>2, <3>3 DEF OnePost
  <2> QED BY <1>2, <2>4 DEF PostsOnce
<1>4. CASE ~\E h \in Harnesses : Kill(h)
  <2>1. spent'.kills = spent.kills
    BY <1>1, <1>4, SpentStep
  <2>2. Effects
    <3>1. CASE \E r \in Requests : Record(r)
      BY <3>1, StillCalm DEF Record, Effects
    <3>2. CASE \E c \in Calls, r \in Requests : Approve(c, r) \/ Dismiss(c, r) \/ Drive(c, r)
      BY <3>2, CallEffects
    <3>3. CASE \E c \in Calls : CallSteps(c)
      BY <3>3, CallEffects
    <3>4. CASE \E h \in Harnesses : DeliverSteps(h)
      BY <3>4, DeliverEffects
    <3>5. CASE \E h \in Harnesses : SyncSteps(h)
      <4>1. posted' = posted /\ call' = call /\ deliver' = deliver /\ busy' = busy
        BY <3>5 DEF SyncSteps, PullBegins, MergePulled, PullEnds, Answered, PullAnswered, Failed, PullFails,
                    PushAnswered, PushFails, Pushes
      <4> QED BY <4>1, StillCalm DEF Effects
    <3>6. CASE \E h \in Harnesses : OtherTurn(h)
      <4>1. PICK k \in Harnesses : OtherTurn(k)
        BY <3>6
      <4>2. \A h \in Harnesses : busy[h] \subseteq busy'[h]
        BY <1>1, <4>1 DEF OtherTurn, ArchOK
      <4>3. posted' = posted /\ call' = call /\ deliver' = deliver
        BY <4>1 DEF OtherTurn
      <4> QED BY <4>2, <4>3, StillCalm DEF Effects
    <3>7. CASE \E h \in Harnesses : \E k \in busy[h] : TurnEnds(h, k)
      BY <1>1, <3>7, TurnEffects
    <3>8. CASE \E h \in Harnesses :
                 (\E r \in Requests : GoalEnds(h, r)) \/ GateCloses(h) \/ GateOpens(h) \/ OptInFlips(h)
      <4>1. posted' = posted /\ call' = call /\ deliver' = deliver /\ busy' = busy
        BY <3>8 DEF GoalEnds, GateCloses, GateOpens, OptInFlips
      <4> QED BY <4>1, StillCalm DEF Effects
    <3>9. CASE UNCHANGED vars
      BY <3>9, StillCalm DEF vars, Effects
    <3> QED BY <1>4, <3>1, <3>2, <3>3, <3>4, <3>5, <3>6, <3>7, <3>8, <3>9 DEF Next
  <2>3. ASSUME NEW h \in Harnesses, NEW r \in Requests PROVE OnePost(h, r)'
    <3>1. OnePost(h, r) /\ posted[h] \in [Requests -> Nat] /\ posted[h][r] \in Nat
      BY <1>1 DEF PostsOnce, ArchOK
    <3>2. CASE Calm(h)
      BY <1>1, <2>1, <3>1, <3>2, CalmKeeps
    <3>3. CASE \E d : PostsNow(h, d)
      BY <1>1, <2>1, <3>1, <3>3, PostKeeps
    <3> QED BY <2>2, <3>2, <3>3 DEF Effects
  <2> QED BY <1>2, <2>3 DEF PostsOnce
<1> QED BY <1>3, <1>4

\* However many approvals overlap, with the engine's tick between them, a harness posts a request
\* once, and once more for every kill: as long as the store trims no decision and a turn outlasts
\* the statements from a post to its mark (ApproveAgentRequest, DeliverApprovedRequests, TryDeliver).
THEOREM RequestsArePostedOnce ==
  ASSUME NothingTrimmed, LongTurns
  PROVE  Spec => []PostedOnce
<1>1. Init => PostsAreApproved /\ PostsOnce
  <2> SUFFICES ASSUME Init PROVE PostsAreApproved /\ PostsOnce
    OBVIOUS
  <2>1. PostsAreApproved
    BY IdleAt DEF Init, PostsAreApproved, PostingAt
  <2>2. \A h \in Harnesses, r \in Requests : posted[h][r] = 0 /\ PostingNow(h, r) = {}
    BY IdleAt, RequestsAssumption DEF Init, PostingNow, ThreadsOf
  <2>3. spent.kills = 0 /\ SpentOK
    BY DEF Init, SpentOK
  <2> QED BY <2>1, <2>2, <2>3 DEF PostsOnce, OnePost
<1>2. PostsOnce => PostedOnce
  BY DEF PostsOnce, OnePost, PostedOnce
<1>3. IInv /\ PostsAreApproved /\ PostsOnce /\ [Next]_vars => PostsAreApproved' /\ PostsOnce'
  BY PostsStep, PostsOnceStep
<1> QED BY <1>1, <1>2, <1>3, Invariance, PTL DEF Spec
=============================================================================
