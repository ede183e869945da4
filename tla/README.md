# Claude Web: TLA+ models, model checking and proofs

Claude Web (the *Harness*) is a C# server on a workstation that drives agent command lines
(`claude`, `codex`) in git checkouts and shows them to browsers. What makes it hard is time:
turns run detached from the page that started them, pages lose and regain their connection, an
engine sends turns by itself every ten seconds, several agents share one working tree, and the
process is replaced under all of it. The modules here model that part of the program; they are
written from the code under `src/`, and the lines a definition stands for are in `PROJECT.json`
("map").

Contents: [inventory](#inventory), [plan](#plan), [the modules](#the-modules-and-the-code),
[the runs](#the-runs), [disagreements](#where-the-code-disagrees-with-its-own-words),
[fairness](#fairness), [proofs](#proofs), [limits](#what-is-not-modelled).

## Inventory

Paths are relative to `src/ClaudeWeb.App` unless they begin with `src/`.

### The core

**Run sessions** (`Services/Chat/RunSessionService.cs`). One *slot* per (repository, lane). State:
the registry's current `RunSession` per slot; per session its status (running, done, stopped,
error), sequence count, replay buffer (10 000 events, trimmed 1 000 at a time), subscribed
channels, stop flag and cancellation. Operations: `TryBeginRun`, `EmitAsync`, `Complete`,
`RequestStop`/`ChatStop`, `StopAll` (shutdown), `StreamAsync` (replay, then live). Interacts with
the turn runner (which emits), the attachments (which read), and the subscribers of
`RunCompleted`. Hard: events emitted while a reader joins, trims under readers, Stop racing the
end, the next run starting as the last one completes. Correct when: one turn per slot; every
reader gets the log without hole or repetition, to its end; the terminal status says what
happened and is final; everybody is released.

**The turn runner** (`CliRunnerService.cs`, `ClaudeCliAdapter.cs`, `CodexCliAdapter.cs`). One turn:
a pre-turn browser check, the process, its lines translated to events, exit, cancellation, crash.
Correct when: each of these ends in exactly one completion, and a Stop ends the turn.

**The chat page** (`src/client/src/context/ChatContext.jsx`, `src/client/src/api/chatStreamHub.js`).
State per conversation: the one reader that can be aborted (`abortRefs`), the dedup watermark, the
streaming flag, what is shown. Operations: send, receive, reattach, stop, new conversation, the
5-second poll that finds runs started elsewhere, transcript loads. Talks to the slot over HTTP and
one shared event stream, or, when that is not to be had, over a *legacy* loop of up to five requests.
Hard: every await (an upload, a transcript, a pause between requests) is a place where another of
these runs; connections drop anywhere; the Harness is replaced. Correct when: one reader per conversation; nothing is
shown twice or dropped; a sender reads its own answer; the composer gets unlocked; a run started
by the backend shows up.

**Goal conversations** (`Services/Agents/RepoSubagentService.cs`, `RepoSubagentStore.cs`). A record
per conversation (state, held flag, step plan, queued messages, summary, delivered flag), on disk.
Operations: `Start`, `Stop`, `Continue`, `Message`, follow-up turns, and, called by the engine,
`Reconcile`, `OnResolved`, `DecoratePrompt`, `DeliverSummaries`. Shares the checkout with the
parent agent: writers take turns. Hard: record, loop slot and run slot are three stores with three
locks and no transaction; kills fall between any two writes; the Operator answers while the engine
decides. Correct when: queued messages travel once; every ending is reported once; nobody is
forgotten; one writer at a time.

**The autopilot engine and the goal loop** (`Services/Autopilot/AutopilotService.cs`,
`LoopConfigStore.cs`, `GoalLoop.cs`, `ILoop.cs`). A single-threaded tick; per key one loop record
(active, status, phase, iterations, armed and sent times), on disk; in memory the no-reply guards.
The tick looks at the last reply and the run's status and stops, waits or sends. Hard: every
decision is made on copies read earlier; replies may be older than the arming or the send. Correct
when: the cap bounds the sends, a question to the human holds the loop, done means verified, an
active loop goes on.

**Notes, the task graph and the Ideas hub** (`Services/Notes`, `Services/TaskGraph`). Two stores per
Harness, ideas and tasks with their boxes and dependencies, each with stamps and tombstones, on
disk; one Harness is the hub, the others pull, merge and push with the revision they started from.
Operations: every edit, `GET` and `POST` of the hub, a peer's one-second tick. Hard: edits fall
between a snapshot and its answer; an idea and its task are written one after the other; requests
and answers are lost; two Harnesses add dependencies that together are a circle. Correct when: no
merge brings an older copy back, dependencies stay without a circle, a peer that thinks itself clean
has nothing the hub has not, and the boards become the same.

**Recurring tasks** (`Services/Recurring`). Cards with a schedule and an anchor, a run log, on disk;
an engine that decides every ten seconds and borrows the agent's one loop slot for a run. Operations:
the tick, `RunNow`, `StopRun`, create, pause, resume, edit, delete. Hard: the operator, the loop
engine, the gate and a fleet peer all move between what the engine reads and what it writes. Correct
when: every occurrence is on record, once; a card that keeps failing pauses; the slot is given back
and never over somebody else's loop; nothing due waits for ever.

**Agent requests** (`Services/Agents/AgentRequestStore.cs`, `Services/Arch/ArchAgentService.Requests.cs`). Rows that
repo agents record and operators approve or dismiss, on the agent's Harness and on the hub that
manages it; the engine posts approved ones to the arch. Operations: record, approve, dismiss, drive,
delivery, pull, merge, push of decisions. Hard: read and act are two steps for every actor, two
operators decide at once, calls are lost, kills fall between a post and its mark. Correct when: a
decision is final, takes effect, and is posted once; what was dismissed was never posted.

### The rest, by how much of it is a protocol

| component | state and operations | hard part | what makes it correct |
|---|---|---|---|
| Chrome gate (`ChromeGateService.cs`) and the checkout starters in `ChatController.cs` | one machine-wide browser turn; acquire, release, wait | released by whoever calls; exceptions between claim and task | at most one browser turn; none leaks |
| Session lineage (`MainConversationStore.cs`, `Services/Dock`) | which conversation a lane, a tab and a loop continue | noted after the slot is free | a turn continues the conversation it was meant for |
| Other loop kinds and arming (`QueueLoop.cs`, `LoopArmer.cs`, `AutopilotConfigStore.cs`, `FlagsStore.cs`) | queues, recipes, suggestions, borrowed slots, drafts | a borrowed slot is given back over a new arming | what was armed by a person survives |
| Arch agent, Policeman (`Services/Arch`, `Services/Policeman`) | goals, claims, requests across the fleet | as goal conversations, across machines | one owner per goal |
| Collector and event feed (`Services/Events`) | per-source watermark, in memory; appended copies | a producer or the collector restarts, a source is stopped while its poll is out | every event once, in order |
| Structured asks (`Services/StructuredAsk`) | jobs and cache | two jobs for one key | one job per key |
| Deploy and swap (`Services/Deploy`, `src/swap.ps1`, `src/rollback.ps1`, `src/keep.ps1`) | old and new process, ports, directories | a crash between two steps | one Harness is up; rollback possible |
| Authentication, IP gate, accounts | sessions, allowed addresses | decision tables | nobody passes unmatched |
| Multiplexer, transcripts, history | file parsing and caches | data, little protocol | – |
| Hub files, git, files, terminal, screen, remote access, monitoring, settings, hosting, views, labs, installer | wrappers and I/O | – | – |

`PROJECT.json` lists every component with its status and the hazards with their lines.

## Plan

Done, in this order: each step the modules, then the runs, then the proofs.

1. **Run slot**: `RunSession`, abstract specification `RunFeed`, `MC_RunSession`; everything else
   starts turns through it. Proved: `RunSessionProofs`, `RunOutcomeProofs`, `RunFeedProofs`.
2. **Page**: `ChatPage`, which composes the reader's protocol with `RunSession`. Proved:
   `ChatPageProofs`.
3. **Goal conversations and engine**: `GoalConversations` over `LoopSlot` and `GoalRecord`.
   Proved: `GoalConversationsProofs`.
4. **Boards**: `BoardMerge`, `IdeasSync`, `MC_IdeasSync`. Proved: `IdeasSyncProofs`.
5. **Recurring tasks**: `Recurrence`, `RecurringTasks`, `MC_RecurringTasks`. Proved:
   `RecurringTasksProofs`.
6. **Agent requests**: `AgentRequests`, `MC_AgentRequests`. Proved: `AgentRequestsProofs`.

Left, in this order:

7. **Checkout starters and Chrome gate**: every caller that claims a slot (chat, engine, recurring,
   requests) with the gate, its releases and the failing paths. Abstract specification: a lock
   with an owner.
8. **Collector and the arch's wake**: producers, the collector's watermarks, and the persisted
   watermark of an arch loop that reads the collector's sequence.
9. **Loop slot, the rest**: borrow and restore by hand, `RecordSend` after a stop, the other kinds'
   decision ladders.
10. **Session lineage**: completion callback, `NoteSession` and the next claim.
11. **Arch claims, deploy swap**, each a small protocol.

No module that is proved about uses a RECURSIVE operator.

## The modules and the code

### RunSession

One slot, in the order of its life. `sess` is the sequence of all session objects the slot ever
had, because an attachment can keep reading an object the registry has already replaced; `slot` is
the index of the registry's one. An event is its sequence number; what it says matters only as far
as a terminal "done" and an "error" are remembered by the session.

| action | code |
|---|---|
| `TryBeginRun` | `TryBeginRun`: refuse while the slot's run is running; continue the predecessor's count |
| `Preflight` | the browser readiness check of `ChatController` before the turn, its notice included |
| `CliLine`, `CliExit`, `CliCancelled`, `CliCrash` | the read loop of `RunAsync`, its exit code, its two catch blocks |
| `Emit`, `Buffered` | `EmitAsync` under the session's lock, with the trim, and the writes to the channels |
| `Complete`, `NotifyCompleted` | `Complete`: the transition under the lock, the callback after it |
| `RecordStop`, `FireCancel` | the two halves of `RequestStop`/`ChatStop`, so that everything can fall between |
| `StopAll`, `Restart` | `ApplicationStopping`, and the process gone with everything that is in memory |
| `Resolve`, `Attach`, `Deliver`, `StreamEnds`, `Detach` | the stream endpoint and `StreamAsync`; resolving and subscribing are separate steps |

A locked region is one action and what the code does outside a lock is an action of its own.

### RunFeed

What a detached run promises, without buffers, channels and locks: a log that grows and is closed;
a reader that joined at some point reads on one event at a time and is told the end exactly when
the closed log is read to its end, and a reader that stays is served. `MC_RunSession` gives the
mapping: the log of run *r* is open while it is running, a reader is on once `StreamAsync` took its
snapshot. The run `run_feed` checks `ServesTheFeed == Feed!Spec`, fairness included.

### ChatPage

One conversation of a page on top of `RunSession`. A connection is an attachment of the slot, and
`reader` says at which await the coroutine behind it is; `sending` says whether that coroutine is a
`sendTo` or an `attachToRun`. `page.abortRef` is the registered reader (`abortRefs`), `page.mark` the
watermark, `page.asked` and `page.since` how many runs there were at the last prompt, and at the last
prompt or reset.

| `reader[a]` | the await | actions |
|---|---|---|
| `"uploading"` | `apiUpload` before a prompt with an attachment | `Upload`, then `Uploaded` or `UploadFails` |
| `"posting"` | the answer to the POST | `Send` or `Uploaded`, then `PostAccepted`, `PostRefused` (409) or `PostLost` |
| `"post"` | the events of the POST's response | `Open`, `Receive`, `Told`, `ConnectionLost` |
| `"hub"` | a subscription of the shared connection | `HubResolve`, `NoRun`, `Open`, `Receive`, `Told`, `ConnectionLost`, `HubFails` |
| `"asking"`, `"legacy"` | a request of the legacy loop, its response | `LegacyResolve`, `NoRun`, `Open`, `Receive`, `Told`, `AttemptFails` |
| `"asleep"` | the two seconds between two attempts | `Wakes` |

The poll and its answer are `Poll` and `Reconcile`, a transcript load ends in `Loaded`. `StreamRun` and
`Attempt` are what `streamRun` does up to its next await, `Leave` is what the `finally` blocks and
`finishStream` do when a coroutine ends: a `sendTo` deletes whatever entry is in `abortRefs`, a
`streamRun` its own only, and either clears the streaming flag. What the page cannot tell apart (why
a run failed, what a line says) is reduced to one kind of line, one exit.

Two of these awaits let a second reader in. `sendTo` does not look again after its upload, so it
overwrites the entry of a reader that the poll attached meanwhile. And between two attempts of the
legacy loop nobody is registered, so the poll attaches beside the reader that sleeps. What follows:

- the reader whose entry was overwritten can no longer be aborted, by Stop or by a reset;
- when the POST is refused, its `finally` clears the flag and deletes the entry while the other
  reader lives, and the next poll adds a third;
- the end of either reader unlocks the composer under the other;
- readers share one watermark: when a later run raises it before the tail of an earlier run was
  delivered, that tail is dropped unseen. This takes no replacement of the Harness.

`Guarded` says that neither has happened: no prompt waited for an upload, and the shared connection
still serves. Under it the reader guard is exact (the second part of `OneReader`), and
`OnlyRepeatsAreSkipped` and `WholeRunShown` hold without exception while the Harness lives. What is
left without it the properties say as well: an entry in `abortRefs` always names a live reader, the
dedup drops only what belongs to a run the conversation has left behind (`MayBeLost`) or what the
replay buffer has lost, and a run that was read to its end is whole unless a later one is shown, or it
began before the last prompt or reset. `ChatUpload.cfg` (the run `chat_upload`) shows the first gap; with
`MaxUploads = 0` and `HubMayFail = TRUE` the same configuration shows the second.

### LoopSlot and GoalRecord

Pure operators on one record each, for the loop store and the conversation store: every operation
of these stores holds the store's lock and rewrites its file before returning, so an operator is
one atomic, durable step. `armedAt` counts armings; `LastSentAt` is kept as the two comparisons
the engine makes with it. The step plan is one fact, whether it waits on the human.

### GoalConversations

One checkout with its conversations. A request thread (`call`) and the engine (`eng`) hold what
they read in their own state and act on it later, because no store locks another. Each handler is
a chain of actions, one per store access:

| handler | actions |
|---|---|
| `Start`, `Continue` | `Start`/`Continue` (look at cap), `StoreRunning`, `Arm` |
| `Stop`, a stop from the Loops lane | `Stop`, `StopTheLoop`, `StopTheRun`, `StopEnds`; `LaneStop`, `StopTheLoop` |
| `Message` | `Message`, `LookWhetherHeld`, `Unblock`, `QueueIt`, `Unhold`, `Resume`; to an ended conversation `FollowUp`, `FollowUpClaims` |
| the Operator's chat | `Chat`, `ChatClaims` |
| the tick | `TickBegins`; the parent's loop `ParentHasNothing`/`ParentHasASend`, `ParentSends`; `ReconcileBegins`, `Reconcile`, `PlanBlocked`, `Hold`, `EndIt`; `LoopsBegin`, `TickSkips`, `TickWaits`, `TickDecides`; a stop `ResolveIt`, `Resolved`; a send `DrainQueue`, `ClaimSlot`, `SendIt`, `EnterPhase`; `DeliverBegins`, `ClaimParent`, `MarkDelivered`, `PostSummary` |
| turns | `Speak`, `TurnEnds`, `ParentTurnEnds` |
| the process | `Restart`: stores stay, run slots, tick and requests go |

`Decide` is the ladder of `DrivenLoop.Decide` and `GoalLoop.DecideCore`; `Outcome` puts the
no-reply retries before it and the cap after it, in the code's order. A reply is reduced to its
kind and to how it compares in time with the arming, the last send and the tick.

### BoardMerge and IdeasSync

`BoardMerge` is the merge of two copies of a board as operators: an element has the stamp of its last
edit, a tombstone has the stamp of the deletion, `Version` is the larger; `Merge` takes the newer of
each element, detaches tasks whose box is gone and rebuilds the dependencies in ordinal order, leaving
out what would close a circle (`MergeFrom`, `NotesService.MergeFrom`). `IdeasSync` has one board per
Harness and the requests between them.

| action | code |
|---|---|
| `AddIdea` … `DeleteEdge` | the edits of the two stores; the save, then, for a promotion or a task's deletion, the other store (`WriteNotes`) |
| `OnLocalChange`, `Nudge` | `Changed`: the dirty flag, the due time, and the tick woken by it |
| `StartPush`, `PushBegins`, `StartPoll` | what a tick finds to do |
| `HubGet`, `PollMerges`, `PullMerges` | the hub's answer and the merge of it |
| `HubAccepts`, `HubRefuses` | `POST` with the revision the push began from |
| `PushSucceeds`, `PushConflicts`, `Lose` | the answer, the retries, a request or an answer lost |
| `Restart`, `Migrates` | a Harness replaced: the flags go, the stores stay |

The hub's revision only matters compared with the one a push started from, so it is kept as
`current[p]`; a due time is a flag; the merge of the two stores and the snapshot behind it are one
step; stamps are unique (one counter). `SlowRequests = FALSE` leaves out an edit elsewhere with a stamp
between the two halves of one promotion or deletion.

### Recurrence and RecurringTasks

`Recurrence` is the grid of occurrences, the decision ladder and the auto-pause rule of
`Recurrence.cs`, as functions. `RecurringTasks` is the engine, the slot it borrows, and the operator's
commands. A tick, `RunNow` and `StopRun` hold the engine's lock, so `eng` is the one holder's place:

| handler | actions |
|---|---|
| the tick, first half | `TickBegins`, `Advance` (a run at hand: wait, or close it), `HandBack`, `CloseRun`, `PauseIfFailing` |
| the tick, second half | `ListCards`, `DecideCard`, `BorrowSlot`/`SendOnce`, `StartLoop`/`PeerGone`/`AnswerLost`, `LogRun`, `MarkHandled`, `TickEnds` |
| commands | `RunNow`, `StopRun`, `Create`, `Pause`, `Resume`, `Edit`, `DeleteLooks`, `DeleteRemoves`; `OperatorArms` at the dock |
| surroundings | `LoopResolves`, `TurnStarts`, `TurnEnds`, `GateFlips`, `PeerLeaves`, `PeerReturns`, `ClockTicks`, `Restart` |

A run that was armed ends `failed` or `ended`; the engine decides nothing by the finer statuses.

### AgentRequests

Rows of requests on every Harness, and every actor that reads a row in one step and acts in another:
calls of operators (`Approve`, `CallPosts`, `CallMarks`, `CallPushes`, `Dismiss`, `Drive`,
`DriveChecks`, `DriveStarts`, `DriveDecides`), the engine's delivery (`DeliverPicks`, `DeliverPosts`,
`DeliverWaits`, `DeliverMarks`), and the holder of the synchronisation gate (`PullBegins`,
`PullAnswered`, `PullFails`, `MergePulled`, `PullEnds`, `PushAnswered`, `PushFails`). Around them turns
and goals that end, the gate, a kill, and the peer's opt-in (`AcceptFleetSends`), which is off until
its operator turns it on. `spent.refused` remembers which decisions a peer refused because it was
off; the code settles these for good (`ArchAgentService.Requests.cs:272`), so they are not pushed
again when the opt-in is turned on. Two simplifications: a goal's own turns are not
shown, and `MarkDecisionSynced` happens with the answer of the push. `LongTurns` says that a turn
outlasts the few statements between a post and its mark.

## The runs

Every invariant and property of a passing run has a mutant in `PROJECT.json`: the change of one
modelled definition, such as a plausible bug would make, under which TLC finds that property
violated in the same run. The definitions a mutant uses are marked `Variant` in the modules.

| run | asks | bounds and why they are enough |
|---|---|---|
| `run_feed` | `TypeOK`, `StopIsNotAFailure`, `BufferIsTail`, `DeliveryIsExact`, `ReplayMatchesWatermark`, `NothingAfterTheEnd`, `StopEndsTheTurn`, `CompletionIsAnnounced`, `ReaderIsReleased`, `ServesTheFeed` | cap 3 and chunk 2 with four events and those of failures: the buffer is trimmed more than once, a chunk is more than one event and less than the cap, a reader joins at any watermark; a replacement of the process |
| `chat_reader` | `SingleFlight`, `SeqNeverReused`, `OneReader`, `OnlyRepeatsAreSkipped`, `OwnRunShownOnce`, `WholeRunShown` | two runs of the slot, so one may outlive a second reader of the other; two connections, so a second reader can exist; one prompt, with an attachment or without, one drop, one Stop, one transcript load at a time, two attempts, a shared connection that may fail; up to three events of a run over a buffer of two; 4.3 M states |
| `chat_liveness` | `StreamingEnds`, `RunShowsUp` | one run, of the page or of somebody else, one upload, a drop or a lost prompt, two attempts, a shared connection that may fail, a reset, a replacement; 328 k states. It also passes with two runs that print nothing, and with two runs that print once over the shared connection alone |
| `chat_upload` | `EveryReaderIsCancellable` (violated) | one prompt with an attachment |
| `goal_loop` | `CapBoundsSends`, `CarriedOnce`, `ReportedOnce`, `EngineKeepsOneWriter` | two writers in one checkout, two requests of any kind (both start, one is started and written to, stopped, continued), follow-up turns, a kill anywhere; 2.7 M states. `GoalCalls.cfg` beside it takes one conversation and three requests, `GoalWriters.cfg` adds the parent's own loop |
| `goal_liveness` | `QuestionHoldsTheLoop`, `DoneIsVerified`, `NobodyIsForgotten`, `LoopsGoOn` | one conversation, a parent with one send of a loop of its own, cap 2 and one retry, so a work turn can be followed by a verification or a retry; two requests; 611 k states |
| `board_sync` | `DependenciesAreSound`, `CleanMeansShared`, `NothingComesBack` | a hub and two peers, two tasks in a box, a dependency each way (together a circle), two edits anywhere between the steps of both peers' exchanges; 506 k states |
| `board_ideas` | `BoardsConverge` | a hub and a Harness that joins it, every kind of edit of ideas, tasks and boxes with a promotion, one message lost, one restart; 207 k states |
| `recurring` | `OccurrencesAreAccounted`, `FailuresPause`, `SlotIsHandedBack`, `OnlyOwnLoopsAreReplaced` | one card, times up to 3 on a grid of 1 and a daily one of two-day weeks, every pair of commands, the gate, a restart; 930 k states |
| `recurring_peer` | `OccurrencesAreHandled` | a card of a peer's agent with the other policies, an outage or a lost answer, a turn, the gate, a restart; 353 k states |
| `requests` | `TypeOK`, `PostedOnce`, `DismissedIsNotPosted`, `DecisionsAreFinal`, `DecisionsTakeEffect` | a hub and a peer, one request of the peer, a call of each operator at the same time, one kill or closing of the gate, and an opt-in that is turned on at some point or never; 152 k states. With one more change of the opt-in it passes too (274 k states) |
| `requests_two_archs` | `OneArch` (violated) | the same without faults and with one call |

Symmetry is used only in runs without liveness, over interchangeable connections or conversations.
The bounds on requests, sends, drops, restarts and events sit in the guards of the actions that
spend them and are named in the modules as bounds. `CHECK_DEADLOCK FALSE` is set for the slot and
the page, the boards and the local recurring card, which may come to rest when the bounds are spent;
the engines of the other runs tick for ever and deadlock is checked there.

What the properties are about, in one line each:

- `SingleFlight`: whatever still executes a turn, finally block included, is the registry's session.
- `SeqNeverReused`: a later run of a process counts on from the earlier one.
- `StopIsNotAFailure`: a Stop recorded before its cancellation never ends as `error`.
- `NothingAfterTheEnd`: a terminal status is final and no event follows it.
- `BufferIsTail`, `DeliveryIsExact`, `ReplayMatchesWatermark`: the buffer is
  the newest stretch of the log, less at most one chunk; delivered plus pending is exactly what lies
  between a reader's start and the newest event; nothing but trimmed chunks is missing before it.
- `StopEndsTheTurn`, `CompletionIsAnnounced`, `ReaderIsReleased`: nobody waits for ever.
- `OneReader`: the reader that can be aborted is a live one; while `Guarded` it is the only one, and
  the composer is locked with it.
- `OwnRunShownOnce`, `OnlyRepeatsAreSkipped`, `WholeRunShown`: while `Guarded` the dedup drops what was
  shown and nothing else, and a run that was read to its end is shown in full; afterwards the newest
  run the conversation shows, begun after its last prompt or reset, still is.
- `CapBoundsSends`: the engine's stale copies never let an arming exceed its cap.
- `CarriedOnce`: a queued message is waiting, in the engine's hands, carried or displaced.
- `ReportedOnce`: an ending reaches the parent at most once.
- `EngineKeepsOneWriter`: turns the engine itself starts never overlap in the checkout.
- `QuestionHoldsTheLoop`: nothing is sent on top of an unanswered NEEDS_HUMAN of the same arming.
- `DoneIsVerified`: done is reached only by a reply to the verification prompt.
- `NobodyIsForgotten`, `LoopsGoOn`: a stopped loop is reconciled, a summary is delivered, an active
  loop goes on or stops.
- `DependenciesAreSound`: no circle, no pair twice, no end that is gone, nothing that was deleted.
- `CleanMeansShared`: no edit is forgotten between flag, due time, snapshot and failed request.
- `NothingComesBack`: no step on any Harness makes an item older than it was there.
- `BoardsConverge`: when editing stops, every board becomes the hub's and stays it.
- `OccurrencesAreAccounted`: what a card has put behind itself is covered by its run records, and
  without a kill covered once. `Occurrences` says what the grid is without the code's arithmetic.
- `FailuresPause`: a card whose last runs failed, among the newest the code looks at, arms nothing
  more by itself.
- `SlotIsHandedBack`, `OnlyOwnLoopsAreReplaced`: after a run the slot holds what it held, and a loop
  somebody armed meanwhile is not removed.
- `OccurrencesAreHandled`: nothing due waits for ever and no run stays open.
- `PostedOnce`: a Harness posts a request once, once more per kill. `DismissedIsNotPosted`: not at
  all where it is held dismissed. `DecisionsAreFinal`: nobody turns a decision, late or early.
- `DecisionsTakeEffect`: what the hub's operator decides is delivered, and it reaches the peer or was
  refused by it because it had not opted in.

## Where the code disagrees with its own words

Each of these states what a comment, message or document says, and TLC finds a behaviour of the
code that breaks it. The first two are runs of `PROJECT.json` and findings there; the others are
configurations kept beside it.

| configuration | property | what happens |
|---|---|---|
| `RequestsTwoArchs.cfg` | `OneArch` | the hub approves a peer's request and pushes the decision; the peer's own engine posts it to the peer's arch too (`ArchAgentService.Requests.cs`) |
| `ChatUpload.cfg` | `EveryReaderIsCancellable` | the poll attaches a reader while an attachment uploads, and `sendTo` overwrites its entry (`ChatContext.jsx:377`, `:399`), although "two resumers can't slip past each other" (`:556`) |
| `RequestsOptIn.cfg` | `DecisionsReachThePeer` | a decision refused while the peer's opt-in was off is settled for good, so the peer's row stays pending after it opts in (`ArchAgentService.Requests.cs:272`) |
| `RequestsDriven.cfg` | `DismissedIsNotDriven`, `PostedOrDriven`, `OneDecision` | the goal is started before the request is decided; dismissed meanwhile it is driven all the same, approved meanwhile it is both posted and driven. And both operators may decide before they hear of each other: both decisions stay (`-continue` shows all three) |
| `RequestsTrim.cfg` | `PostedOnce` | a decided row that is trimmed before its decision reached the peer is pulled again as pending and can be decided and posted again (one that the peer holds as approved comes back approved and undelivered, and is posted again by the tick) |
| `RecurringTwoCards.cfg` | `SlotIsHandedBack` | two cards on one agent: the second borrows what the first left resolved, and gives that back |
| `RecurringWindow.cfg` | `FailuresPauseAlways` | the window of the newest runs is cut before skipped ones are dropped (`RecurringEngine.cs:243`), so skips push failures out of it, though "a busy agent is not a failure" (`Recurrence.cs:187`) |
| `BoardLostIdea.cfg` | `NoIdeaIsLost` | a task is deleted on one Harness while its idea is edited on another: the idea stays marked as consumed by a task that is gone |
| `BoardPushShared.cfg` | `PushIsShared` | a task whose box is gone is detached without a new stamp, so two Harnesses can keep different contents under one stamp |
| `BoardSlow.cfg` | `NothingComesBack` | an edit elsewhere, stamped between the two halves of a deletion, is overtaken by the second half |
| `ChatPrompts.cfg` | `ReattachFindsOwnRun`, `AppliedOnce` | a POST that never arrived is treated as a lost response: the page attaches to the slot's previous run and shows that answer as its own (`ChatContext.jsx:425`). A prompt sent right after Stop is refused by the dying run, and the poll then replays that run from 0 (`:402`); `-continue` shows both |
| `GoalOneWriter.cfg` | `OneWriter` | chat and engine both look before the other claims; the claims are on different slots (`ChatController.cs:138`) |
| `GoalDelivered.cfg` | `DeliveredMeansPosted` | a kill after the delivered mark and before the parent's turn loses the summary (`RepoSubagentService.cs:412`) |
| `GoalContinue.cfg` | `ContinueTakesEffect` | a continued conversation whose last turn failed without a reply is stopped for that old turn (`AutopilotService.cs:718`) |
| `GoalRestartStuck.cfg` | `LoopsGoOn` | after a restart a loop whose last send has no reply waits for a run that nobody will start (`AutopilotService.cs:600`) |
| `RunNotice.cfg` | `ErrorNeedsAFault` | a browser-readiness notice is an event of type `error`, so a clean turn finalizes as `error` (`ChatController.cs:205`) |
| `ChatOldMark.cfg` | `OnlyRepeatsAreSkipped` | a page that outlives the Harness filters the new process's run with the old watermark (`ChatContext.jsx:318`) |
| `GoalMaxRunning.cfg` | `AtMostMaxRunning` | two starts pass the cap before either is stored (`RepoSubagentService.cs:138`) |
| `GoalEnded.cfg` | `EndedIsQuiet` | the record is stored before the loop is armed; Reconcile ends it in between and the loop runs on an ended conversation (`RepoSubagentService.cs:147`) |
| `GoalNoReply.cfg` | `NoReplyMeansRuns` | the no-reply guard counts ticks, so an unanswered send that is blocked by another writer is counted again without a run (`AutopilotService.cs:608`) |
| `GoalMessages.cfg` | `MessagesKept` | messages taken for a prompt are lost with a kill, a busy slot, or a stop before the send (`RepoSubagentService.cs:326`) |

## Fairness

- `RunSession.FairSpec`: a readiness check returns (it has a timeout); a requested cancellation
  fires (`RequestStop` runs to its end) and the reader awaiting the process observes it; a turn that
  ended reaches `Complete` and its callback (finally blocks); a connected client is sent what is
  pending (an open response drains its channel). Nothing makes the CLI print or exit by itself and
  nobody has to press Stop.
- `ChatPage.FairPageSpec`: the poll's interval timer, uploads and requests that are answered or fail,
  the shared connection that reopens, the legacy loop's timer, transcript loads that return. No
  fairness on sends, drops, a failure of the shared connection or the runs themselves.
- `GoalConversations.LiveSpec`: the engine's timer ticks and a tick runs to its end, a request
  handler runs to its end, a turn that runs ends eventually. Nothing makes a request come.

- `IdeasSync.LiveSpec`: a request thread runs to its end, every peer's tick comes and goes on; strong
  fairness only for `StartPush`, which edits can take away and give back while a poll is out.
- `RecurringTasks.LiveSpec`: the scheduler's timer, turns that end, loops that resolve, a peer that is
  found again. No fairness on the operator, the clock or the gate.
- `AgentRequests.LiveSpec`: calls run to their end; on a hub the tick and the synchronisation go on, a
  push is answered in the end (strong: it fails and is tried again), the gate opens again, turns end,
  and the delivery finds the arch free in the end (strong: other turns take the slot in between). No
  pull need succeed.

Weak fairness suffices elsewhere: none of these steps is disabled again by another actor for
ever, except where a bound of the model says so (below).

## Proofs

Proved with TLAPS for every value of the constants that the modules' ASSUMEs admit: any number of
runs, readers, conversations, harnesses, items and cards, any buffer size and any bound. Beyond
them some theorems name a hypothesis, which is given with its reason. Each theorem about a property
that a run checks states that very definition.

| module | theorem | states |
|---|---|---|
| `RunSessionProofs` | `Invariance`, `TypeCorrect`, `SingleFlightHolds`, `BufferIsAlwaysTail`, `DeliveryIsAlwaysExact`, `EndedStreamIsAlwaysWhole` | `[]` of `IInv`, `TypeOK`, `SingleFlight`, `BufferIsTail`, `DeliveryIsExact`, `EndedStreamIsWhole` |
| `RunOutcomeProofs` | `OutcomeInvariance`, `StopIsNeverAFailure`, `SeqIsNeverReused`, `ReplayMatchesItsWatermark`, `EndIsFinal` | `[]` of `OInv`, `StopIsNotAFailure`, `SeqNeverReused`, `ReplayMatchesWatermark`; `NothingAfterTheEnd` |
| `RunFeedProofs` | `SlotServesTheFeed` | `Spec` implies `Feed!Init` and `[][Feed!Next]` under the mapping of `MC_RunSession` |
| `ChatPageProofs` | `PageInvariance`, `PageTypeCorrect`, `PageKeepsSingleFlight`, `OneReaderAtATime`, `OwnRunIsShownOnce` | `[]` of `PInv`, `PageTypeOK`, `SingleFlight`, `OneReader`, `OwnRunShownOnce` |
| | `MarkInvariance`, `NothingNewIsSkipped`, `PageSeqsAreNeverReused`, `ToldOfAWholeRun`; `MaxRestarts = 0` | `[]` of `MarkInv`, `OnlyRepeatsAreSkipped`, `SeqNeverReused`; `WholeRunShown` |
| `GoalConversationsProofs` | `Invariance`, `TypeCorrect`, `CapIsNeverPassed`, `MessagesTravelOnce`, `EndingsAreReportedOnce`, `EngineWritesAlone`, `QuestionsHold` | `[]` of `IInv`, `TypeOK`, `CapBoundsSends`, `CarriedOnce`, `ReportedOnce`, `EngineKeepsOneWriter`, `QuestionHoldsTheLoop` |
| | `DoneIsAlwaysVerified`; `MaxRestarts = 0`, `~FollowUps` | `[]DoneIsVerified` |
| `IdeasSyncProofs` | `ExchangeInvariance`, `CleanIsShared`, `BoardsOnlyGrow`; `~SlowRequests` | `[]` of `SInv`, `CleanMeansShared`; `NothingComesBack` |
| | `BoardInvariance`, `BoardTypeCorrect`, `NoCircles` | `[]` of `DInv`, `TypeOK`, `DependenciesAreSound` |
| | `RebuildIsSound` | what a merge rebuilds is part of what it was offered, without a pair twice and `Layered`, whatever the edges and their order |
| `RecurringTasksProofs` | `LendingInvariance`, `SlotIsAlwaysHandedBack`; `OneCardEach` | `[]` of `RInv`, `SlotIsHandedBack` |
| | `AccountsInvariance`, `RecurringTypeCorrect`, `OccurrencesAreAlwaysAccounted` | `[]` of `AInv`, `TypeOK`, `OccurrencesAreAccounted` |
| | `PausingInvariance`, `FailuresAlwaysPause` | `[]` of `PInv`, `FailuresPause` |
| | `OnlyOwnLoopsAreEverReplaced` (it follows from what `HandBack` compares) | `OnlyOwnLoopsAreReplaced` |
| `AgentRequestsProofs` | `Invariance`, `TypeCorrect`, `DecisionsStayFinal` | `[]` of `IInv`, `TypeOK`; `DecisionsAreFinal` |
| | `DismissedIsNeverPosted`; `NothingTrimmed` | `[]DismissedIsNotPosted` |
| | `RequestsArePostedOnce`; `NothingTrimmed`, `LongTurns` | `[]PostedOnce` |

Each proof is laid out the same way: what the operators on records return and keep; one lemma per
action or group of alike actions, one part of the invariant at a time; then the theorem from
"initially" and "every step keeps it". Almost none of the properties is inductive by itself. What
had to be added to each, and why:

**The run slot.** `SingleFlight` needs that a session executes exactly while its status is running
(`StageMatchesStatus`) and that only the registry's session is running (`RunningIsCurrent`);
`TryBeginRun` replaces the registry's session only when that one is not running. `DeliveryIsExact`
needs that a channel is subscribed exactly while its stream is open on a running session
(`SubscribedWhileOpen`): then every emission reaches every reader that is behind, and `Complete`
can close the channels without losing anything. It needs `BufferIsTail` for the replay, and that an
ended run emits nothing more. `EndedStreamIsWhole` is `DeliveryIsExact` at the moment the stream
ends.

**Outcomes.** `Facts` is what a session remembers of its trouble: it was told as an error, a
cancelled turn had been cancelled, an operator's cancellation comes after the intent. With it
`Complete` cannot call a Stop an error. `Follows` is what any step may make of a session, and
`NothingAfterTheEnd` is read off it. `SeqNeverReused` needs that the registry holds the newest
session, or the process is new (`SlotIsNewest`). `ReplayMatchesWatermark` needs that what the
buffer lost is a number of whole chunks, of a run that had more events than the buffer holds
(`TrimmedInChunks`); this is where division with remainder comes in, so the arithmetic has lemmas
of its own. It is shown from `OInv` before and after the step: a stream keeps its start, and a
stream that opens takes the buffer's.

**The feed.** `FeedStep` takes each action of the slot to a step of `RunFeed` or a stutter, under
the mapping of `MC_RunSession`. Emissions grow a log, `Complete` closes it, `Deliver` moves a
reader by one, which is `DeliveryIsExact` read as "the head of the channel is the next event". The
liveness half of `ServesTheFeed` is checked by `run_feed`.

**The page.** `PInv` is the slot's `IInv`, the reader's part and the events' part. The reader's part
says that an entry in `abortRefs` names a live reader (`RefIsLive`), that an attachment carries a stream
only while somebody reads it (`QuietUnlessReading`), that the attempts of the legacy loop fit
(`TriesFit`), and, while `Guarded`, that nobody else reads and the composer is locked with the reader
(`Alone`). `Guarded` can only become false, so its part is kept by the steps that leave it true.
`OwnRunShownOnce` needs that of the runs that began after the last prompt everything shown is at or
below the mark (`MarkCoversOwn`): the page resets the mark with the prompt, and the predecessor's
run may then be shown again, which the property allows. It needs no `Guarded`: the mark is shared, and
only a prompt or a reset lowers it.

`MarkInv` is about the place of the mark. Its first part, while `Guarded`, is that no stream is behind
the mark, that it is within the log of every run the page reads or can come to read, and that what is
buffered up to it is shown (`OneMarkInv`). Its second part holds with any number of readers, and is
about the runs the conversation has not left behind: those that began after its last prompt or reset and
of which it shows no later one (`LaterInv`). The mark is not past the slot's newest event, what is buffered of those
runs up to it is shown, so is what lies before their streams, and nothing that was dropped of them is
still buffered. Both parts need that a later run counts on from the earlier (`CountsOn`). `MarkInv` is false when a new process counts from 1 under a page that keeps its
mark (`ChatOldMark.cfg`, a hazard), so its theorems assume `MaxRestarts = 0`; they hold for any number
of runs, prompts, uploads, attempts and lost connections.

**Goal conversations.** `IInv` has seven parts: types; every request that brings a message brings
one not used before (`Counting`, which is where `GoalAssumption` says there are enough of them); and
one part per property. `Kept`: waiting, taken, carried and dropped are disjoint, and so are the
queues. `Writes`: once the engine looked who writes in the checkout, none of its own turns begins
before the one it looked for; a check with no turn in between is enough because the engine is one
thread. `Capped`: between decision and count only the engine counts, an arming by somebody else
starts again at 0. `Told`: an ending that was posted belongs to a record marked as told, or to one
that a Continue or a later ending has left behind. `Asked`: a question that answers a turn of the
loop is the newest reply, and no turn of that loop is under way while the engine is about to send.
`DoneIsAlwaysVerified` has an invariant of its own (`Proven`): in the verify phase the turn under way
carries the verification prompt, and a `GOAL_VERIFIED` that the engine would judge answers it, except
between the send that leaves the phase and the step that writes the new one. Both hypotheses are
needed, TLC finds a counterexample without either: a kill between `RecordSend` and `SetPhase`, and a
follow-up turn that supplies the token.

**Boards.** The version of an item is the last stamp a board knows of it. Edits write the latest
stamp and merges take the larger, so versions only rise, and "the hub has all that p has" is a
comparison of versions. `SInv` says for each phase of an exchange how the hub's board, the copy p
holds and p's own compare, as far as p noticed no edit since. `~SlowRequests` says that no other
edit is stamped between the two halves of a promotion or deletion: otherwise the second half carries an older
stamp, and the properties fail (`BoardSlow.cfg`).

`NoCircles` needs no such hypothesis. `DInv` says that every dependency a board knows, or knows the
deletion of, was minted (so one that is added is new everywhere), and that every board, a copy that a
peer holds during an exchange included, is `Sound`: its dependencies lead from one task of the board to
another, and the tasks can be laid out in layers (`Layered`), which is what a circle
excludes. An edit keeps that because it looks for a way back first (`Admit`). A merge throws the dependencies away
and admits them one by one in a fixed order; `Rebuild` is that walk, as a recursive function over the
numbers of the edges, and `RebuildIsSound` is the induction over those numbers: what has been admitted
so far is layered, and an edge that closes no circle leaves it so. The induction is an instance of
well-foundedness of the natural numbers, shown for a set of numbers, as the library's theorem about
predicates cannot be used.

**Recurring tasks.** A loop of a recurring task in a slot is that of the card's one run in
progress, or of the run the engine is about to record, and that run has the slot's generation and
what the slot held before (`SlotsAreLent`). It needs that a card has one run in progress at most,
that the engine's card has none when it arms, and that the runs the tick has listed are those that
were in progress when it began and are so still until it closes them itself (`OneRunEach`,
`NotYetRunning`, `ListedAreRunning`). `OneCardEach` says that no two cards share a local agent: with
two, one card's snapshot can hold the other's loop and hand that back (`RecurringTwoCards.cfg`).
That no kill falls between the steps is part of the property (`spent.restarts = 0`).

`OccurrencesAreAccounted` is about numbers: `Reached(c, x)` counts the occurrences of a card's grid up
to `x`, `Weight(c, r)` those a run stands for. `AInv` says what the accounts of each card are while the
engine is at work (`Accounts`): the runs on record stand for what the card has handled and, between a
record and its mark, for the run at hand (`Owed`); the run at hand, once it is marked, takes the card
from what it has handled to the run's due time without leaving an occurrence out; and a card the tick
has listed and not yet decided is on the same grid as in that list, or on a new one that begins later
than the tick and owes nothing. A kill loses only the second part of the first sentence, hence "covered"
but no longer "covered once". It rests on the grid's arithmetic: `NextAfter` is the least occurrence
after a time, `LatestAtOrBefore` the greatest up to one, `CountBetween` the number in between (`NextIs`,
`LatestIs`, `CountIs`, the last an induction over the distance), for intervals and for times of day, where the
two weeks the code looks ahead are shown to be enough. `DueIs` puts them together: what `Decide` puts behind
a card is what the run it makes says it stands for. The run log is counted as a set of pairs of a record
and an occurrence it covers (`Claims`), so a record more adds its weight (`OneClaimMore`), and closing
or pausing changes nothing.

`FailuresPause` is kept by what the engine does between two records. `PInv`, on top of `AInv`, says that a
log is in order: a run in progress is its last record, and the runs of the card's grid come after all
others (`Orderly`). A run at hand was made for a log without a run in progress and is due on the card's
grid, or else the card is on a newer one (`Prepared`). When one failure more would be one too many
(`Failing`), the card is paused or the engine is just about to look; the tick will not decide it from an
old list, since no card waits to be decided while runs are closed (`Rests`); and a run at hand was asked for by
hand (`Heeds`). A skipped occurrence only moves the window, so it can end a row of failures
but never begin one. A resume or an edit puts the card on a grid without runs, where nothing fails yet.

**Agent requests.** `Steady` says what any access does to a row: a decision stays with its delivery
mark, or the row is trimmed. `DismissedIsNotPosted`: a post comes from a thread that found or made
its row approved (`PostsAreApproved`), and approved stays approved. `PostedOnce`: when a request was
posted in this life of the process, a thread that still means to post it finds its target busy with
the turn the post began, until the thread that posted has marked the row (`OnePost`). Hence the
hypotheses: `NothingTrimmed`, the 500 decided rows that are kept are not exceeded, since a trimmed
request comes back pending and can be decided anew (`RequestsTrim.cfg`); `LongTurns`, a turn
outlasts the statements between a post and its mark.

Assumptions on constants that the proofs add, each true of the code: `NoRunAssumption` (the value that
stands for "no snapshot" or "no run" is neither) only tells model values apart. `ScheduleAssumption` is
what the two `Validate` let through (`Recurrence.cs:66`, `RecurringModels.cs:22`): an interval of at
least one unit, or a time within the day on named weekdays. In `IdeasSync` and `BoardMerge` the tasks
are finitely many, `EdgeOrder` is a sequence, an edge is no item, and the board at the start has
no circle.

Model-checked only, and why:

- Liveness, and the fairness half of `ServesTheFeed`: fairness and ENABLED are out of the prover's
  reach.
- `OneArch` and `EveryReaderIsCancellable` are violated.

## What is not modelled

- The components marked `not_modelled` in `PROJECT.json`; the plan says in which order they come.
- Of the modelled ones: provider line formats and the handoff text; transcripts, drafts, tabs and
  models of the page, and how several conversations share its one connection; `MarkStep` and
  `EditPlan` (whose read-change-write can lose an update), `Remove`, the trim to 200 records, the
  MCP view; loop kinds other than goal, suggest mode, borrowed slots, recipes, flags.
- Of boards: idea numbers, the scratchpad and the goal text (registers of one stamp), the expiry of
  tombstones, the token, a change of the hub, hosting switched off, the contents of cards, a kill in
  the middle of a hub's POST, a GET that reads one store before and one after an edit, clock skew.
- Of recurring tasks: a weekday given as a number, which `Enum.TryParse` admits whatever the
  number (`RecurringModels.cs:26`), and then no day matches and `NextAfter` throws; the cap of 100000 on the occurrences counted
  as missed (`Recurrence.cs:130`); changes of daylight time, the outcome statuses the engine decides nothing by,
  budgets beyond "metered or not".
- Of agent requests: the contents of requests, goals' own turns, two goals for one request.
- Time: `armedAt` is a generation, so two armings within one millisecond do not occur. The
  10-second tick and the grace tick are steps without duration.
- A turn neither speaks nor ends between the slot's claim and `RecordSend`: its task is started
  after that.

Limits of what the runs show:

- `DoneIsVerified` is checked without kills and follow-ups. A kill between `RecordSend` and
  `SetPhase` (`AutopilotService.cs:872-888`) leaves the verify phase over a work prompt, and a
  follow-up turn on an ended record with a live loop can supply the token; both are hazards in
  `PROJECT.json`.
- `LoopsGoOn` holds with the parent's own loop bounded (`MaxOwnSends`): the parent's loop is served
  before the summaries at every tick, so one that always has something to send starves them.
- `LoopsGoOn` holds as long as the process lives; across a restart it does not
  (`GoalRestartStuck.cfg`).
- `OnlyRepeatsAreSkipped` and `WholeRunShown` hold as long as the process lives (`ChatOldMark.cfg`), and
  without exception only while `Guarded`. `chat_reader` has two connections: a third reader beside an
  orphan and a send comes only from the theorems, which hold for any number.
- `DecisionsTakeEffect` says nothing of a decision the peer refused (`RequestsOptIn.cfg`).
- `EngineKeepsOneWriter` is about turns the engine starts; with the Operator's chat it fails
  (`GoalOneWriter.cfg`).
- `CleanMeansShared`, `NothingComesBack`: with unique stamps and `SlowRequests = FALSE`.
- `OccurrencesAreAccounted`, `FailuresPause`, `SlotIsHandedBack`: exact as long as no kill falls between
  a record and its mark, one card per agent, and no card deleted while the engine is at work on it. A
  kill between arming and the record (`RecurringEngine.cs:160`) leaves a loop no run owns, and the
  occurrence is armed again.
- `DismissedIsNotPosted` holds while no decided row is trimmed (500 are kept).

Hazards of the code read along the way that no property here covers, besides those in `PROJECT.json`:

- The send is stamped with the time the tick began (`AutopilotService.cs:951`).
- A kill between `RecordSend` and `SetPhase`, and `RecordSend` after a stop, which clears the reason of
  the stop (`LoopConfigStore.cs:826`).
- `MarkStep` and `EditPlan` read the plan, change it and write it back (`RepoSubagentService.cs:220`);
  the record file is rewritten in place (`RepoSubagentStore.cs:333`).
- An exception between the claim of a slot and its task leaves slot and browser gate taken
  (`ChatController.cs:163`); the completion callback runs outside the lock
  (`RunSessionService.cs:169`), so the slot is free before the session is noted
  (`RepoSubagentService.cs:532`).
- Tombstones older than thirty days are dropped (`NotesService.cs:385`): a Harness that was away longer
  brings the element back.
- A card is deleted between the engine's list and its arming (`RecurringCommands.cs:134`).
- The collector's watermarks are in memory. A producer that restarts counts from 1, and what it
  publishes before the next poll is below the old watermark and never read; a collector that restarts
  appends a source's whole feed again (`CollectorService.cs:366`); a source stopped while its poll is
  out is set active again by the answer (`CollectorService.cs:540`).
- An arch loop's watermark is persisted (`ArchStateStore.cs:516`) and the collector's sequence restarts
  at 1: after a restart an armed arch ignores events until the new sequence passes the old watermark
  (`ArchAgentService.cs:3267`).
