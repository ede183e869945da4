------------------------------ MODULE ChatPage ------------------------------
(***************************************************************************)
(* One conversation of an open page (client/src/context/ChatContext.jsx)   *)
(* against the run slot it is bound to: the composer's send, the reader    *)
(* guard, the dedup watermark, reattachment after a lost connection, and   *)
(* the 5 s poll that finds runs the page did not start.  The shared        *)
(* connection of chatStreamHub.js is seen from this one subscription.      *)
(***************************************************************************)
EXTENDS RunSession

CONSTANTS
  Nobody,       \* no reader is registered
  Attempts,     \* attempts of the legacy loop (5 in the code)
  PostsGetLost, \* whether a prompt can be lost before it reaches the Harness
  HubMayFail,   \* whether the shared connection can turn out to be unsupported
  MaxSends,     \* bound: prompts sent from the composer
  MaxUploads,   \* bound: those with an attachment
  MaxDrops,     \* bound: connections lost
  MaxLoads,     \* bound: transcripts loading at the same time
  MaxStops,     \* bound: Stop pressed
  MaxResets     \* bound: New conversation pressed

ASSUME PageAssumption ==
  /\ Nobody \notin Attachments
  /\ {Attempts, MaxSends, MaxUploads, MaxDrops, MaxLoads, MaxStops, MaxResets} \subseteq Nat
  /\ Attempts > 0
  /\ {PostsGetLost, HubMayFail} \subseteq BOOLEAN

VARIABLES
  reader,   \* reader[a]: what connection a is to the page
  sending,  \* the connections whose coroutine is a sendTo, not an attachToRun
  tries,    \* tries[a]: attempts of the legacy loop that a's coroutine began
  page,     \* the conversation's refs and flags
  shown,    \* the events the conversation shows, as <<run, seq>>
  repeated, \* those it was made to show again
  skipped,  \* those the dedup dropped although they were not shown
  used      \* how much of each bound is spent

server    == <<sess, slot, host, restarts>>
coroutine == <<reader, sending, tries>>
events    == <<shown, repeated, skipped>>
pageVars  == <<coroutine, page, events, used>>
allVars   == <<vars, pageVars>>

\* Where a coroutine awaits: the upload of its attachment; the answer to its POST, or the
\* response; a subscription of the shared connection, open or about to be; the answer to a
\* legacy request, or the response; the 2 s between two attempts.
ReaderKinds == {"none", "uploading", "posting", "post", "hub", "asking", "legacy", "asleep"}
Reading     == {"post", "hub", "legacy"}
Registered  == {"posting", "asking"} \cup Reading

\* asked: the runs there were at the last prompt; since: at the last prompt or reset.
PageInit ==
  /\ Init
  /\ reader = [a \in Attachments |-> "none"]
  /\ sending = {} /\ tries = [a \in Attachments |-> 0]
  /\ page = [abortRef |-> Nobody, stop |-> FALSE, mark |-> 0, streaming |-> FALSE, fresh |-> TRUE,
             loads |-> 0, polled |-> FALSE, hub |-> TRUE, asked |-> 0, since |-> 0]
  /\ shown = {} /\ repeated = {} /\ skipped = {}
  /\ used = [sends |-> 0, uploads |-> 0, drops |-> 0, stops |-> 0, resets |-> 0]

Free(a) == reader[a] = "none" /\ att[a].state = "idle"

SpendDrop == used.drops < MaxDrops /\ used' = [used EXCEPT !.drops = @ + 1]

\* Some coroutines end: finishStream, and what their finally blocks delete.  A sendTo
\* deletes whatever reader is registered, a streamRun only its own.
Leave(ended, p) ==
  /\ reader' = [a \in Attachments |-> IF a \in ended THEN "none" ELSE reader[a]]
  /\ tries' = [a \in Attachments |-> IF a \in ended THEN 0 ELSE tries[a]]
  /\ sending' = sending \ ended
  /\ page' = [p EXCEPT !.streaming = FALSE, !.stop = FALSE,
                       !.abortRef = IF @ \in ended \/ sending \cap ended # {} THEN Nobody ELSE @]

Finish(a) == Leave({a}, page)

-----------------------------------------------------------------------------
\* The legacy loop makes an attempt, unless a Stop stands.
Attempt(a, p) ==
  IF p.stop THEN Leave({a}, p)
  ELSE /\ reader' = [reader EXCEPT ![a] = "asking"]
       /\ tries' = [tries EXCEPT ![a] = @ + 1]
       /\ page' = [p EXCEPT !.abortRef = a]
       /\ UNCHANGED sending

\* streamRun: a subscription of the shared connection while that is supported.
StreamRun(a, p) ==
  IF p.hub
  THEN /\ reader' = [reader EXCEPT ![a] = "hub"]
       /\ page' = [p EXCEPT !.abortRef = a]
       /\ UNCHANGED <<sending, tries>>
  ELSE Attempt(a, p)

\* sendTo from the upload on: it becomes the reader, whoever was.
Prompt(a) ==
  /\ reader' = [reader EXCEPT ![a] = "posting"]
  /\ sending' = sending \cup {a}
  /\ page' = [page EXCEPT !.abortRef = a, !.mark = 0, !.streaming = TRUE, !.fresh = FALSE,
                          !.asked = Len(sess), !.since = Len(sess)]
  /\ UNCHANGED <<vars, tries, events>>

\* The composer sends only while nothing streams.
Send(a) ==
  /\ ~page.streaming
  /\ Free(a)
  /\ used.sends < MaxSends
  /\ used' = [used EXCEPT !.sends = @ + 1]
  /\ Prompt(a)

\* A prompt with an attachment waits for its upload, and nothing is locked meanwhile.
Upload(a) ==
  /\ ~page.streaming
  /\ Free(a)
  /\ used.sends < MaxSends /\ used.uploads < MaxUploads
  /\ used' = [used EXCEPT !.sends = @ + 1, !.uploads = @ + 1]
  /\ reader' = [reader EXCEPT ![a] = "uploading"]
  /\ UNCHANGED <<vars, sending, tries, page, events>>

Uploaded(a) ==
  /\ reader[a] = "uploading"
  /\ Prompt(a)
  /\ UNCHANGED used

UploadFails(a) ==
  /\ reader[a] = "uploading"
  /\ reader' = [reader EXCEPT ![a] = "none"]
  /\ UNCHANGED <<vars, sending, tries, page, events, used>>

\* The Harness takes the prompt, and this response is the run's first attachment.
PostAccepted(a) ==
  /\ reader[a] = "posting"
  /\ Begin(FALSE)
  /\ att' = [att EXCEPT ![a] = [Detached EXCEPT !.state = "resolved", !.run = Len(sess) + 1]]
  /\ reader' = [reader EXCEPT ![a] = "post"]
  /\ UNCHANGED <<host, restarts, sending, tries, page, events, used>>

\* 409: the slot is taken.  (Past the bound on runs every prompt is refused.)
PostRefused(a) ==
  /\ reader[a] = "posting"
  /\ SlotBusy \/ Len(sess) = MaxRuns
  /\ Finish(a)
  /\ UNCHANGED <<vars, events, used>>

\* The request never arrives; sendTo takes it for a lost response and reattaches.
PostLost(a) ==
  /\ PostsGetLost
  /\ reader[a] = "posting"
  /\ SpendDrop
  /\ StreamRun(a, page)
  /\ UNCHANGED <<vars, events>>

-----------------------------------------------------------------------------
\* The server resolves the run that is asked for, ...
HubResolve(a) ==
  /\ reader[a] = "hub"
  /\ Resolve(a)
  /\ UNCHANGED pageVars

LegacyResolve(a) ==
  /\ reader[a] = "asking"
  /\ Resolve(a)
  /\ reader' = [reader EXCEPT ![a] = "legacy"]
  /\ UNCHANGED <<sending, tries, page, events, used>>

\* Variant: the answer "none" leaves the subscription waiting.
NoRun_Waits(a) ==
  /\ reader[a] \in {"hub", "asking"}
  /\ att[a].state = "idle"
  /\ slot = 0
  /\ UNCHANGED <<vars, pageVars>>

\* ... or says that there is none ("none", 404).
NoRun(a) ==
  /\ reader[a] \in {"hub", "asking"}
  /\ att[a].state = "idle"
  /\ slot = 0
  /\ Finish(a)
  /\ UNCHANGED <<vars, events, used>>

\* Variant: a reattachment asks from past its watermark.
After_PastTheMark(a) == IF reader[a] = "post" THEN 0 ELSE page.mark + 1

\* The watermark of the request: a send's own response starts at 0.
After(a) == IF reader[a] = "post" THEN 0 ELSE page.mark

Open(a) ==
  /\ reader[a] \in Reading
  /\ Attach(a, After(a))
  /\ UNCHANGED pageVars

\* makeEventHandler: drop what the watermark says was applied, else apply it.  The first
\* event of a run nobody typed is its prompt, and locks the composer.
Receive(a) ==
  /\ reader[a] \in Reading
  /\ Deliver(a)
  /\ LET r   == att[a].run
         n   == Head(att[a].pending)
         evt == <<r, n>>
     IN IF n <= page.mark
        THEN /\ skipped' = skipped \cup ({evt} \ shown)
             /\ UNCHANGED <<page, shown, repeated>>
        ELSE /\ \E prompt \in {FALSE, n = sess[r].start + 1} :
                  page' = [page EXCEPT !.mark = n, !.streaming = @ \/ prompt]
             /\ shown' = shown \cup {evt}
             /\ repeated' = repeated \cup ({evt} \cap shown)
             /\ UNCHANGED skipped
  /\ UNCHANGED <<coroutine, used>>

\* The response, or this subscription's part of it, ends normally.
Told(a) ==
  /\ reader[a] \in Reading
  /\ att[a].state = "ended"
  /\ Detach(a)
  /\ Finish(a)
  /\ UNCHANGED <<events, used>>

-----------------------------------------------------------------------------
\* A connection drops (screen lock, network), or is found broken after the Harness was
\* replaced.
Breaks(a) ==
  \/ att[a].state # "idle" /\ SpendDrop /\ Detach(a)
  \/ reader[a] # "hub" /\ att[a].state = "idle" /\ UNCHANGED <<vars, used>>

\* Variant: a reattachment starts over at 0.
ConnectionLost_StartsOver(a) ==
  /\ reader[a] \in {"post", "hub"}
  /\ Breaks(a)
  /\ LET p == [page EXCEPT !.mark = 0] IN
     IF reader[a] = "post" THEN StreamRun(a, p) ELSE page' = p /\ UNCHANGED coroutine
  /\ UNCHANGED events

\* The page reattaches through the shared connection, which also reopens by itself.
ConnectionLost(a) ==
  /\ reader[a] \in {"post", "hub"}
  /\ Breaks(a)
  /\ IF reader[a] = "post" THEN StreamRun(a, page) ELSE UNCHANGED <<coroutine, page>>
  /\ UNCHANGED events

\* Between two attempts of the legacy loop nobody is registered and the composer stays locked.
AttemptFails(a) ==
  /\ \/ reader[a] = "legacy" /\ Breaks(a)
     \/ reader[a] = "asking" /\ SpendDrop /\ UNCHANGED vars
  /\ IF tries[a] < Attempts
     THEN /\ reader' = [reader EXCEPT ![a] = "asleep"]
          /\ page' = [page EXCEPT !.abortRef = IF @ = a THEN Nobody ELSE @]
          /\ UNCHANGED <<sending, tries>>
     ELSE Finish(a)
  /\ UNCHANGED events

Wakes(a) ==
  /\ reader[a] = "asleep"
  /\ Attempt(a, page)
  /\ UNCHANGED <<vars, events, used>>

\* The shared connection is not there, or failed too often: every subscription goes on with
\* the legacy loop, for the rest of the page's life.  The last one to do so is registered.
HubFails ==
  /\ HubMayFail
  /\ page.hub
  /\ LET subs == {a \in Attachments : reader[a] = "hub"}
         p    == [page EXCEPT !.hub = FALSE]
     IN /\ att' = [a \in Attachments |-> IF a \in subs THEN Detached ELSE att[a]]
        /\ \/ subs = {} /\ page' = p /\ UNCHANGED coroutine
           \/ subs # {} /\ page.stop /\ Leave(subs, p)
           \/ /\ ~page.stop
              /\ \E last \in subs : page' = [p EXCEPT !.abortRef = last]
              /\ reader' = [a \in Attachments |-> IF a \in subs THEN "asking" ELSE reader[a]]
              /\ tries' = [a \in Attachments |-> IF a \in subs THEN 1 ELSE tries[a]]
              /\ UNCHANGED sending
  /\ UNCHANGED <<server, events, used>>

\* abort(): the registered reader's connection is gone and its coroutine ends.
AbortReader(p) ==
  /\ att' = [att EXCEPT ![page.abortRef] = Detached]
  /\ Leave({page.abortRef}, p)

\* stopTo: detach at once; the stop request itself reaches the server when it
\* does, and the turn takes its time to die: the run goes on for a while.
PressStop ==
  /\ page.streaming
  /\ used.stops < MaxStops /\ used' = [used EXCEPT !.stops = @ + 1]
  /\ LET p == [page EXCEPT !.stop = TRUE] IN
     IF page.abortRef = Nobody THEN page' = p /\ UNCHANGED <<att, coroutine>> ELSE AbortReader(p)
  /\ UNCHANGED <<server, events>>

\* resetConversation: an empty conversation; the run, if there is one, goes on.
NewConversation ==
  /\ used.resets < MaxResets /\ used' = [used EXCEPT !.resets = @ + 1]
  /\ LET p == [page EXCEPT !.streaming = FALSE, !.stop = FALSE, !.mark = 0, !.fresh = TRUE,
                           !.since = Len(sess)]
     IN IF page.abortRef = Nobody THEN page' = p /\ UNCHANGED <<att, coroutine>> ELSE AbortReader(p)
  /\ shown' = {}
  /\ UNCHANGED <<server, repeated, skipped>>

-----------------------------------------------------------------------------
\* GET /api/runs; the page sees the answer some time later.
Poll ==
  /\ ~page.polled
  /\ SlotBusy
  /\ page' = [page EXCEPT !.polled = TRUE]
  /\ UNCHANGED <<vars, coroutine, events, used>>

\* attachToRun's tail: the reader is registered in the same turn.
Join(a, p) == StreamRun(a, [p EXCEPT !.streaming = TRUE, !.fresh = FALSE])

\* Variant: only a page that sent something looks for a run.
Reconcile_OwnRunsOnly(a) ==
  /\ page.polled
  /\ Free(a)
  /\ LET p == [page EXCEPT !.polled = FALSE] IN
     IF page.abortRef # Nobody \/ used.sends = 0
     THEN page' = p /\ UNCHANGED coroutine
     ELSE Join(a, p)
  /\ UNCHANGED <<vars, events, used>>

\* reconcile and attachToRun: nothing while a reader is registered; a fresh
\* conversation whose run has a session id loads its transcript first.
Reconcile(a) ==
  /\ page.polled
  /\ Free(a)
  /\ LET p == [page EXCEPT !.polled = FALSE] IN
     IF page.abortRef # Nobody
     THEN page' = p /\ UNCHANGED coroutine
     ELSE \/ Join(a, p)
          \/ /\ page.fresh /\ page.loads < MaxLoads
             /\ page' = [p EXCEPT !.loads = @ + 1]
             /\ UNCHANGED coroutine
  /\ UNCHANGED <<vars, events, used>>

\* Variant: the reader guard is not looked at again after the await.
Loaded_NoRecheck(a) ==
  /\ page.loads > 0
  /\ Free(a)
  /\ Join(a, [page EXCEPT !.loads = @ - 1])
  /\ UNCHANGED <<vars, events, used>>

\* The transcript is there: attach, unless somebody became the reader meanwhile or a
\* Stop stands.
Loaded(a) ==
  /\ page.loads > 0
  /\ Free(a)
  /\ LET p == [page EXCEPT !.loads = @ - 1, !.fresh = FALSE] IN
     CASE page.abortRef # Nobody -> page' = p /\ UNCHANGED coroutine
       [] page.abortRef = Nobody /\ page.stop -> page' = [p EXCEPT !.stop = FALSE] /\ UNCHANGED coroutine
       [] OTHER -> Join(a, p)
  /\ UNCHANGED <<vars, events, used>>

-----------------------------------------------------------------------------
ReaderStep(a) ==
  \/ Uploaded(a) \/ UploadFails(a)
  \/ PostAccepted(a) \/ PostRefused(a) \/ PostLost(a)
  \/ HubResolve(a) \/ LegacyResolve(a) \/ NoRun(a) \/ Open(a) \/ Receive(a)
  \/ (StreamEnds(a) /\ UNCHANGED pageVars)
  \/ Told(a) \/ ConnectionLost(a) \/ AttemptFails(a) \/ Wakes(a)

\* What a page can tell apart of its run: that it began, printed, ended.  The
\* kinds of events and of failures (ServerStep has them all) are the same to it.
RunStep ==
  \/ TryBeginRun(FALSE)
  \/ \E r \in Runs : CliLine(r, "text") \/ CliExit(r, 0) \/ Complete(r)
  \/ Restart

PageNext ==
  \/ RunStep /\ UNCHANGED pageVars
  \/ \E a \in Attachments : Send(a) \/ Upload(a) \/ ReaderStep(a) \/ Reconcile(a) \/ Loaded(a)
  \/ HubFails \/ PressStop \/ NewConversation \/ Poll

PageSpec == PageInit /\ [][PageNext]_allVars

\* The 5 s poll goes on, uploads and requests are answered or fail, the hub reopens its
\* connection, the legacy loop wakes up, and a transcript loads.
PageFairness ==
  /\ WF_allVars(Poll)
  /\ WF_allVars(\E a \in Attachments : Reconcile(a))
  /\ WF_allVars(\E a \in Attachments : Loaded(a))
  /\ \A a \in Attachments : WF_allVars(ReaderStep(a))

FairPageSpec == PageSpec /\ PageFairness

-----------------------------------------------------------------------------
\* The type invariant of the page.
PageTypeOK ==
  /\ TypeOK
  /\ reader \in [Attachments -> ReaderKinds]
  /\ sending \subseteq Attachments /\ tries \in [Attachments -> 0..Attempts]
  /\ page \in [abortRef : Attachments \cup {Nobody}, stop : BOOLEAN, mark : Nat,
               streaming : BOOLEAN, fresh : BOOLEAN, loads : 0..MaxLoads, polled : BOOLEAN,
               hub : BOOLEAN, asked : Nat, since : Nat]
  /\ \A S \in {shown, repeated, skipped} : \A e \in S : e \in Runs \X Nat
  /\ used \in [sends : 0..MaxSends, uploads : 0..MaxUploads, drops : 0..MaxDrops,
               stops : 0..MaxStops, resets : 0..MaxResets]

\* Two awaits let a second reader in: an upload, after which sendTo does not look again, and
\* the pause of the legacy loop.  Until there was one of them the reader guard is exact.
Guarded == used.uploads = 0 /\ page.hub

\* attachToRun: "two resumers can't slip past each other".  Whoever abortRefs names is a
\* live reader, also after an upload or a failed attempt, so a Stop ends somebody and a run
\* is not kept off the page by a reader long gone.  And while no prompt waited for an
\* upload and the shared connection serves, the conversation has at most one reader, it
\* is the one abortRefs names, and the composer is locked exactly while there is one.
OneReader ==
  /\ page.abortRef # Nobody => reader[page.abortRef] \in Registered
  /\ Guarded => /\ \A a \in Attachments : reader[a] # "none" <=> page.abortRef = a
                /\ page.streaming <=> page.abortRef # Nobody

\* attachToRun is afraid of a reader "that no abortRefs entry can ever cancel".
EveryReaderIsCancellable ==
  \A a \in Attachments : reader[a] \in Registered => page.abortRef = a

\* makeEventHandler: "Dedup across reattaches: skip anything we already applied."
\* No event is shown twice in a conversation.
AppliedOnce == repeated = {}

\* What the dedup does guarantee: a run that began after the conversation's last
\* prompt is never shown twice, however often its reader drops and comes back.
OwnRunShownOnce == \A e \in repeated : e[1] <= page.asked

\* The conversation shows a later run than r.
Superseded(r) == \E e \in shown : e[1] > r

\* A loss for which a second reader may be to blame.
MayBeLost(r) == ~Guarded /\ (r <= page.since \/ Superseded(r))

StillBuffered(r, n) == sess[r].seq - Len(sess[r].events) < n

\* RunSession: "Seq is monotonic per repo across runs so a client holding an old
\* watermark never discards a new run's events."  What the dedup drops was shown.  With
\* more than one reader it also drops what lies behind a later run, and what the replay
\* buffer has lost meanwhile; of the newest run nothing, since the last prompt or reset.
OnlyRepeatsAreSkipped ==
  \A e \in skipped : MayBeLost(e[1]) \/ (~Guarded /\ ~StillBuffered(e[1], e[2]))

\* A page that was told a run's end shows every event of it that the buffer still holds,
\* however often it lost and regained the connection.  With more than one reader it does
\* unless it shows a later run.
WholeRunShown ==
  [][\A a \in Attachments :
       (att[a].state = "ended" /\ reader[a] # "none" /\ reader'[a] = "none") =>
         LET r == att[a].run IN
         \A n \in (sess[r].start + 1)..sess[r].seq :
           StillBuffered(r, n) => <<r, n>> \in shown \/ MayBeLost(r)]_allVars

\* sendTo: "Connection lost (screen lock, network drop) — the backend run is still
\* alive.  Reattach instead of declaring failure."  What a sender reads is a run
\* that began after its prompt was sent, never an earlier one's answer.
ReattachFindsOwnRun ==
  \A a \in Attachments :
    (a \in sending /\ reader[a] \in {"hub", "legacy"} /\ att[a].state = "open") => att[a].run > page.asked

\* The composer is not locked for ever: once nothing runs, it gets unlocked.
StreamingEnds == (page.streaming /\ ~SlotBusy) ~> (~page.streaming \/ SlotBusy)

\* "a backend-started run must show up on an OPEN page too": while a run goes on,
\* the page comes to read it, unless it ends first.
RunShowsUp ==
  \A r \in 1..MaxRuns :
    (r \in Runs /\ Running(r)) ~> (Ended(r) \/ page.abortRef # Nobody)
=============================================================================
