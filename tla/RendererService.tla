--------------------------- MODULE RendererService ---------------------------
(***************************************************************************)
(* renderer/src/service.js over renderer/src/browser.js: one queue of      *)
(* requests, one shared page, and three per-document stores (markup,       *)
(* interaction state, frames).                                             *)
(*                                                                         *)
(* A line of stdin is handled at once up to its first await: it is         *)
(* admitted to its lane (module Lanes) and joins the queue, or it is       *)
(* refused.  One task runs at a time; the event loop can read further      *)
(* lines whenever the task awaits, so a task is one action per stretch     *)
(* between two awaits.  `forget` is not queued: it acts in the middle of   *)
(* whatever the running task is doing.                                     *)
(*                                                                         *)
(* A markup stands for its HTML and source map: the document and content   *)
(* revision it was rendered from, and whether a remote image was still     *)
(* being fetched (its HTML then has a placeholder for the image).  The     *)
(* other inputs of the markdown key and of the layout key (theme, font,    *)
(* width, policy flags) do not change in this module.                      *)
(***************************************************************************)
EXTENDS Naturals, Sequences, FiniteSets, Recency

CONSTANTS
  Documents, NoRevision,
  MaxDocuments, MaxPendingPerLane, MaxRequests,  \* as in Lanes
  MaxCachedDocuments,   \* how many documents have cached markup (64)
  MaxDocumentFrames,    \* how many documents have a rehydration record (64)
  MaxRevision,          \* bound: content revisions of a document are 1..MaxRevision
  Methods,              \* the methods this process is asked for
  Actions,              \* the interact actions it is asked for
  RemoteImages          \* whether the documents have remote images

Revisions == 1 .. MaxRevision

ASSUME ServiceAssumption ==
  /\ NoRevision \notin Revisions
  /\ MaxDocuments \in Nat \ {0}
  /\ MaxPendingPerLane \in Nat \ {0}
  /\ MaxRequests \in Nat
  /\ MaxCachedDocuments \in Nat \ {0}
  /\ MaxDocumentFrames \in Nat \ {0}
  /\ MaxRevision \in Nat \ {0}
  /\ Methods \subseteq {"render", "render_prepared", "prepare", "capture", "interact"}
  /\ Actions \subseteq {"selection", "selection_text", "find"}
  /\ RemoteImages \in BOOLEAN

VARIABLES
  documents, order, serial, outstanding,  \* the lane registry
  revision,          \* the buffer behind each document: its content revision
  rendererRevision,  \* the revision its session last saw rendered
  imagesArrived,     \* the remote images have been fetched
  queue,             \* jobs admitted and not started, the oldest first
  task,              \* the job that is running, with its local variables
  markdownCache, cacheOrder,
  interactionState,
  frames, frameOrder,  \* browser.documents: the rehydration records
  active,            \* browser.active, set and cleared together with its layout
  dom,               \* the markup setContent last put into the page
  reply              \* the answer this step sends, if it sends one

registry   == <<documents, order, serial, outstanding>>
client     == <<revision, rendererRevision>>
caches     == <<markdownCache, cacheOrder, interactionState>>
page       == <<frames, frameOrder, active, dom>>
vars       == <<registry, client, imagesArrived, queue, task, caches, page, reply>>

Registry == INSTANCE Lanes

NoTask   == [phase |-> "idle"]
NoMarkup == [documentId |-> "none"]
NoPage   == [documentId |-> "none"]
NoReply  == [status |-> "none"]

Markup == [documentId : Documents, revision : Revisions, placeholder : BOOLEAN]
Frame  == [contentRevision : Revisions, key : Revisions]
Job    == [ticket : Registry!Ticket, method : Methods, revision : Revisions,
           action : Actions \cup {"none"}, placeholder : BOOLEAN]

TypeOK ==
  /\ Registry!TypeOK /\ Len(order) <= MaxDocuments
  /\ revision \in [Documents -> Revisions]
  /\ rendererRevision \in [Documents -> Revisions \cup {NoRevision}]
  /\ imagesArrived \in BOOLEAN
  /\ queue \in Seq(Job)
  /\ task # NoTask =>
       /\ task.job \in Job
       /\ task.phase \in {"parse", "ensure", "load", "capture", "evaluate", "finish"}
       /\ task.markup \in Markup \cup {NoMarkup}
       /\ task.frame \in Frame \cup {NoPage}
  /\ Range(cacheOrder) = DOMAIN markdownCache /\ Len(cacheOrder) <= MaxCachedDocuments
  /\ \A d \in DOMAIN markdownCache : markdownCache[d] \in Markup
  /\ \A d \in DOMAIN interactionState :
       /\ interactionState[d].contentRevision \in Revisions
       /\ interactionState[d].selection \in Markup \cup {NoMarkup}
       /\ interactionState[d].find \in Markup \cup {NoMarkup}
  /\ Range(frameOrder) = DOMAIN frames /\ Len(frameOrder) <= MaxDocumentFrames
  /\ \A d \in DOMAIN frames : frames[d] \in Frame
  /\ active # NoPage => active \in [documentId : Documents, contentRevision : Revisions, key : Revisions]
  /\ dom \in Markup \cup {NoMarkup}

Init ==
  /\ Registry!Init
  /\ revision = [d \in Documents |-> 1]
  /\ rendererRevision = [d \in Documents |-> NoRevision]
  /\ imagesArrived = FALSE
  /\ queue = <<>> /\ task = NoTask
  /\ markdownCache = <<>> /\ cacheOrder = <<>>
  /\ interactionState = <<>>
  /\ frames = <<>> /\ frameOrder = <<>>
  /\ active = NoPage /\ dom = NoMarkup
  /\ reply = NoReply
-----------------------------------------------------------------------------
(***************************************************************************)
(* The stores.                                                             *)
(***************************************************************************)

\* f, and the recency order o, without the keys of D: there is never more than
\* one, for a lookup evicts at most one document.
Dropped(f, D) == Restrict(f, DOMAIN f \ D)
DroppedOrder(o, D) == IF D = {} THEN o ELSE Without(o, CHOOSE k \in D : TRUE)

browserForget(D) ==
  /\ frames' = Dropped(frames, D)
  /\ frameOrder' = DroppedOrder(frameOrder, D)
  /\ active' = IF active.documentId \in D THEN NoPage ELSE active
  /\ UNCHANGED dom

forgetDocument(D) ==
  /\ markdownCache' = Dropped(markdownCache, D)
  /\ cacheOrder' = DroppedOrder(cacheOrder, D)
  /\ interactionState' = Dropped(interactionState, D)
  /\ browserForget(D)

\* A mutation of onEvict: the registry drops its record and tells nobody.
onEvictNothing(D) == UNCHANGED <<caches, page>>

\* The registry calls back for every document it evicts while admitting another.
onEvict(D) == forgetDocument(D)

\* Keep m as the markup of d.  Unless it is the markup already kept (reused),
\* what the user had selected or searched for belongs to the old one and goes.
rememberMarkdown(d, m, reused) ==
  LET kept    == Touched(cacheOrder, d, MaxCachedDocuments)
      evicted == DOMAIN markdownCache \ Range(kept)
  IN  /\ cacheOrder' = kept
      /\ markdownCache' = [e \in Range(kept) |-> IF e = d THEN m ELSE markdownCache[e]]
      /\ interactionState' = Dropped(interactionState, evicted \cup (IF reused THEN {} ELSE {d}))
      /\ browserForget(evicted)

\* browser.rememberDocument: the record a later interaction rebuilds the page from.
rememberDocument(d, frame) ==
  LET kept == Touched(frameOrder, d, MaxDocumentFrames)
  IN  /\ frameOrder' = kept
      /\ frames' = [e \in Range(kept) |-> IF e = d THEN frame ELSE frames[e]]
-----------------------------------------------------------------------------
(***************************************************************************)
(* Requests, up to their first await.                                      *)
(***************************************************************************)

laneOf(method) ==
  CASE method \in {"render", "render_prepared", "prepare"} -> {"content"}
    [] method = "capture"  -> {"capture", "settle"}
    [] method = "interact" -> {"interact"}

\* A mutation of enqueued: a newer request replaces the waiting ones of its lane.
enqueuedAlone(job) ==
  Append(SelectSeq(queue, LAMBDA j : j.ticket.documentId # job.ticket.documentId
                                     \/ j.ticket.lane # job.ticket.lane), job)

\* The queue is a promise chain: nothing is ever taken out of its middle.
enqueued(job) == Append(queue, job)

\* The job enters the queue, or admit() throws and the refusal is the reply.
dispatch(d, method, action, rev) ==
  \E lane \in laneOf(method) :
    /\ \/ /\ Registry!admit(d, lane, rev)
          /\ queue' = enqueued(
               [ticket |-> Registry!ticketFor(d, lane), method |-> method,
                revision |-> rev, action |-> action,
                placeholder |-> RemoteImages /\ ~imagesArrived])
          /\ reply' = NoReply
       \/ /\ Registry!refuse(d, lane, rev)
          /\ reply' = [status |-> "refused", documentId |-> d, lane |-> lane]
          /\ UNCHANGED queue
    /\ onEvict(Registry!evictedBy(d))
    /\ UNCHANGED <<client, imagesArrived, task>>

\* A full render of the buffer as it is now, by whichever of the three methods.
Render(d) ==
  \E method \in Methods \cap {"render", "render_prepared", "prepare"} :
    dispatch(d, method, "none", revision[d])

\* capture_only: the session asks for pixels alone when the markup it last saw
\* rendered is the buffer's present revision.
Capture(d) ==
  /\ "capture" \in Methods
  /\ rendererRevision[d] = revision[d]
  /\ dispatch(d, "capture", "none", revision[d])

Interact(d) ==
  /\ "interact" \in Methods
  /\ rendererRevision[d] # NoRevision
  /\ \E action \in Actions : dispatch(d, "interact", action, rendererRevision[d])

\* Not queued.  The session that owned the document is gone with it.
Forget(d) ==
  /\ Registry!forget(d)
  /\ forgetDocument({d})
  /\ rendererRevision' = [rendererRevision EXCEPT ![d] = NoRevision]
  /\ reply' = NoReply
  /\ UNCHANGED <<revision, imagesArrived, queue, task>>

\* The user types (changedtick), or refreshes by hand (render_epoch).
Edit(d) ==
  /\ revision[d] < MaxRevision
  /\ revision' = [revision EXCEPT ![d] = @ + 1]
  /\ reply' = NoReply
  /\ UNCHANGED <<registry, rendererRevision, imagesArrived, queue, task, caches, page>>

ImagesArrive ==
  /\ RemoteImages /\ ~imagesArrived
  /\ imagesArrived' = TRUE
  /\ reply' = NoReply
  /\ UNCHANGED <<registry, client, queue, task, caches, page>>
-----------------------------------------------------------------------------
(***************************************************************************)
(* The queue.  A task is popped, runs, and is answered; `finally` releases *)
(* its ticket in every case.                                               *)
(***************************************************************************)
head == Head(queue)
current == Registry!isStale(head.ticket) = FALSE
isContent(job) == job.ticket.lane = "content"

\* The job at the head of the queue starts, and has not been superseded.
Starts ==
  /\ task = NoTask
  /\ queue # <<>>
  /\ current
  /\ queue' = Tail(queue)
  /\ UNCHANGED <<client, imagesArrived>>

\* The first await of the task that starts.
awaits(phase, m, frame) ==
  /\ task' = [job |-> head, phase |-> phase, markup |-> m, frame |-> frame]
  /\ reply' = NoReply
  /\ UNCHANGED registry

\* The task of job is over; the session notes what it has seen rendered.
answer(job, status, m) ==
  /\ reply' = [status |-> status, job |-> job, answer |-> m, shown |-> dom]
  /\ Registry!release(job.ticket)
  /\ task' = NoTask

sees(job) ==
  rendererRevision' = [rendererRevision EXCEPT ![job.ticket.documentId] = job.revision]

DropStale ==
  /\ task = NoTask
  /\ queue # <<>>
  /\ ~current
  /\ queue' = Tail(queue)
  /\ answer(head, "stale", NoMarkup)
  /\ UNCHANGED <<client, imagesArrived, caches, page>>

cached == head.ticket.documentId \in DOMAIN markdownCache
cachedMarkup == markdownCache[head.ticket.documentId]

\* The cached markup answers this revision, and is final.
reusable == cached /\ cachedMarkup.revision = head.revision /\ ~cachedMarkup.placeholder

StartReused ==
  /\ Starts
  /\ head.method \in {"render", "render_prepared"}
  /\ reusable
  /\ rememberMarkdown(head.ticket.documentId, cachedMarkup, TRUE)
  /\ awaits("ensure", cachedMarkup, NoPage)

\* The markup came with the request, sanitized by the `prepare` of another process.
StartPrepared ==
  /\ Starts
  /\ head.method = "render_prepared"
  /\ ~reusable
  /\ LET m == [documentId |-> head.ticket.documentId, revision |-> head.revision,
               placeholder |-> head.placeholder]
     IN  rememberMarkdown(head.ticket.documentId, m, FALSE) /\ awaits("ensure", m, NoPage)

StartParse ==
  /\ Starts
  /\ head.method = "prepare" \/ (head.method = "render" /\ ~reusable)
  /\ awaits("parse", NoMarkup, NoPage)
  /\ UNCHANGED <<caches, page>>

StartCapture ==
  /\ Starts
  /\ head.method = "capture"
  /\ cached
  /\ rememberMarkdown(head.ticket.documentId, cachedMarkup, TRUE)
  /\ awaits("ensure", cachedMarkup, NoPage)

CaptureCacheMiss ==
  /\ Starts
  /\ head.method = "capture"
  /\ ~cached
  /\ answer(head, "error", NoMarkup)
  /\ UNCHANGED <<caches, page>>

\* ensureDocumentActive refuses what it could not rebuild exactly.
frameMatches ==
  /\ head.ticket.documentId \in DOMAIN frames
  /\ cached
  /\ frames[head.ticket.documentId].contentRevision = head.revision

StartInteract ==
  /\ Starts
  /\ head.method = "interact"
  /\ frameMatches
  /\ awaits("ensure", cachedMarkup, frames[head.ticket.documentId])
  /\ UNCHANGED <<caches, page>>

InteractCacheMiss ==
  /\ Starts
  /\ head.method = "interact"
  /\ ~frameMatches
  /\ answer(head, "error", NoMarkup)
  /\ UNCHANGED <<caches, page>>
-----------------------------------------------------------------------------
(***************************************************************************)
(* The running task, one action per stretch between two awaits.            *)
(***************************************************************************)
job == task.job
doc == job.ticket.documentId

Runs(phase) ==
  /\ task # NoTask
  /\ task.phase = phase
  /\ UNCHANGED <<queue, revision, imagesArrived>>

goesOn(phase) ==
  /\ task' = [task EXCEPT !.phase = phase]
  /\ reply' = NoReply
  /\ UNCHANGED <<registry, rendererRevision>>

\* renderMarkdown resolved.  It does not wait for a remote image: one that has
\* not arrived is a placeholder.
parsed ==
  [documentId |-> doc, revision |-> job.revision,
   placeholder |-> RemoteImages /\ ~imagesArrived]

ParseRendered ==
  /\ Runs("parse")
  /\ job.method = "render"
  /\ rememberMarkdown(doc, parsed, FALSE)
  /\ task' = [task EXCEPT !.phase = "ensure", !.markup = parsed]
  /\ reply' = NoReply
  /\ UNCHANGED <<registry, rendererRevision>>

\* A mutation of outcome: the ticket is only looked at when the task starts.
outcomeUnchecked == "ok"

\* How a task that came to its end is answered: its ticket is looked at again.
outcome == IF Registry!isStale(job.ticket) THEN "stale" ELSE "ok"

\* `prepare` stops before the browser, and checks its ticket on the way out.
ParsePrepared ==
  /\ Runs("parse")
  /\ job.method = "prepare"
  /\ answer(job, outcome, parsed)
  /\ UNCHANGED <<rendererRevision, caches, page>>

\* The layout key of the task: the markdown key of its markup, or for an
\* interaction that of the record it must rebuild.
taskKey == IF job.method = "interact" THEN task.frame.key ELSE task.markup.revision

\* A mutation of layoutReused: the layout of another document will do.
layoutReusedByKey == active # NoPage /\ active.key = taskKey

layoutReused ==
  /\ active # NoPage
  /\ active.documentId = doc
  /\ active.key = taskKey
  /\ job.method = "interact" => active.contentRevision = job.revision

UseLayout ==
  /\ Runs("ensure")
  /\ layoutReused
  /\ goesOn(IF job.method = "interact" THEN "evaluate" ELSE "capture")
  /\ UNCHANGED <<caches, page>>

LoadDocument ==
  /\ Runs("ensure")
  /\ ~layoutReused
  /\ goesOn("load")
  /\ active' = NoPage
  /\ UNCHANGED <<caches, frames, frameOrder, dom>>

Loaded ==
  /\ Runs("load")
  /\ goesOn(IF job.method = "interact" THEN "evaluate" ELSE "capture")
  /\ active' = [documentId |-> doc, contentRevision |-> job.revision, key |-> taskKey]
  /\ dom' = task.markup
  /\ UNCHANGED <<caches, frames, frameOrder>>

\* The screenshot resolved.  The frame's record is written before the ticket is
\* looked at again; reading a layout that `forget` has cleared is a TypeError.
Captured ==
  /\ Runs("capture")
  /\ active # NoPage
  /\ rememberDocument(doc, [contentRevision |-> job.revision, key |-> taskKey])
  /\ answer(job, outcome, task.markup)
  /\ IF outcome = "ok" THEN sees(job) ELSE UNCHANGED rendererRevision
  /\ UNCHANGED <<caches, active, dom>>

\* The in-page function of the action ran against whatever the page holds.
Evaluated ==
  /\ Runs("evaluate")
  /\ active # NoPage
  /\ task' = [task EXCEPT !.phase = "finish", !.markup = dom]
  /\ reply' = NoReply
  /\ UNCHANGED <<registry, rendererRevision, caches, page>>

interactionStateFor(d, rev) ==
  IF d \in DOMAIN interactionState /\ interactionState[d].contentRevision = rev
  THEN interactionState[d]
  ELSE [contentRevision |-> rev, selection |-> NoMarkup, find |-> NoMarkup]

\* Only a successful interact creates or touches interaction state.
InteractDone ==
  /\ Runs("finish")
  /\ outcome = "ok"
  /\ LET state == interactionStateFor(doc, job.revision)
         next  == CASE job.action = "selection" -> [state EXCEPT !.selection = task.markup]
                    [] job.action = "find"      -> [state EXCEPT !.find = task.markup]
                    [] OTHER                    -> state
     IN  interactionState' = [e \in DOMAIN interactionState \cup {doc} |->
                                IF e = doc THEN next ELSE interactionState[e]]
  /\ answer(job, "ok", task.markup)
  /\ UNCHANGED <<rendererRevision, markdownCache, cacheOrder, page>>

InteractStale ==
  /\ Runs("finish")
  /\ outcome = "stale"
  /\ answer(job, "stale", task.markup)
  /\ UNCHANGED <<rendererRevision, caches, page>>

\* setContent, or one of the measurements after it, may reject: the page then holds
\* the old markup or the new one, and `active` is not set.
LoadRejects ==
  /\ Runs("load")
  /\ dom' \in {dom, task.markup}
  /\ answer(job, "error", NoMarkup)
  /\ UNCHANGED <<rendererRevision, caches, frames, frameOrder, active>>

\* Any other await may reject (a parse error, a Chromium that died or timed out),
\* and a task that finds the page gone rejects in the same way.
AwaitRejects ==
  /\ \E phase \in {"parse", "ensure", "capture", "evaluate", "finish"} : Runs(phase)
  /\ answer(job, "error", NoMarkup)
  /\ UNCHANGED <<rendererRevision, caches, page>>
-----------------------------------------------------------------------------
Start ==
  \/ DropStale \/ StartReused \/ StartPrepared \/ StartParse
  \/ StartCapture \/ CaptureCacheMiss \/ StartInteract \/ InteractCacheMiss

Continue ==
  \/ ParseRendered \/ ParsePrepared \/ UseLayout \/ LoadDocument \/ Loaded
  \/ Captured \/ Evaluated \/ InteractDone \/ InteractStale
  \/ LoadRejects \/ AwaitRejects

Client ==
  \E d \in Documents : Render(d) \/ Capture(d) \/ Interact(d) \/ Forget(d) \/ Edit(d)

Next == Client \/ ImagesArrive \/ Start \/ Continue

Spec == Init /\ [][Next]_vars

\* Every await of a task settles: Chromium answers or its connection breaks, the
\* capture over CDP has a timeout of its own, and the parser is finite.  The event
\* loop runs the continuation, and the next task follows on the promise chain.
FairSpec == Spec /\ WF_vars(Start) /\ WF_vars(Continue)
-----------------------------------------------------------------------------
(***************************************************************************)
(* Properties.                                                             *)
(***************************************************************************)

\* The service as a whole keeps the promise of the lanes: the requests waiting are
\* those of the queue and of the running task, and they are cancelled and answered
\* as the abstract rule says.  In particular an admitted request is answered once,
\* and never disappears from the queue.
inFlight == {queue[i].ticket : i \in DOMAIN queue}
              \cup (IF task = NoTask THEN {} ELSE {task.job.ticket})

Promise == INSTANCE LatestWins
             WITH waiting <- {Registry!request(t) : t \in inFlight},
                  doomed  <- {Registry!request(t) : t \in {u \in inFlight : Registry!isStale(u)}},
                  Serials <- 1 .. MaxRequests

KeepsThePromise == Promise!Spec

\* No request is answered ok once a newer request of its lane, or a newer
\* content request, of the same document has been read: what reaches the screen
\* is never older than what was last asked for.
OkIsNewest ==
  reply.status = "ok" =>
    \A u \in outstanding :
      (/\ u.documentId = reply.job.ticket.documentId
       /\ u.serial > reply.job.ticket.serial)
      => u.lane \notin {reply.job.ticket.lane, "content"}

\* A request is abandoned as stale only for a newer request that is itself still
\* to be answered, or because its document was lost after it was admitted.
StaleOnlyIfCancelled ==
  reply.status = "stale" =>
    LET t == reply.job.ticket
    IN  \/ \E u \in outstanding : /\ u.documentId = t.documentId
                                 /\ u.serial > t.serial
                                 /\ u.lane \in {t.lane, "content"}
        \/ t.documentId \notin DOMAIN documents
        \/ documents[t.documentId].lanes[t.lane] < t.serial

\* Both together: among requests of one document, an answer is refused as stale
\* exactly for the ones that came later and obsolete it (service.js enqueue).
StaleExactlyIfOvertaken == OkIsNewest /\ StaleOnlyIfCancelled

\* The one page is shared by all documents, and a frame or an interaction result
\* is still always that of the document and the content revision its request
\* named, whatever was loaded, forgotten or evicted while it waited.
AnswersOwnRevision ==
  reply.status = "ok" /\ reply.job.method # "prepare" =>
    LET seen == IF reply.job.method = "interact" THEN reply.answer ELSE reply.shown
    IN  /\ seen.documentId = reply.job.ticket.documentId
        /\ seen.revision = reply.job.revision

\* What is remembered of a selection or a search was taken from the revision
\* whose markup is cached, for a document that has not been forgotten.
InteractionStateCurrent ==
  \A d \in DOMAIN interactionState :
    /\ d \in DOMAIN markdownCache
    /\ d \in DOMAIN documents
    /\ interactionState[d].contentRevision = markdownCache[d].revision
    /\ \A m \in {interactionState[d].selection, interactionState[d].find} :
         m # NoMarkup => m.documentId = d /\ m.revision = markdownCache[d].revision

\* The frame of a render shows the markup the render was answered with.
FrameShowsAnswer ==
  reply.status = "ok" /\ reply.job.method \in {"render", "render_prepared", "capture"} =>
    reply.shown = reply.answer

\* Both: what an answer says and what its frame shows are one, and are what the
\* request named, although one page and one queue serve every document
\* (service.js run, browser.js ensureDocumentActive).
AnswersAreOwn == AnswersOwnRevision /\ FrameShowsAnswer

\* Every request that is admitted is answered.
EveryRequestAnswered ==
  \A n \in 1 .. MaxRequests :
    (\E t \in outstanding : t.serial = n) ~> (\A t \in outstanding : t.serial # n)
=============================================================================
