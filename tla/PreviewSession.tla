---------------------------- MODULE PreviewSession ----------------------------
(***************************************************************************)
(* lua/md-viewer/controller.lua over renderer.lua, debounce.lua and        *)
(* process.lua: one preview document inside Neovim, on the direct path     *)
(* (a PNG per frame, kitty_raw backend).                                   *)
(*                                                                         *)
(* Neovim runs one handler at a time.  Timers and replies are posted to    *)
(* its event queue (loop) by vim.schedule; once Neovim starts on the queue *)
(* it empties it, the callbacks that callbacks post included, before it    *)
(* reads a key or polls a pipe again (draining).  The renderer answers the *)
(* requests of this document in the order they were sent; which answers    *)
(* are stale is decided here by request_serial, whatever the renderer says.*)
(*                                                                         *)
(* request_serial is only ever compared for equality with the serial of a  *)
(* request, so a request carries, in its place, whether it is the newest:  *)
(* advancing the serial makes every request before it not current.         *)
(*                                                                         *)
(* A revision is changedtick:render_epoch, a position a scroll offset, and *)
(* a text is named by the revision the buffer had when it was read.        *)
(* Left out: the resident path (unreached), local mode, interactions, the  *)
(* cells backend, animations, a cached image the backend refuses, and the  *)
(* clamping of a position to a document that an edit has made shorter.     *)
(***************************************************************************)
EXTENDS Naturals, Sequences, FiniteSets, SequencesExt

CONSTANTS
  Positions,     \* scroll offsets, 0 among them
  FastScroll,    \* config render.fast_scroll
  Spinner,       \* config preview.loading
  CursorFollow,  \* config sync.cursor_follow
  Batched,       \* whether Neovim may be busy while several events come in
  SilentFloats,  \* whether a float may come or go without an autocommand
  FailFirst,     \* whether a render may fail before a first one has succeeded
  Budgets,       \* bound: the scenarios, each saying how often each event may happen
  MaxPipe        \* bound: requests of the document unanswered at once

Events == {"edit", "scroll", "float", "switch", "fail", "crash"}

ASSUME SessionAssumption ==
  /\ 0 \in Positions
  /\ {FastScroll, Spinner, CursorFollow, Batched, SilentFloats, FailFirst} \subseteq BOOLEAN
  /\ Budgets \subseteq [Events -> Nat]
  /\ MaxPipe \in Nat \ {0}

VARIABLES
  session,   \* the fields of the session table
  timers,    \* its debounce timers that are running
  loop,      \* callbacks posted to Neovim's event queue, the oldest first
  draining,  \* Neovim is emptying the queue
  pipe,      \* requests the renderer has not answered, the oldest first
  cached,    \* the markup of the document the renderer holds: of what revision and text
  covered,   \* the pane is behind a float, or its tabpage is hidden
  revision,  \* of the source buffer
  asked,     \* the position the user last asked for
  left,      \* what is left of the scenario's budget
  mislabelled, \* the revisions an older text was asked for under (history)
  takenBack    \* whether a reply took the position back that was asked for last (history)

state == <<session, timers, loop, draining, pipe, cached, covered, revision, asked, left>>
vars  == <<state, mislabelled, takenBack>>

TimerNames == {"render_timer", "scroll_settle_timer", "cursor_scroll_timer"}

NoImage == [revision |-> 0, text |-> 0, scroll |-> 0, scale |-> "none"]
NoMarkup == [revision |-> 0, text |-> 0]
NoFrame == [revision |-> 0, scroll |-> 0, up |-> FALSE]

Revisions == UNION {1 .. (1 + budget["edit"]) : budget \in Budgets}
Image   == [revision : Revisions, text : Revisions, scroll : Positions, scale : {"css", "device"}]
Options == [capture_scale : {"css", "device"}, capture_only : BOOLEAN, scroll_frame : BOOLEAN]
Request == [current : BOOLEAN, method : {"render", "capture"}, image : Image, options : Options]

\* The three kinds of frame the controller asks for.
contentFrame == [capture_scale |-> "device", capture_only |-> FALSE, scroll_frame |-> FALSE]
settleFrame  == [capture_scale |-> "device", capture_only |-> TRUE,  scroll_frame |-> FALSE]
movingFrame  == [capture_scale |-> IF FastScroll THEN "css" ELSE "device",
                 capture_only |-> TRUE, scroll_frame |-> TRUE]

TypeOK ==
  /\ session \in [life : {"active", "inactive", "closed"},
                  scroll_y : Positions, applied_scroll_y : Positions,
                  renderer_revision : Revisions \cup {0},
                  scroll_render_in_flight : BOOLEAN, scroll_render_pending : BOOLEAN,
                  refresh_deferred : BOOLEAN, render_failed : BOOLEAN, loading : BOOLEAN,
                  last_image : Image \cup {NoImage}, image : Image \cup {NoImage},
                  frame : [revision : Nat, scroll : Positions, up : BOOLEAN]]
  /\ timers \subseteq TimerNames
  /\ \A i \in DOMAIN loop : loop[i].kind \in {"reply", "scroll", "reconcile", "poll"} \cup TimerNames
  /\ draining \in BOOLEAN
  /\ pipe \in Seq(Request) /\ Len(pipe) + Len(loop) <= MaxPipe
  /\ cached \in [revision : Revisions, text : Revisions] \cup {NoMarkup}
  /\ covered \in BOOLEAN
  /\ revision \in Revisions /\ asked \in Positions
  /\ left \in [Events -> Nat]
  /\ mislabelled \subseteq Revisions /\ takenBack \in BOOLEAN

Init ==
  /\ session = [life |-> "inactive", scroll_y |-> 0, applied_scroll_y |-> 0,
                renderer_revision |-> 0,
                scroll_render_in_flight |-> FALSE, scroll_render_pending |-> FALSE,
                refresh_deferred |-> FALSE, render_failed |-> FALSE, loading |-> FALSE,
                last_image |-> NoImage, image |-> NoImage, frame |-> NoFrame]
  /\ timers = {} /\ loop = <<>> /\ draining = FALSE
  /\ pipe = <<>> /\ cached = NoMarkup
  /\ revision = 1 /\ asked = 0
  /\ left \in Budgets
  /\ covered \in (IF left["float"] > 0 THEN BOOLEAN ELSE {FALSE})
  /\ mislabelled = {} /\ takenBack = FALSE
-----------------------------------------------------------------------------
(***************************************************************************)
(* What handlers do, as operators on the session s they have got so far,   *)
(* and actions that end a handler by giving session', pipe' and loop'.     *)
(***************************************************************************)
valid(s) == s.life = "active"

\* session.request_serial = session.request_serial + 1, seen from the requests
superseded(r) == [r EXCEPT !.current = FALSE]
allSuperseded(requests) == [i \in DOMAIN requests |-> superseded(requests[i])]
repliesSuperseded(items) ==
  [i \in DOMAIN items |->
     IF items[i].kind = "reply" THEN [items[i] EXCEPT !.request = superseded(@)] ELSE items[i]]

clear_image(s) == [s EXCEPT !.image = NoImage, !.frame = NoFrame]

\* renderer.request: the newest request, or the newest capture if the renderer has
\* rendered this very revision.
newRequest(s, rev, text, options) ==
  [current |-> TRUE,
   method  |-> IF options.capture_only /\ s.renderer_revision = rev THEN "capture" ELSE "render",
   image   |-> [revision |-> rev, text |-> text, scroll |-> s.scroll_y,
                scale |-> options.capture_scale],
   options |-> options]

request(s, rev, text, options, items) ==
  /\ session' = s
  /\ pipe' = Append(allSuperseded(pipe), newRequest(s, rev, text, options))
  /\ loop' = repliesSuperseded(items)

\* on_complete, which only a moving frame has: the next one may go, and goes, on the
\* next turn of the event queue, if a scroll was coalesced meanwhile.
completed(s, options) ==
  IF ~options.scroll_frame THEN s
  ELSE [s EXCEPT !.scroll_render_in_flight = FALSE,
                 !.scroll_render_pending = IF valid(s) THEN FALSE ELSE @]

followUp(s, options) ==
  IF options.scroll_frame /\ valid(s) /\ s.scroll_render_pending THEN <<[kind |-> "scroll"]>> ELSE <<>>

complete(s, options, items) ==
  /\ session' = completed(s, options)
  /\ loop' = items \o followUp(s, options)
  /\ UNCHANGED pipe

refreshAt(s, rev, options, items) ==
  LET begun == [s EXCEPT !.render_failed = FALSE]
  IN  IF covered
      THEN complete([clear_image(begun) EXCEPT !.refresh_deferred = TRUE], options, items)
      ELSE request(begun, rev, rev, options, items)

refresh(s, options, items) == refreshAt(s, revision, options, items)

\* One capture at a time: a scroll while one is in flight is coalesced.
scrollRefresh(s, items) ==
  IF s.scroll_render_in_flight
  THEN session' = [s EXCEPT !.scroll_render_pending = TRUE] /\ loop' = items /\ UNCHANGED pipe
  ELSE refresh([s EXCEPT !.scroll_render_in_flight = TRUE], movingFrame, items)

\* A mutation of schedule_scroll: the soft moving frame is never settled.
schedule_scrollUnsettled(s, items) == scrollRefresh(s, items) /\ UNCHANGED timers

schedule_scroll(s, items) ==
  /\ scrollRefresh(s, items)
  /\ timers' = timers \cup (IF FastScroll THEN {"scroll_settle_timer"} ELSE {})

\* A mutation of resumed: the cached image is taken to show the wanted position.
resumedByWish(s) ==
  IF s.last_image = NoImage THEN s
  ELSE [s EXCEPT !.loading = FALSE, !.image = s.last_image, !.refresh_deferred = FALSE,
                 !.frame = [revision |-> s.renderer_revision, scroll |-> s.scroll_y, up |-> TRUE]]

\* "if not show_cached(session) then M.schedule(session, 0) end", uncovered.
resumed(s) ==
  IF s.last_image = NoImage THEN s
  ELSE [s EXCEPT !.loading = FALSE, !.image = s.last_image, !.frame = NoFrame,
                 !.refresh_deferred = FALSE]

resume(s) ==
  /\ session' = resumed(s)
  /\ timers' = IF s.last_image = NoImage \/ s.refresh_deferred
               THEN timers \cup {"render_timer"} ELSE timers

\* reconcile_occlusion, for this session
reconcile(s) ==
  CASE covered                          -> session' = clear_image(s) /\ UNCHANGED timers
    [] ~covered /\ s.image # NoImage    -> session' = s /\ UNCHANGED timers
    [] ~covered /\ s.image = NoImage    -> resume(s)
-----------------------------------------------------------------------------
(***************************************************************************)
(* The renderer, and the process boundary.                                 *)
(***************************************************************************)
mayPost == ~draining /\ (Batched \/ loop = <<>>)

\* A callback leads to one request at most: this keeps the pipe within its bound.
room == Len(pipe) + Len(loop) < MaxPipe

reply(r, result) == [kind |-> "reply", request |-> r, result |-> result]
spend(event) == left[event] > 0 /\ left' = [left EXCEPT ![event] = @ - 1]

\* A capture shows the markup the renderer holds, a render that of its own revision if
\* that is what the renderer holds, and its text else.
markupFor(r) ==
  IF r.method = "capture" \/ cached.revision = r.image.revision THEN cached
  ELSE [revision |-> r.image.revision, text |-> r.image.text]

\* A render that a later one has superseded may have been dropped before it got as far
\* as the cache.
Answer ==
  /\ mayPost
  /\ pipe # <<>>
  /\ LET r == Head(pipe)
         later == \E i \in 2 .. Len(pipe) : pipe[i].method = "render"
         result == IF r.method = "capture" /\ cached = NoMarkup THEN "miss" ELSE "ok"
         shown == [r EXCEPT !.image.text = IF result = "ok" THEN markupFor(r).text ELSE @]
     IN  /\ cached' \in {markupFor(r)} \cup (IF later THEN {cached} ELSE {})
         /\ loop' = Append(loop, reply(shown, result))
  /\ pipe' = Tail(pipe)
  /\ UNCHANGED <<session, timers, draining, covered, revision, asked, left>>

\* The markup cache is full, and other documents are used more.
Evict ==
  /\ spend("crash")
  /\ cached # NoMarkup
  /\ cached' = NoMarkup
  /\ UNCHANGED <<session, timers, loop, draining, pipe, covered, revision, asked>>

mayFail == FailFirst \/ session.last_image # NoImage

AnswerError ==
  /\ mayPost /\ mayFail
  /\ pipe # <<>>
  /\ spend("fail")
  /\ loop' = Append(loop, reply(Head(pipe), "error"))
  /\ pipe' = Tail(pipe)
  /\ UNCHANGED <<session, timers, draining, cached, covered, revision, asked>>

\* The child exits: every callback is posted with an error, in no particular order,
\* and the next request starts a renderer that has rendered nothing.
Crash ==
  /\ mayPost /\ mayFail
  /\ spend("crash")
  /\ \E order \in {p \in [DOMAIN pipe -> DOMAIN pipe] : Range(p) = DOMAIN pipe} :
       loop' = loop \o [i \in DOMAIN pipe |-> reply(pipe[order[i]], "error")]
  /\ pipe' = <<>>
  /\ cached' = NoMarkup
  /\ UNCHANGED <<session, timers, draining, covered, revision, asked>>

TimerFires(name) ==
  /\ mayPost /\ room
  /\ name \in timers
  /\ timers' = timers \ {name}
  /\ loop' = Append(loop, [kind |-> name])
  /\ UNCHANGED <<session, draining, pipe, cached, covered, revision, asked, left>>

\* The timer of start_ui_poll, every 50 ms while the session is active.
PollTick ==
  /\ mayPost /\ room
  /\ valid(session)
  /\ \A i \in DOMAIN loop : loop[i].kind # "poll"
  /\ loop' = Append(loop, [kind |-> "poll"])
  /\ UNCHANGED <<session, timers, draining, pipe, cached, covered, revision, asked, left>>
-----------------------------------------------------------------------------
(***************************************************************************)
(* The callbacks on the event queue.                                       *)
(***************************************************************************)
item == Head(loop)
rest == Tail(loop)

Runs(kind) ==
  /\ loop # <<>>
  /\ item.kind = kind
  /\ UNCHANGED <<cached, covered, revision, asked>>

\* A callback that finds the session closed or inactive does nothing.
RunInvalid ==
  /\ ~valid(session)
  /\ \E kind \in {"scroll", "reconcile", "poll"} \cup TimerNames : Runs(kind)
  /\ loop' = rest
  /\ UNCHANGED <<session, timers, pipe, left>>

RunRenderTimer ==
  /\ valid(session)
  /\ Runs("render_timer")
  /\ refresh(session, contentFrame, rest)
  /\ UNCHANGED <<timers, left>>

RunSettleTimer ==
  /\ valid(session)
  /\ Runs("scroll_settle_timer")
  /\ refresh(session, settleFrame, rest)
  /\ UNCHANGED <<timers, left>>

RunScroll ==
  /\ valid(session)
  /\ \E kind \in {"scroll", "cursor_scroll_timer"} : Runs(kind)
  /\ schedule_scroll(session, rest)
  /\ UNCHANGED left

RunReconcile ==
  /\ valid(session)
  /\ Runs("reconcile")
  /\ reconcile(session)
  /\ loop' = rest
  /\ UNCHANGED <<pipe, left>>

\* A poll leaves a pane alone whose first frame is awaited, or has failed.
RunPoll ==
  /\ valid(session)
  /\ Runs("poll")
  /\ IF covered \/ session.image # NoImage \/ ~(session.loading \/ session.render_failed)
     THEN reconcile(session)
     ELSE UNCHANGED <<session, timers>>
  /\ loop' = rest
  /\ UNCHANGED <<pipe, left>>

is_stale == ~valid(session) \/ ~item.request.current

ReplyStale ==
  /\ Runs("reply")
  /\ is_stale
  /\ complete(session, item.request.options, rest)
  /\ UNCHANGED <<timers, left>>

\* "capture cache missing": the same frame again, by a full render of the text that was
\* read for the capture, under the revision the buffer has by now.
ReplyMiss ==
  /\ Runs("reply")
  /\ ~is_stale
  /\ item.result = "miss"
  /\ request(session, revision, item.request.image.text,
             [item.request.options EXCEPT !.capture_only = FALSE], rest)
  /\ UNCHANGED <<timers, left>>

ReplyError ==
  /\ Runs("reply")
  /\ ~is_stale
  /\ item.result = "error"
  /\ complete([session EXCEPT !.render_failed = TRUE, !.loading = FALSE], item.request.options, rest)
  /\ UNCHANGED <<timers, left>>

newer_scroll_pending(s, options) == options.scroll_frame /\ s.scroll_render_pending

\* The session once the reply to r is accepted, before anything is displayed.
accepted(s, r) ==
  [s EXCEPT !.renderer_revision = r.image.revision,
            !.scroll_y = IF newer_scroll_pending(s, r.options) THEN @ ELSE r.image.scroll,
            !.applied_scroll_y = r.image.scroll,
            !.last_image = r.image]

\* What apply_image says the frame on screen is a picture of.
vouched(s) == [revision |-> s.renderer_revision, scroll |-> s.applied_scroll_y, up |-> TRUE]

apply_image(s) ==
  [s EXCEPT !.loading = FALSE, !.image = s.last_image, !.frame = vouched(s)]

ReplyOk ==
  /\ Runs("reply")
  /\ ~is_stale
  /\ item.result = "ok"
  /\ LET s == accepted(session, item.request)
     IN  complete(IF covered THEN clear_image(s) ELSE apply_image(s), item.request.options, rest)
  /\ UNCHANGED <<timers, left>>

\* The backend refuses the frame: what was on the screen stays there.
ReplyNotDisplayed ==
  /\ Runs("reply")
  /\ ~is_stale
  /\ item.result = "ok"
  /\ ~covered
  /\ mayFail
  /\ spend("fail")
  /\ complete([accepted(session, item.request) EXCEPT !.loading = FALSE, !.render_failed = TRUE],
              item.request.options, rest)
  /\ UNCHANGED timers

RunLoop ==
  /\ \/ RunInvalid \/ RunRenderTimer \/ RunSettleTimer \/ RunScroll \/ RunReconcile \/ RunPoll
     \/ ReplyStale \/ ReplyMiss \/ ReplyError \/ ReplyOk \/ ReplyNotDisplayed
  /\ draining' = (loop' # <<>>)
-----------------------------------------------------------------------------
(***************************************************************************)
(* The user, and the other windows.                                        *)
(***************************************************************************)

\* TextChanged; a document that is not shown is only marked dirty.
Edit ==
  /\ ~draining /\ spend("edit")
  /\ revision' = revision + 1
  /\ timers' = IF valid(session) THEN timers \cup {"render_timer"} ELSE timers
  /\ UNCHANGED <<session, loop, draining, pipe, cached, covered, asked>>

\* :MdViewerRefresh, with a new render_epoch
RefreshByHand ==
  /\ ~draining /\ room /\ spend("edit")
  /\ valid(session)
  /\ revision' = revision + 1
  /\ refreshAt(session, revision + 1, contentFrame, loop)
  /\ UNCHANGED <<timers, draining, cached, covered, asked>>

\* The height of a document is known once it has been rendered.
canScroll(p) == valid(session) /\ session.renderer_revision # 0 /\ p # session.scroll_y

\* scroll_to: a key or the wheel over the preview
Scroll(p) ==
  /\ ~draining /\ room /\ spend("scroll")
  /\ canScroll(p)
  /\ asked' = p
  /\ schedule_scroll([session EXCEPT !.scroll_y = p], loop)
  /\ UNCHANGED <<draining, cached, covered, revision>>

\* sync.source_cursor: the cursor has moved to another block of the source
Follow(p) ==
  /\ CursorFollow
  /\ ~draining /\ spend("scroll")
  /\ canScroll(p)
  /\ asked' = p
  /\ session' = [session EXCEPT !.scroll_y = p]
  /\ timers' = timers \cup {"cursor_scroll_timer"}
  /\ UNCHANGED <<loop, draining, pipe, cached, covered, revision>>

\* A float comes over the pane or goes, with or without a WinNew or WinClosed.
Float ==
  /\ ~draining /\ room /\ spend("float")
  /\ covered' = ~covered
  /\ loop' \in ({Append(loop, [kind |-> "reconcile"])} \cup (IF SilentFloats THEN {loop} ELSE {}))
  /\ UNCHANGED <<session, timers, draining, pipe, cached, revision, asked>>

\* A mutation of put_away: the image is left to whoever draws there next.
put_awayKeepingImage(s) ==
  [s EXCEPT !.life = "inactive", !.loading = FALSE, !.last_image = NoImage,
            !.scroll_render_in_flight = FALSE, !.scroll_render_pending = FALSE]

\* A mutation of put_away: the scroll flags survive.
put_awayKeepingScroll(s) ==
  [clear_image(s) EXCEPT !.life = "inactive", !.loading = FALSE, !.last_image = NoImage]

\* deactivate_document, up to the timers
put_away(s) ==
  [clear_image(s) EXCEPT !.life = "inactive", !.loading = FALSE, !.last_image = NoImage,
                         !.scroll_render_in_flight = FALSE, !.scroll_render_pending = FALSE]

\* release_document, up to the timers
released(s) ==
  [clear_image(s) EXCEPT !.life = "closed", !.loading = FALSE, !.last_image = NoImage]

leave(s) ==
  /\ session' = s
  /\ timers' = {}
  /\ pipe' = allSuperseded(pipe)
  /\ loop' = repliesSuperseded(loop)
  /\ UNCHANGED <<draining, cached, covered, revision, asked>>

\* Another document of the pane is shown ...
Deactivate ==
  /\ ~draining /\ spend("switch")
  /\ valid(session)
  /\ leave(put_away(session))

\* ... or the preview is closed.
Close ==
  /\ ~draining /\ spend("switch")
  /\ session.life # "closed"
  /\ leave(released(session))

\* open, or activate_document
Activate ==
  /\ ~draining /\ room
  /\ session.life = "inactive"
  /\ refresh([session EXCEPT !.life = "active", !.loading = Spinner], contentFrame, loop)
  /\ UNCHANGED <<timers, draining, cached, covered, revision, asked, left>>

Environment ==
  \/ Edit \/ RefreshByHand \/ Float \/ Deactivate \/ Close \/ Activate
  \/ \E p \in Positions : Scroll(p) \/ Follow(p)
  \/ AnswerError \/ Crash \/ Evict

Step ==
  \/ Answer \/ RunLoop \/ PollTick
  \/ \E name \in TimerNames : TimerFires(name)
  \/ Environment

\* A frame at the position asked for is still to be requested: a timer runs or is posted
\* that will, or a scroll was coalesced behind a capture or deferred behind a float.
scrollWaits ==
  \/ timers # {} \/ \E i \in DOMAIN loop : loop[i].kind \in {"scroll"} \cup TimerNames
  \/ session.scroll_render_pending \/ session.refresh_deferred

\* The two ways in which the picture and the user part for good, each remembered where
\* it happens: a retry after a cache miss sends the text it had under the revision the
\* buffer has by now, and the reply to an earlier frame takes the position back to its
\* own while a newer scroll waits.
Next ==
  /\ Step
  /\ mislabelled' = mislabelled \cup
       {pipe'[i].image.revision : i \in {j \in DOMAIN pipe' : pipe'[j].image.text # pipe'[j].image.revision}}
  /\ takenBack' = (session'.scroll_y # asked' /\ (takenBack \/ scrollWaits))

Spec == Init /\ [][Next]_vars

\* The renderer answers what it is sent, Neovim returns to its event queue, and a
\* timer that is running fires.
Fairness ==
  /\ SF_state(Answer) /\ WF_state(RunLoop) /\ SF_state(PollTick)
  /\ \A name \in TimerNames : SF_state(TimerFires(name))

FairSpec == Spec /\ Fairness
-----------------------------------------------------------------------------
(***************************************************************************)
(* Properties.                                                             *)
(***************************************************************************)
outstandingRequests ==
  {<<"pipe", i>> : i \in DOMAIN pipe} \cup {<<"loop", i>> : i \in {j \in DOMAIN loop : loop[j].kind = "reply"}}

requestAt(o) == IF o[1] = "pipe" THEN pipe[o[2]] ELSE loop[o[2]].request

scrollFrames == {o \in outstandingRequests : requestAt(o).options.scroll_frame}

\* A scroll is never left waiting for a capture nobody is making: while the flag that
\* holds scrolls back is up, the reply that takes it down is still to come, and a
\* scroll is only ever coalesced into a capture in flight.
ScrollNeverStuck ==
  session.life # "closed" =>
    /\ session.scroll_render_in_flight => scrollFrames # {}
    /\ session.scroll_render_pending => session.scroll_render_in_flight

\* What the session vouches for is what is on the screen: the selection, the caret
\* and a click are resolved against frame_scroll_y and frame_revision.
FrameIsPicture ==
  session.frame.up =>
    /\ session.frame.revision = session.image.revision
    /\ session.frame.scroll = session.image.scroll

\* A document that is not shown, or closed, owns nothing on the screen and no timer,
\* whatever replies and callbacks of its are still on their way.
AwayShowsNothing ==
  ~valid(session) =>
    /\ session.image = NoImage /\ session.last_image = NoImage
    /\ ~session.loading
    /\ timers = {}

\* The frame the user is to see in the end: of the revision the buffer has and of its
\* text, at the position asked for, at full resolution.
wanted(image) ==
  /\ image.revision = revision
  /\ image.text = revision \/ revision \in mislabelled
  /\ image.scroll = session.scroll_y
  /\ session.scroll_y = asked \/ takenBack
  /\ image.scale = "device"

\* Nothing more is under way, and nothing excuses a picture other than the wanted one:
\* the pane is in sight, no error was reported and no refresh deferred.
atRest ==
  /\ valid(session) /\ ~covered /\ ~session.render_failed /\ ~session.refresh_deferred
  /\ timers = {} /\ loop = <<>> /\ pipe = <<>>

\* "so the picture and the buffer never drift apart" (README.md, line 21): at rest the
\* picture is of the text of the buffer.
NeverDriftApart == atRest => session.image.text = revision

\* No reply takes the preview back to a position the user has left: "Preserve a newer
\* requested position while showing this completed frame" (controller.lua, line 799).
PositionKept == session.scroll_y = asked

\* The preview catches up with its user: once edits, scrolls, floats and switches
\* cease, it shows the wanted image for good, unless an error was reported or a
\* refresh is still deferred.  The text is the buffer's unless this revision was asked
\* for with an older one after a cache miss (renderer.lua, line 268), and the position
\* the one asked for unless a reply took it back while the scroll waited (line 802).
Converges ==
  <>[](valid(session) /\ ~covered /\ ~session.render_failed /\ ~session.refresh_deferred
         => wanted(session.image))

\* "show_cached() replays it once the image can be displayed again" (controller.lua,
\* line 711): a refresh deferred while the pane was covered is not lost.
DeferredIsReplayed ==
  (valid(session) /\ session.refresh_deferred /\ ~covered)
    ~> (~valid(session) \/ covered \/ session.render_failed \/ wanted(session.image))
=============================================================================
