# Formal specifications of md-viewer.nvim

TLA+ modules for the parts of md-viewer.nvim in which order matters, TLC
configurations that check them on small instances, and TLAPS proofs, for every
instance, of the safety of the lane registry, the service around it, Chromium's
life, the preview session, the helper's filter and the attach to it. Paths are
relative to the repository, which the manifest calls `src/`: `src/lua/md-viewer/`
is the plugin, `src/renderer/src/` the renderer.

    tlc -workers 2 -config MCLanes.cfg MCLanes     # a run
    tlapm LanesProofs.tla                          # the proofs; likewise the other *Proofs

`PROJECT.json` maps each definition to the source lines it translates, lists the
runs, the hazards of the code with the properties aimed at them, and for every
property a mutation of the code's model that it catches. Operators commented "A
mutation of ..." exist for that purpose only; no specification uses them.

## The system

Neovim shows a rendered picture of a Markdown buffer. The plugin (Lua) sends
requests as JSON lines to a renderer process (Node), which parses Markdown, lays
the HTML out in one page of one headless Chromium, and answers with a PNG that
the plugin draws in the terminal. Three machines run at once - Neovim's event
loop, Node's event loop, Chromium - each with handlers that are atomic up to an
await or a callback.

    user, autocommands, timers
            |                                       
      controller.lua  --request-->  renderer.lua --line--> process.lua ==pipe==> main.js
            ^                           |                      |                   |
            +-------- callback <--------+---- vim.schedule <---+              service.js
                                                                             /         \
                                                                        lanes.js    browser.js -> Chromium

### Inventory

| Component | State | Operations | Talks to | What makes it correct |
|---|---|---|---|---|
| Lane registry, `lanes.js` | per document: content epoch, newest serial and pending count per lane; recency of documents; a serial counter | admit (with refusals, overflow, eviction), isStale, release, forget | called by the service for every request | a request is stale exactly if something that obsoletes it came; staleness is final; slots are given back |
| Service, `service.js` | serial queue; caches of markup and of interaction state; the registry | render, render_prepared, prepare, capture, interact, forget, health | reads lines, drives the browser, is called back on eviction | an answer that is not stale is the newest; answers and state belong to the document and revision asked for; every request is answered |
| Browser manager, `browser.js` | Chromium, context, page, CDP session; layout and active document; a rehydration record per document | ensure, render, ensureDocumentActive, interact, capture, health, close | Playwright | one browser and context; frames show what they claim at the scale asked for |
| Controller, `controller.lua` with `debounce.lua`, `sync.lua` | a session table per document: positions, revisions, in-flight and pending flags, timers, last image, image on screen | refresh, schedule, scroll, follow the cursor, occlusion, poll, activate, deactivate, close | renderer client, terminal backend, autocommands | the frame settles on the newest text at the position asked, sharp; nothing is drawn for a document that is away; coordinates are those of the picture |
| Renderer client, `renderer.lua` | request serial, waiters for local metrics | request, retry of a missed capture, request_local, forget | process.lua | replies of superseded requests have no effect |
| Process, `process.lua`, `protocol.lua`, `main.js`, `protocol.js` | child process, callbacks by id, line buffer, exit listeners, transport override | start, stop, request, consume, exit | the pipe | each request is called back once, also when the child dies |
| Sessions and panes, `state.lua`, `navigation.lua` | documents per pane, active one, history | create, bind, activate, back and forward | controller | one active document per pane |
| Resident path, `resident.lua`, `resident_session.lua` | chunk plan, images resident in terminal memory, warm-up queue | plan, pump, retain, place, demote | controller, backend | placed chunks are resident; budget respected |
| Local mode, plugin side, `localrender.lua` | phase, connection, its callbacks, waiters of the attach and of the pairing, timers | attach, try_candidate, send_request, demote, detach | helper over a socket, marker stream | at most one transport; loss falls back to stdio |
| Local mode, helper, `local-main.js`, `local/*` | socket clients, marker parser, replica documents, assets, surfaces, captures in flight | render, asset, marker, capture, inject | terminal stream and socket, in no common order | a surface shows the revision and epoch its marker names |
| Interaction, `interaction.lua`, `interact.js`, `mouse.lua`, `caret.lua` | selection, search, caret; batched moves | select, find, move, hit test | service | results apply to the content they were computed on |
| Animation, `animation.*`, `decode-context.js`, `media.js` | frame store, decode contexts, placements | decode, place, evict | terminal memory | ids in use are not reused |
| Remote images, `remote-images.js` | cache, fetches in flight | fetch, settle | markdown | a fetched image replaces its placeholder |
| Markdown, `markdown.js`, `provenance.js`, `source-map.js` | none | text to HTML with source positions | service | positions name the source |
| Terminal, geometry, configuration, commands, health, logging, security | caches of probes | probes, arithmetic, reports | all | - |

### What is hard

* The service awaits the parser and the page in the middle of a task, and lines
  come in meanwhile. `forget` and `health` are not queued at all: they act in the
  middle of whatever task is running.
* One page serves all documents; three caches and the registry evict documents
  independently of each other.
* Staleness is decided by comparing numbers that restart when a record is
  evicted and made again.
* The controller has three debounce timers, a poll, replies of requests long
  superseded, a renderer that can die, and a pane that can be covered without
  any autocommand; all of them write the same session table.
* The user changes the buffer and the position at any moment, in particular
  between a request and its reply.

`PROJECT.json` lists the single hazards at the line where each bites.

## Modules

| Module | Models | Extends |
|---|---|---|
| `Recency` | insertion-ordered `Map`s used as LRU lists | - |
| `LatestWins` | abstract: requests wait, newer ones doom older ones of their lane | - |
| `Lanes` | `lanes.js` | `Recency`; instance of `LatestWins` |
| `LanesProofs` | lemmas on recency lists, theorems on `Lanes` | `Lanes`, TLAPS |
| `RendererService` | `service.js` and the page of `browser.js`, with `Lanes` inside | `Recency`; instances of `Lanes`, `LatestWins` |
| `RendererServiceProofs` | theorems on `RendererService` | `RendererService`, TLAPS; instance of `LanesProofs` |
| `BrowserLifecycle` | `ensure()`, `health()` and Chromium's life | - |
| `BrowserLifecycleProofs` | a theorem on `BrowserLifecycle` | `BrowserLifecycle`, TLAPS |
| `PreviewSession` | `controller.lua`, `renderer.lua`, `debounce.lua`, delivery in `process.lua` | SequencesExt |
| `PreviewSessionProofs` | theorems on `PreviewSession` | `PreviewSession`, TLAPS |
| `RendererProcess` | `process.lua` with `main.js` and `protocol.js`, and the pipes between them | SequencesExt, Functions |
| `RendererProcessProofs` | theorems on `RendererProcess` | `RendererProcess`, TLAPS |
| `LocalAttach` | `localrender.lua`, with the helper as it answers | SequencesExt |
| `LocalAttachProofs` | theorems on `LocalAttach` | `LocalAttach`, TLAPS |
| `StreamParser` | `local/stream-parser.js` and what `local-main.js` writes around it, next to a terminal | SequencesExt |
| `StreamParserProofs` | theorems on `StreamParser` | `StreamParser`, TLAPS |
| `LocalMode` | `local/replica.js`, `local/injector.js` and the service behind them, with the attached Neovim | SequencesExt |
| `RemoteImages` | `remote-images.js`, with the renders that ask | SequencesExt |
| `Animation` | `animation.js`, `decode-context.js`, and the pane of `animation.lua` | `Recency`, SequencesExt |
| `AnimationProofs` | theorems on `Animation` | `Animation`, TLAPS |
| `PreviewPage` | the functions of `interact.js` that run in the page, as operators | SequencesExt |
| `Interaction` | `interaction.lua`, `caret.lua`, the interact lane, and the page | `PreviewPage` |
| `MC...` | constants of the instances | the module of the name |

**Lanes.** `documents` is the registry's map, `order` its insertion order,
`serial` the counter; `outstanding` are the tickets not released, which the code
keeps in the closures of the queue. `admit`, `refuse`, `release`, `forget` are
the functions of the file; `refuse` is both refusals, which evict too, for the
code makes room before it looks. `isStale` is the three comparisons of the code.
`outstanding` is released as a set: the service releases in queue order, and
`RendererService` does so.

**LatestWins** has no counters. A request of the content lane dooms all of its
document, another one those of its lane, losing a document dooms all. `Lanes`
implements it with `waiting <- the outstanding tickets`, `doomed <- those that
are stale`: the refinement is the statement that two integer comparisons decide
"something newer came" rightly, evictions and restarted counters included.

**RendererService.** A request acts at once up to its first await: `Render`,
`Capture`, `Interact` with their lane and admission, `Forget` altogether. A task
is one action per stretch between awaits: `Start...`, then `ParseRendered`,
`Loaded`, `Captured` and so on. The Lua client of a document is here only as far
as it decides which request can be sent (capture after a render of the same
revision). `reply` is the answer of the step, with the markup the answer speaks
of and the one the page showed. A markup is its document, its revision and
whether a placeholder stands for a remote image; everything else the keys are
made of (theme, width, flags) is constant. A markup's key is what the code
compares, so two bodies of one revision share it, as in the code.

**BrowserLifecycle.** Contexts and Chromiums are numbered as they are made.
`pc[c]` is the await a caller is in, `target[c]` the object its pending call was
made on. Every await may reject, Chromium may die at any time, and a probe may come
at any time, the first `launch` included. Two calls that cross in `ensure()` can leave
fields of different contexts: `crossed` and `mixed` remember it.

**PreviewSession.** `session` holds the fields of the session table that decide
anything; `loop` is Neovim's queue of scheduled callbacks, `draining` that it is
being emptied, which it is before the next event is read. `pipe` are unanswered
requests, `cached` the markup the renderer holds, with revision and text kept
apart, for the code can give one the name of the other. A revision is a number
standing for `changedtick:render_epoch`. `request_serial` is compared only for
equality, so a request carries whether it is the newest. `asked` is the position
the user last asked for: a history variable, as are `mislabelled`, the revisions that a retry
has asked for with an older text (`renderer.lua:268`), and `takenBack`, that a reply has
written its position over one asked for since (`controller.lua:802`).

**RendererProcess.** `instance`, `running`, `callbacks`, `buffer` are `process.lua`'s,
the last three of each process, for one that was stopped goes on beside the next.
`node`, `close`, `stdin`, `work`, `stdout` are the child: whether it runs, how far
`service.close()` has come, lines not read, requests not answered, bytes not
read by Neovim. A line is written in two parts, so that a read may end between
them, and a child die there. `Reads`, `WriteFails`, `Exited`, `KillTimer` are the
callbacks of libuv, `Scheduled` runs what they have put on the main loop. What a
request is about is in the other modules; here each one makes a selection, the
one thing a session keeps that the death of the process must take back.

**LocalAttach.** A try is one call of `try_candidate`: the record of a try holds
the variables of its closure (`finished`, its `pipe`) and what its connection
holds (`callbacks`, `next_id`), while `conn`, `pairing_waiter` and the phase are
the module's and shared by all tries - which is where the trouble comes from.
`loop` and `draining` are Neovim's queue as in `PreviewSession`; `fast` tells
whether the step is taken in a callback of libuv, where Neovim's API is off
limits. A line is dispatched to the connection that is current, not to the one it
was read from, as in the code. The marker presenter is set and reset together
with the transport, so `transport` stands for both. The helper is the environment:
it answers a hello with its token or a refusal, answers requests, reports a probe
to the client it has greeted, and may go away. Three things that can then happen are
*mishaps*, counted and bounded by `Mishaps`: a socket is lost, or a write on it fails, the
hello's included, while its try is under way; an answer to a hello crosses its timeout. (A
helper that hangs up on the hello it was sent, refuses, or is silent is none.)

**StreamParser.** A byte is one symbol of each class the parser tells apart, and
the stream is any sequence of them, cut into chunks anywhere. `p` is the
parser, `byte` its `byte()` with one operator per state; a step's output is
handed to `term`, a terminal's tokenizer written for this purpose, and to `owed`,
which remembers what was read and not passed on. `EndChunk`, `SurfaceReady`,
`queueStderr`, `stderrTimer`, `onClientChange`, `cleanup` are the places of
`local-main.js` that write. Left out: what the child prints after `cleanup` has
flushed, and a control string longer than `KITTY_CONTROL_MAX`. Programs are taken
to end the graphics commands they begin. A teardown is written at once, in the
middle of a sequence if the stream is in one, against the injector's own third
rule; the model marks the terminal `cut` from there on and claims nothing of it.

**LocalMode.** `up` is the terminal stream's markers, `req` and `rsp` the
socket, and no order is assumed between them. `h` is the helper: an operator
takes it from one record to the next, so that a handler which calls others is
their composition, as in the code: `handleRender`, `handleAsset`,
`handleInteract`, `scheduleSurface`, `pumpCapture` of the replica,
`acceptMarker`, `tryInject`, `carryDeletions`, `teardown` of the injector,
`reset` of both. The service's queue is `jobs`. `pl` is the preview session of
the Neovim now attached: what `refresh`, `schedule_scroll`, `clear_image`,
`request_local` and the notification handlers do to it. Pixels are what they
show: text, position, and how many interactions the page had seen. `env` is the
scenario: which of the environment's less regular ways may occur, and which have.

**RemoteImages.** Time is counted in ticks. A render resolves all sources of
its document in one action, for nothing is awaited with `blockingMs` 0;
each fetch then goes hop by hop through DNS, request and body, at every point
answered, refused, redirected or left in silence by the network. Each fetch carries its age. `cacheBytes` is
the count the code keeps, `bytesOf(cache)` what it holds. The preview's timer
(`controller.lua`) is `Retry`.

**Animation.** `materialized` are frame sets, `disk` the directories, `jobs` the
builds, of which the first decodes. A clip is the bytes and the display time of its
frames, so that thinning is done as in the code, frame by frame: `decodeInPage` and
`thinToShare` choose the places that are kept, `thin` folds the time of the others
into them. The pane asks for all it lacks in one request and takes an answer only
for the size it still draws at. An image that a document holds twice is asked for
twice by the code and builds once (`select`). The page may refuse by a fault of its own
(no decoder, a canvas that throws: `decode-context.js:184`, `:288`), and the terminal may
refuse an upload (`animation.lua:420`); a pane draws natively or frame by frame
(`strategy`), and a browser that died is launched again by the next render.

**PreviewPage** has no variables: a page is a sequence of text nodes with a box for
each glyph, and `moveCaretInPage`, `resolveSelectionInPage` and the geometry of
selection rectangles are functions of it. What Chromium decides - which caret
position a point has - is an operator that returns the set of positions it may
answer (`caretPositionFromPoint`).

**Interaction.** A handler of the pane is an operator on the record `pane`; the
requests it sends are put on `wire` by the action that ran it. `Admit` is the
lane's admission, `Start` the run in the page, `Finish` the answer; between the
two a request may go stale, and then it is refused although the page has
changed. `ghost` is what the keys pressed so far ask for. `reader` is one of `Readers`:
the keys that are mapped and how many are pressed.

## Runs

All runs pass, and each is exhaustive.

| Run | Instance | Shows |
|---|---|---|
| `lanes` | 2 documents, room for 1 record, 2 revisions, 2 slots a lane, 4 requests | the inductive invariant `IInv` (`TypeOK` is part of it), `NoSlotLeak`, `StaleIsFinal`, `RefinesLatestWins`. Room for one record makes each admission of the other document evict, and a record come back with its counters restarted; 4 requests are enough to admit, evict, admit anew and supersede; 2 slots make a lane full with one superseded ticket and one current one in it |
| `service` | 2 documents, room for both, 2 revisions, 3 requests of render, capture, interact | an answer is accepted exactly if nothing newer has overtaken its request (`StaleExactlyIfOvertaken`); answers are of the document and revision asked (`AnswersOwnRevision`) and frames of the markup answered (`FrameShowsAnswer`), together `AnswersAreOwn`; the service implements `LatestWins` (`KeepsThePromise`) |
| `service_full` | 2 documents, every limit 1, all methods, remote images, fair | interaction state is of the current markup while every cache evicts (`InteractionStateCurrent`; it holds with `service.cfg` too); `EveryRequestAnswered` |
| `browser` | 1 probe at a time beside the render, scales 1 and 2, 4 contexts or Chromiums | `ContextSound`: there is one context (`OneContext`) until two calls cross in `ensure()`; a frame has its document and the scale asked for (`FrameIsAsked`), but for those between a crossing and the first time the fields agree again (`FieldsAgree`). Four contexts are the two of a crossing, the one that heals it, and one more. Both exceptions are real: alone, either property fails (below) |
| `preview` | 2 positions, 3 unanswered requests, scenarios below, fair | `ScrollNeverStuck`, `FrameIsPicture`, `AwayShowsNothing`, `Converges`: the picture ends up sharp, of the newest revision, of that revision's text unless the revision is `mislabelled`, and at the position asked for unless it was `takenBack` |
| `process` | 2 processes, 2 requests, one close, one quit, one failure (exception, crash, endless loop, or Neovim killed), fair | `CalledBackOnce` (each request has one outcome, no reply is lost on the way, none waits for a process that is gone), `NoGhostSelection`, `RendererGoes`. Two processes are the one that was stopped, or died, and the one spawned beside it; two requests are two answers in one pipe, cut anywhere, or one of each process |
| `local_attach` | 2 sockets, the older one of this terminal, 2 attaches, 1 request, 1 mishap, fair | before the mishap: `OneTransport`, `CallbacksKept`, `EveryAttachTold`; after it, what still holds: `HarmContained` (no request goes to a socket before a greeted helper of this terminal has seen a probe, nothing is called back twice) |
| `stream_parser` | a token of two bytes, candidates of up to 6 bytes, chunks of up to 2, one chunk of stderr | `Verbatim`, `OwnWritesBetween`, `StderrNotStranded`. The stream is unbounded: the states are finite because only the class of a byte matters and a candidate is bounded. A candidate of 6 holds a marker with one byte of payload and can be exceeded; chunks of 2 cut each pair of bytes and leave each pair together |
| `local_mode` | 2 revisions of which the second needs an asset, 2 surfaces, and one of three scenarios: one session of 3 markers at 2 positions, with sheets and an interaction that overlaps a render; two sessions that scroll; two sessions of which the first is broken off in one of four ways (below), fair | `FrameIsNamed`, `NoGhost`, `NeverBlank`, `FrameArrives`. Three markers are one on the terminal, one held, one that supersedes it; two surfaces make the cache evict |
| `remote_images` | 2 remote images and a refused one, documents of one and of two of them, room for one image and two entries, 1 redirect, 3 edits | `HeldWithinBudget`, `DeadlineHolds` (a fetch is never older than its deadline, over redirects, and an entry in flight has its fetch), `PlaceholdersEnd`. The order of the times is the code's: retry <= transient <= definite failure, deadline |
| `animation` | 3 images (even, uneven, not animated), 3 documents, one of which holds an image twice, 2 sizes, both strategies, room for two frame sets, 3 edits, 1 error | `BooksMatchDisk`, `PlaysAsLong`, `TroubleIsForgotten`, `EveryImagePlays` |
| `interaction` | a heading and a paragraph of two lines with inline code; one of three readers: 4 keys (3 motions by character and line, 2 mode keys, 2 others), 3 motions (line, line end, word, word end, block, document), 4 searches, steps, edits, clicks or switches and an `<Esc>` | `HighlightIsSelection`, `HighlightCovers`, `CaretFollowsKeys`, `FindAgrees`, `KeysAnswered`. Three motions are one in flight, one counted behind it, and one after; four keys begin a selection, extend it twice and end it; four searches are one answered, one out, one that overtakes it and an edit |

`TypeOK` of each module that has one holds too; to keep the runs to what is worth
asking each time, it is in no configuration but as part of `IInv`: add the line
`INVARIANT TypeOK` to the module's configuration to check it.

The scenarios of `preview` bound how often each event happens: typing (1 edit, 2
scrolls or cursor moves), floats (1 edit, 1 scroll, 2 changes of cover), switches (1 edit, 2
scrolls, 2 switches or closes), failures (1 edit, 1 scroll, 1 failed render, 1
crash or eviction). Two positions make "where the user is" and "elsewhere"; one edit makes an old and a new revision, and
two scrolls a coalesced one. Three unanswered requests let a request be
superseded while its successor is retried. A step that would exceed `MaxPipe`
waits, which a pipe of the operating system does not force; more requests in
flight add only more stale replies, which are all treated alike.

The three requests of `service` suffice for one running task, one waiting
behind it and one that cancels either; it is the number of things that interact
at an await, not the length of the session, that matters there.

In `local_attach` the newer socket is of another terminal, so an attach that
succeeds has been refused, timed out or disconnected once before; the second
attach joins a scan or starts the one after a fallback, which a failed write of the
hello makes possible while a scan is still on. One mishap is enough for each of the
three properties that except it to fail; `HarmContained` is checked over everything that
follows it. `OneTransport` and `CallbacksKept` are proved for any number of mishaps,
sockets, attaches and requests, and say nothing after the first one: the code does not
recover from it (below), until the scans have run out.

The scenarios of `local_mode` say what the environment may do beside the regular. This is
what each of these does, and where a property lets it pass:

| Way | Meaning | What it breaks |
|---|---|---|
| `sheet` | markers that upload a tint sheet | `FrameArrives` lets a frame be displaced by a later sheet's marker (`SheetTookPlace`, `injector.js:131`) |
| `overlap` | an interaction and a content render are in flight together | `FrameArrives` lets a frame's marker name an epoch or a revision that was left before it came (`Overtaken`, `replica.js:230`, `:242`) |
| `orphan` | an interaction is in flight when the socket closes | the same |
| `reattach` | the socket drops and the same Neovim attaches again | `FrameIsNamed` does not count interactions: the helper's page has forgotten those the session was told of. `FrameArrives`: `Overtaken` |
| `repeat` | a new Neovim counts its revisions from 1, as a new buffer may | `FrameIsNamed` allows text of the Neovim before, of the revision and position named |
| `late` | markers arrive after the socket of their session has closed | `NoGhost` and `FrameArrives` except it: such a marker raises the number that the next session's are measured by (`injector.js:160`) |

With `repeat` the replica is reset, but `reset` (`replica.js:413`) sends the service behind
it no `forget`, so a render of a revision of the same name is answered from the markup of
the Neovim before. That a frame is of the revision and at the position its marker names,
that the terminal is never blank, and that nothing is left over, hold with it.

### Where code and comments disagree

Each is stated by a property of the modules that is in no run, or not with these
constants. To see it fail, change the configuration as given, every other constant
as there, and check the property alone:

| Property | Configuration and changes | What happens |
|---|---|---|
| `FrameShowsAnswer` | `service_full`: `Documents <- OneDocument`, `MaxPendingPerLane` 2, `MaxRequests` 3, `Methods <- DirectMethods` | a render shows a placeholder; the image arrives; the second render of the revision parses the markup anew, but the layout key is the old one (`browser.js:588`) and the frame is of the old body - while `service.js:237` says a reuse would answer the retry "with the thing it is replacing" |
| `DeferredIsReplayed` | `preview`: `Budgets <- OnlyFloats`, `CursorFollow`, `Batched` FALSE, `SilentFloats` TRUE, `MaxPipe` 2 | a preview is opened under a float: `refresh` defers with `loading` up, and once the float leaves without an autocommand the poll, which wants `not session.loading` (`controller.lua:2147`), does nothing; `controller.lua:711` says "`show_cached()` replays it" |
| `PositionKept` | `preview`: `Budgets <- OnlyTyping`, `Batched` FALSE, `MaxPipe` 2 | the user scrolls while a content render is in flight; its reply writes its own position over the new one (`controller.lua:802`), whose comment says "Preserve a newer requested position" |
| `NeverDriftApart` | `preview`: `Budgets <- OnlyFailures`, `CursorFollow`, `Batched` FALSE | a capture is sent, the buffer changes, the renderer misses; the retry (`renderer.lua:268`) sends the old text under the new revision, the markup is cached under it, and the render of the new text is answered from the cache; `README.md:21` says that picture and buffer "never drift apart" |
| `ToldOnMainLoop` | `local_attach`: `Candidates <- OneCandidate`, `Here <- NoneIsHere`, `Attaches <- OneAttach`, `Requests <- NoRequests`, `Mishaps` 0 | connect to a socket file whose helper is gone is refused; `finish` and the waiters of the attach run in the connect callback itself (`localrender.lua:397`), and `controller.lua:1508` calls Neovim's API there; `localrender.lua:467` says "scheduled" |
| `OnDoneRuns` (a PROPERTY) | `local_attach` | a greeted socket dies before it is paired and leaves its pairing timer running; the timer takes away the waiter of the next try (`localrender.lua:454`), whose own timer then finds none: the phase stays "connecting". `localrender.lua:467` says "`on_done(ok, reason)` runs once" |
| `OneTry` | `local_attach` | the write of the hello fails; `demote` turns "connecting" into "fallback" (`localrender.lua:349-356`, `:283-305`) while the scan goes on, so a second `attach` (`:478`) starts another. `conn` is overwritten (`:398`), and the callbacks of the connection before are reachable from nowhere |
| `TransportIsPaired` | `local_attach` | a socket closes when its pairing is queued and not acted on, and the transport is set for a connection that is gone; or, of two scans as above, one is paired when `conn` has become the socket of the other, and requests go to the helper of another terminal: "two helper sessions ... can never silently cross-wire" (`localrender.lua:14`) |
| `OneContext` | `browser` | a probe and a render find no browser, or no context, at once and both make one (`browser.js:184`, `:194`); one of the two is never closed |
| `FrameIsAsked` | `browser` | the same crossing: `this.page` and `this.active` are written by different calls, and the next render takes a page it loaded nothing into, or one of another scale. `browser.js:273-276` says "there is no window in which a caller can read a half-loaded document and believe it", and `:202` that "a brand-new page holds no document, so nothing may claim to be active" |
| `RefusalsAreTheInputs` | `animation` | the page has no `ImageDecoder`, or anything in it throws; `decodeInPage` answers "refused" (`decode-context.js:184-188`, `:288-289`), and the store and the pane remember it as "the input's fault" (`decode-context.js:79`, `animation.js:150`, `animation.lua:381`) |
| `SearchIsCurrent` | `interaction`: `SPECIFICATION Spec` | an edit while a search is on and no selection is recorded: `forget_selection` is not called (`controller.lua:784`), and the pane keeps the search and its active match though page and service have none; `interaction.lua:77-80` says it is dropped "on a content-revision change" |
| `NewestArrives` (a PROPERTY) | `local_mode` | the marker of the newest frame names an epoch the page has left meanwhile, and no other comes: `replica.js:230` says "a newer marker is on its way" |
| `SelectionKept` (a PROPERTY) | `process`: `SPECIFICATION Spec` | the last preview is closed and another opened before the stopped renderer has exited; its exit runs the listeners (`process.lua:86`), which forget the selection the new renderer still has; `process.lua:14` gives as their reason state "that would otherwise go stale silently" |
| `StrandsNone` | `process`: `SPECIFICATION Spec` | closing the last preview stops the renderer without waiting and forgets it (`process.lua:186`), leaving SIGTERM to a timer; if it is wedged then, the quit that follows finds no instance to wait for, and nothing sends it the SIGKILL that `process.lua:205` has for a renderer "wedged past listening"; `tests/node/orphan-exit.test.js:9` calls it "the standing guarantee" that it "never outlives the Neovim that spawned it, by any route" |
| `YankCopiesSelection` | `interaction`: `SPECIFICATION Spec` | `y` in visual mode: `visual_stop` only arms the settle timer, the copy goes out at once, and when the timer runs the commit supersedes it in the interact lane if it is still unanswered; the copy comes back stale and the register keeps its old text. `navigation.lua:142` says that "the settle frame lands first so the copy reads the same selection the reader is looking at" |
| `TextIsNamed` | `local_mode` | text of the Neovim before is shown under a revision of the same name, as above, which `local-main.js:282-293` sets out to exclude |

Noted while modelling, each in the model where the model has the code:

* *Remote images.* An entry evicted while its fetch is in flight is fetched again,
  and its bytes are counted twice for good (`remote-images.js:196`): the cache then
  holds less than its budget, which is why `PlaceholdersEnd` excepts `NoRoom`. The
  transient failure is forgotten sooner than a fetch times out, so two dead
  hosts out of phase keep a document rendering again and again.
* *Animation.* A source that was evicted does not come back when unchanged text is
  rendered again, for nothing is parsed (`EveryImagePlays` asks that the store
  hold it). `#thinToShare` keeps a share at the average cost, which the frames it
  keeps may exceed. A build under way at `close` leaves its directory. A terminal that
  refuses the first frame is not asked again (`animation.lua:420-425`; the model's
  "turnedAway"). Drawn frame by frame, an image whose files were evicted before they were
  uploaded keeps its paths and is never asked for again (`animation.lua:499-511`), while
  the native strategy asks again: `EveryImagePlays` excepts just this, and fails without.
* *Interaction.* A motion pressed while another kind is out replaces it: the keys sent
  are superseded, as `interaction.lua:771-775` says, and those counted behind it go with
  its slot (`:791-794`, `:802`), so `CaretFollowsKeys` reckons from where the caret is. In
  visual mode the preview of the replaced motion may overtake and lose the new one too. A
  preview's callback drops the `on_settled` of a settle it had
  been told to run; the settle's commit supersedes a motion key pressed within
  `settle_ms`; a search refused after it ran leaves its marks in the page;
  a click's clear supersedes its own caret placement; `visual_swap` sends the
  anchor without its index, and lands one off; a linewise selection extended
  upward selects nothing; a search in visual mode moves the caret and not the
  selection; switching documents leaves the motion slot taken (`KeysAnswered`
  speaks of the document it was sent for).

One more behaviour is in the models and met by no property, since a property could
only forbid what the code does: a `forget` that arrives while the document's render
parses is undone by that render, which caches the markup of a document nobody will
forget again (`service.js:257`).

### Fairness

* `RendererService`: weak fairness of starting the next task and of the running
  task's next stretch. Node runs a promise's continuation once it settles, and
  Playwright's calls settle (most have timeouts; `page.evaluate` has none, and a
  page that hangs is outside what liveness says here). Nothing is assumed of
  clients.
* `PreviewSession`: weak fairness of Neovim's event queue; strong fairness of
  the renderer's answers, of each timer and of the poll, since the pipe's
  reader and the timers are served each time round the event loop, while the
  model lets them be posted only when Neovim is not emptying its queue. Nothing
  is assumed of the user, of floats, of failures: the events are bounded, so in
  the end they cease, and `Converges` says what comes after.

* `RendererProcess`: the loop of a child that runs, and Neovim's, take their events and
  their timers run out (one weak fairness condition each: what is enabled is
  finite, so all of it comes). Nothing is assumed of `browser.close()`, which may hang.
* `LocalMode`: weak fairness of the helper's steps, of Neovim's reading of the socket
  and of the second half of a render. Nothing is assumed of the reader: `FrameArrives`
  holds because the markers of a session are bounded.
* `RemoteImages`: time passes and timers run (`Retry`, `Expire`, `Tick`). Nothing is
  assumed of the network.
* `Animation`: weak fairness of the decode queue and of the pane's three steps: one
  request at a time, its answer, the upload.
* `Interaction`: the renderer and the settle timer do not all stop while one has
  something to do. This is weak fairness of `System`, with the states that
  enable it written out, for TLC would find them by running the page.
* `LocalAttach`: weak fairness of Neovim's event queue; strong fairness of a
  connect, which succeeds or fails, and of the two timers. Nothing is assumed of
  the helper or of the terminal: they may be silent for ever.

`Converges` does not speak of a preview with an error reported
or a refresh still deferred. `FailFirst` is FALSE: if the very first render fails
`show_cached` has nothing to show, and with it allowed `Converges` fails - the
poll, once a retry has cleared `render_failed`, asks for a new render every 50 ms
(`controller.lua:2147`), and each makes the one before it stale if rendering
takes longer. The same goes for `Spinner` FALSE.

Deadlock is not checked: each instance ends when its bounds are used up, and a
real session may stop at any time.

## Proofs

The theorems hold for every value of the constants that satisfies the assumption named
with their module. The assumptions say what the code's limits and the
environment's inputs are (a limit is a positive number, a request is not an attach);
where a theorem needs more, the condition is in its statement and in the table.

`LanesProofs` (`LanesAssumption`: the limits are positive naturals, `NoRevision` is no
revision):

| Theorem | Statement |
|---|---|
| `SpecIInv` | `Spec => []IInv` |
| `TypeCorrect` | `Spec => []TypeOK` |
| `StaleIsFinalHolds` | `Spec => StaleIsFinal` |
| `ImplementsLatestWins` | `Spec => RefinesLatestWins` |
| `NoSlotLeakHolds` | `Spec => []NoSlotLeak` |

`RendererServiceProofs` (`ServiceAssumption`), for any documents, cache and registry
limits, revisions, and numbers of requests:

| Theorem | Statement |
|---|---|
| `SpecSound` | `Spec => []Sound` |
| `ServiceKeepsThePromise` | `Spec => KeepsThePromise` |
| `StaleExactlyIfOvertakenHolds` | `Spec => []StaleExactlyIfOvertaken` |
| `AnswersOwnRevisionHolds` | `Spec => []AnswersOwnRevision` |
| `AnswersAreOwnHolds` | `RemoteImages = FALSE`: `Spec => []AnswersAreOwn` |
| `InteractionStateCurrentHolds` | `Spec => []InteractionStateCurrent` |

`BrowserLifecycleProofs` (`LifecycleAssumption`), for any probes, scales and number of
contexts; `PreviewSessionProofs` (`SessionAssumption`), for any budgets of edits,
scrolls, switches and failures, positions, and length of the pipe:

| Theorem | Statement |
|---|---|
| `ContextSoundHolds` | `Spec => []ContextSound` |
| `TypeCorrect` | `Spec => []TypeOK` |
| `ScrollNeverStuckHolds` | `Spec => []ScrollNeverStuck` |
| `FrameIsPictureHolds` | `Spec => []FrameIsPicture` |
| `AwayShowsNothingHolds` | `Spec => []AwayShowsNothing` |

`RendererProcessProofs` (`ProcsAssumption`: processes are numbered from 1), for any number of
processes, requests, closes and failures; `LocalAttachProofs` (`AttachAssumption`), for any
sockets and terminals, attaches and requests; `StreamParserProofs` (`StreamAssumption`), for
any token, any bound on a candidate, any chunks; `AnimationProofs` (`ClipAssumption`), for any
images, documents, sizes, budgets and limits:

| Theorem | Statement |
|---|---|
| `EachCalledBackOnce` | `Spec => []CalledBackOnce` |
| `NoGhostStays` | `Spec => []NoGhostSelection` |
| `OneTransportHolds` | `Spec => []OneTransport` |
| `CallbacksKeptHolds` | `Spec => []CallbacksKept` |
| `StderrNotStrandedHolds` | `Spec => []StderrNotStranded` |
| `VerbatimHolds` | `Spec => []Verbatim` |
| `OwnWritesBetweenHolds` | `Spec => []OwnWritesBetween` |
| `TroubleIsForgottenHolds` | `Spec => []TroubleIsForgotten` |
| `BooksMatchDiskHolds` | `Spec => []BooksMatchDisk` |
| `PlaysAsLongHolds` | `Spec => []PlaysAsLong` |

*The inductive invariant of `Lanes`.* A ticket is compared with its record by `#`, not by
`<`, and records restart at zero. Why can a record not come back to the very
numbers a stale ticket carries? Serials are never reused (`SerialsAreUnique`,
`StampsAreIssued`), so a record that shows a ticket's serial is one that has
been there since the ticket was made; such a record's epoch only grows
(`EpochsOnlyGrow`); so an epoch that differs from the ticket's is greater, and
stays so. Without `EpochsOnlyGrow` the step of a content request is not
inductive: from an unreachable record behind its own ticket, the epoch could
grow into equality. `OrderIsDistinct` says that the recency order lists each record
once, which is what makes eviction remove one record.

*Layout of `LanesProofs`.* `AdmitFacts`, `ReleaseFacts` and the lemmas on recency lists
before them say what the operators do; `...IInv`, `...Staleness`, `...Refines`, `...Slots` are one lemma
per action; the theorems combine them. Refinement needs the invariant on both
sides of a step, since "stale" in the new state is decided by it.

*The service.* The registry inside the service is an instance of `Lanes`, so `LanesProofs`
is instantiated too, and its lemmas on single steps are what the service's steps are proved
from. `Sound` ties the rest to it: the tickets outstanding are exactly those of
the jobs that wait or run (`inFlight = outstanding`), their serials are consecutive in
queue order and end with the last one issued (`FirstInFirstOut`), and every store
holds values of the right kind under its key (`StoresTyped`, `TaskReady`). Each step of the
service is then a step of the registry or none (`RegistryStep`), which gives `KeepsThePromise`
through the registry's own refinement. For `StaleExactlyIfOvertaken` one thing more is
needed: the request that overtook. `Traceable`, proved in `LanesProofs`, leads from the
comparison of the code to the serial that caused it, and by `FirstInFirstOut` every request
issued after the one that is answered is still in flight (`LaterInFlight`).

*Answers and revisions.* Nothing in the code compares the revision of a frame with that of the
request: the answer is right because of what the caches can hold.
`RevisionsSound` says so: the requests that draw name revisions in the order they come
(`AskedInOrder`), no store is ahead of them (`StoresBehind`), a frame older than its
document's markup is there only while the render that replaces it is under way or has
been overtaken (`StoresCoherent`), a request that is not stale names the revision the
registry holds (`Current`), and a task past its parse works on markup of its own
revision (`TaskOwn`). Each of the six needs others in some step: a capture finds its own
revision cached by `Current` and `StoresCoherent`, which hold after a render by
`TaskOwn`, which holds at its start by `AskedInOrder`. `InteractionStateCurrent` follows with
`Fits`, what is remembered of one document. `AnswersAreOwn` adds that the frame shows
the very markup the answer speaks of. With remote images it need not: the markup
with and without a placeholder have one layout key (`FrameShowsAnswer` in the table of
disagreements), so that theorem assumes there are none, as the run does;
`AnswersOwnRevision` holds with them.

*Chromium's life.* The invariant has two layers. `UInv` holds whatever has crossed: types, and what
a field that is set says of another (`Named`). `SInv` says what an `ensure()` given up half
way may leave behind while only one call is inside (`Alone`): a field that names what is
closed. What takes pixels goes by what is open, and what is open has the scale on
record (`ContextStands`), a page that was loaded and a layout measured on it (`PageStands`).
A crossing breaks `SInv`. What gives it back is `FieldsAgree`, which is about the fields alone
and says nothing of how they came about: with `UInv` it implies `SInv`
(`AgreeingHeals`), so that `mixed` may be taken back there.

*The session.* `SessionSound` has one conjunct a module's reader would not expect: a scroll flag
that is up has its request in the pipe or its reply on the loop (`Awaited`). No field says so;
each place that drops a reply must leave another, or take the flag down. `Kept` holds
the pairs of fields that handlers write together (`FramePictured`, `AwayEmpty`, `FlagsPaired`):
that a preview which is away shows nothing needs that no late reply is taken for
one of a preview that is there. `RevisionBounded` is for types only: it bounds the revision by the
edits left, since `Revisions` is the model's bound.

*The renderer process.* A callback is made by whichever comes first of its reply, a failed
write and the exit of its process, and each of them works on a table that the others
change. `Outcome` is the law of one request: it waits in the table and nothing is scheduled
for it, or it is scheduled once and does not wait, or it was called back and is neither.
To keep it, the invariant says of each process that ids are its own and used once
(`Owned`), that a request is unread, at work or answered and in one of these places once
(`InOnePlace`), that what the process wrote and nobody made a line of yet is whole lines,
wherever the reads cut it (`Framed`), and that what is waited for is in one of those places
(`Awaited`): so no reply is lost, and none comes twice. `ListenersBehind` is about
order on the loop: an answer scheduled before its process exited runs before the exit
listeners do. `NoGhostSelection` needs it, for such an answer selects in the session a thing of a
process that is gone (`Ghost`), and the listeners behind it clear it again.

*The attach.* `OneTransport` is about one socket at a time, and the invariant has to say
of everything that may yet act - pipes, timers, callbacks of libuv, the queue of the main loop -
which try it is of. `AttachSound` says that what can take a try one stage further is of the
try whose pipe is open, and that there is one such thing at a time (`Unique`,
`LiveIsCurrent`, `WaiterIsCurrent`, `HelloIsCurrent`, `PairingIsCurrent`). What is left of an
earlier try finds it finished; the one exception is a pairing timeout that was queued
before the pairing itself, and that is run within the same emptying of the queue
(`Late`), before another try can have a waiter. A mishap is a way in which that fails, so the
invariant is claimed up to the first one (`SoundUntilMishap`, `CallsUntilMishap`). `CallsSound` follows a
request: not made, it is nowhere; made, it is in one place and once, among the
callbacks of the open socket or on the queue, till it is called back. That rests on ids
not being given twice on a connection (`Numbered`), and on `close_conn` posting each callback
that it takes away; `Carries` states it for one function of the code at a
time, and composes.

*The filter.* `Withholds` says what the parser keeps back in each of its states: nothing,
the ESC that may begin a sequence or end one, or what may yet be a marker (`Framed`). Of
a candidate it says how far the token has matched and which bytes those were
(`MarkerHeld`), so that what is swallowed at ST is a whole marker with the token
(`IsMarker`). `BytePasses` is the case analysis of `byte()`; each step either appends the byte
to what is passed on or withheld (`Passes`), or swallows a marker (`Swallows`).

*Own writes.* `OwnWritesBetween` is about the terminal, which reads what the helper passes on
and not what the helper reads. `TermRead` is the terminal after a sequence of bytes, a
recursive function; `TracesAgree` makes it a fact about each byte. `Lock` says that parser
and terminal are in the same place of a sequence, though the terminal takes a
marker for any other string; `Agree` allows for a sequence torn by a marker or a
teardown, after which they differ till the next ESC, and keeps hold of the graphics
command under way and of an image whose end is to come. Bytes that are withheld
reach the terminal later, perhaps after a write of the helper's own: `Effects` says
that they leave whatever plain terminal they meet in step with the parser.

*Stderr.* `StderrNotStranded` needs one fact besides itself: the helper exits between
chunks (`exiting => chunk = 0`), so no flush at the end of a chunk follows the exit.

*A refusal's travels.* `TroubleIsForgotten` speaks of the store and the pane. It
is not inductive: a refusal reaches the pane through the answers of a request,
and the pane may have been drawn at another size since. `AnswerRefusals` says
that an answer is true of the size it was asked for, and the two guards of the
code keep `PaneRefusals`: `Answer` drops what was asked at another size, `reconcile`
forgets what was known of the old one. Every build's outcome goes through `settle`
(`SettleRefusals`), and only two places add to the store's refusals
(`MaterializeRefusals`, `Decoded`).

*The frame store.* The three conjuncts of `BooksMatchDisk` are kept by code that moves, evicts and
adds entries, and takes away directories by name. What would break them is a second entry
for a key: its directory is the first one's, and evicting one takes the other's frames.
`StoreInv` therefore says that each key has one entry, that no two builds are of one
key and that none is of a key that has its entry (`Building`). The last is kept by
`materialize`, which looks for an entry and a build before it starts one (`BuildsStarted`), and
by the build, whose entry replaces it (`KeepFacts`). Requests reorder the entries:
`TouchedOrders` says that they remain the same ones and weigh the same. `PlaysAsLong` is
arithmetic: kept places that begin with the first frame and increase lose no time
(`ThinFacts`), and those that the two divisions choose are such places, two at least
(`DecodeFacts`, `ShareFacts`), for every number of frames and every budget of two or more; a build of
a smaller budget is refused before it starts, which is in `Building` as well.

*Recursive definitions.* The induction theorems of the library take an operator, which
the provers cannot instantiate. `Induction` in `AnimationProofs` speaks of a set
instead (0 is in it, and each number whose predecessor is) and is proved by taking the least
number outside. With it, and `Recursion`, which says that a function defined step by
step exists, a sum over a sequence can be reasoned about: `SumParts`, `SumFirst`
and `SumBetween` are what the proofs use.

*Only model-checked*: `HarmContained`, all of `LocalMode`, `RemoteImages`, `PreviewPage` and `Interaction`, whose
operators filter, sort and fold sequences by operators that are passed to library operators,
which the provers do not see through; the
`TypeOK` of the modules whose tables do not name it; all liveness (`EveryRequestAnswered`,
`Converges`, `EveryAttachTold`, `FrameArrives`, `PlaceholdersEnd`, `EveryImagePlays`,
`KeysAnswered`, `RendererGoes`), since TLAPS has no rules for fairness and ENABLED here.

## Not modelled

* Chunk rasters and the resident path: nothing in the controller starts
  the resident warm-up at this commit.
* Of local mode: the limits of the asset store, the probe of the terminal, the
  bytes of graphics commands, timing samples, several documents sharing the
  injector's deletions, and detach, which is called when Neovim exits.
* Of interaction: scrolling pages and the pinned anchor, the overlay's tint sheet,
  `fast_preview`, links and hit testing, `copy_on_select`. `HighlightIsSelection`
  is not claimed for a caret that a search placed. `CaretFollowsKeys` reckons from
  the caret as it stands when nothing is under way, and claims nothing of a motion
  pressed while a click or a search is.
* Of animation: the painting timeline, image ids shared by two panes, the walk of
  the container that recognises an animation.
* Provenance, Markdown itself: functions of one document, without interleaving.
* Geometry, terminal probing, configuration, health reports, logging.
* Of the renderer process: stderr, and a Node that cannot be spawned.
* Several panes; `document_id` is the buffer number, so two panes of a
  buffer share a document in the renderer, which `PreviewSession` cannot show.

## Plan

Done: 1 to 5 and 7, and 6 but for what it lists. The order is by how much of the code's control depends on order.

1. `Recency`, `LatestWins`, `Lanes`, `LanesProofs`, `RendererService`.
2. `BrowserLifecycle`; `PreviewSession`.
3. `LocalAttach`: candidates, hello, pairing, demotion; one transport.
4. `StreamParser`, `LocalMode`: the helper against the terminal and against Neovim.
5. `RemoteImages`, `Animation`, `PreviewPage`, `Interaction`.
6. Proofs, by what a reader would miss most. Done: the tables above. Left: `DeadlineHolds`
   and `HeldWithinBudget` of `RemoteImages`, for which `AnimationProofs` has the lemmas on
   sums; `NoGhost` of `LocalMode`.
7. `RendererProcess`: `process.lua` with `main.js`.
8. `Panes`: documents of a pane, history.
