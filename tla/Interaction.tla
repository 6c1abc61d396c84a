---------------------------- MODULE Interaction ----------------------------
(***************************************************************************)
(* Caret, visual selection, search and copy in one preview: the pane       *)
(* (lua/md-viewer/interaction.lua, caret.lua), the renderer's interact     *)
(* lane and its serial queue (lanes.js, service.js dispatchInteract,       *)
(* browser.js interact) and the page (interact.js, here PreviewPage).      *)
(*                                                                         *)
(* A pane handler is an operator from a pane record to a pane record; the  *)
(* requests it sends collect in `out`.  The action that runs it puts them  *)
(* on the wire.  The renderer reads the wire one request at a time and     *)
(* stamps it; a stamped request waits, runs in the page, and is answered.  *)
(* A request that a newer one has overtaken is refused - but what it did   *)
(* to the page, if it already ran, stays done.                             *)
(*                                                                         *)
(* Left out: scrolling (the page fits its viewport, so a selection's       *)
(* anchor is never pinned), the overlay's tint sheet, fast_preview's idle  *)
(* frame, links, copy_on_select.                                           *)
(***************************************************************************)
EXTENDS PreviewPage

CONSTANTS
  None,         \* a value that is nothing else
  Pages,        \* [revision -> page]: what the document shows at each revision
  Matches,      \* [revision -> [query -> <<index of each match>>]]
  Width,        \* viewport_width_px
  Clicks,       \* the <<x, y>> a reader clicks
  Readers       \* what a reader may do: [mapped |-> the <<granularity, forward>> of the
                \* motion keys, motions, modes, others |-> bounds on the keys of each
                \* kind, keys |-> ... and on all of them]

Revisions == DOMAIN Pages
Queries == DOMAIN Matches[1]

ASSUME InteractionAssumption ==
  /\ Revisions = 1..Len(Pages)
  /\ \A r \in Revisions : Boxed(CharacterSpace(Pages[r])) # {}

VARIABLES
  pane,     \* the session's interaction state
  wire,     \* requests written and not yet read
  queue,    \* requests stamped and not yet answered; the head may be running
  held,     \* the content revision of the newest render stamped
  page,     \* the shared page
  find,     \* service.js interactionState's find, for its revision
  ghost,    \* what the reader's keys ask for
  reader    \* one of Readers

vars == <<pane, wire, queue, held, page, find, ghost, reader>>

Texts == [r \in Revisions |-> CharacterSpace(Pages[r])]
Text(r) == Texts[r]

---------------------------------------------------------------------------
(* The caret *)

BoxOf(T, i) == [x |-> T[i].l, y |-> T[i].t, w |-> T[i].w, h |-> T[i].h]
Centre(rect) == [x |-> rect.x + rect.w \div 2, y |-> rect.y + rect.h \div 2]
PointOf(rect, i) == [x |-> Centre(rect).x, y |-> Centre(rect).y, index |-> i]

\* caret.index: only for the content it was measured against.
CaretIndex(p) == IF p.caret.rev = p.rev THEN p.caret.index ELSE 0
set_rect(p, rect, index) ==
  [p EXCEPT !.caret = [rect |-> rect, index |-> index, rev |-> p.rev]]

---------------------------------------------------------------------------
(* Sending *)

\* interact_request: for the pane's revision, its answer for this activation.
interact_request(p, action, arg, cb) ==
  [p EXCEPT !.out = Append(@, [action |-> action, rev |-> p.rev, arg |-> arg,
                               cb |-> cb, epoch |-> p.epoch])]

clear_selection(p) ==
  interact_request([p EXCEPT !.selRev = 0], "clear", None, [kind |-> "ignore"])
copy_selection(p) ==
  interact_request(p, "text", None, [kind |-> "copy"])

\* At most one preview out; the point wanted meanwhile stays `newest`.
attempt_selection_preview(p) ==
  IF p.pointer = None \/ p.pointer.inflight \/ ~p.pointer.extending THEN p
  ELSE interact_request([p EXCEPT !.pointer.inflight = TRUE], "select",
         [anchor |-> p.pointer.anchor, focus |-> p.pointer.newest],
         [kind |-> "preview", pointer |-> p.pointer.id, asked |-> p.pointer.stamp])

\* The commit waits for a preview that is out, then for settle_ms.
settle_selection(p, focus, clears) ==
  IF p.pointer.inflight
  THEN [p EXCEPT !.pointer.pending = [focus |-> focus, clears |-> clears,
                                      anchor |-> p.pointer.anchor]]
  ELSE [p EXCEPT !.pointer.inflight = TRUE,
                 !.settle = [pointer |-> p.pointer.id, anchor |-> p.pointer.anchor,
                             focus |-> focus, clears |-> clears]]

visual_update(p) ==
  IF p.visual = None \/ p.pointer = None \/ ~p.pointer.extending THEN p
  ELSE LET rect == p.caret.rect
           point == IF p.visual = "line"
                    THEN [x |-> Width - 1, y |-> Centre(rect).y, index |-> 0]
                    ELSE PointOf(rect, CaretIndex(p))
       IN  attempt_selection_preview([p EXCEPT !.pointer.newest = point,
                                               !.pointer.stamp = @ + 1])

visual_start(p, linewise) ==
  LET rect == p.caret.rect
      anchor == IF linewise THEN [x |-> 0, y |-> Centre(rect).y, index |-> 0]
                            ELSE PointOf(rect, CaretIndex(p))
  IN  visual_update(
        [p EXCEPT !.visual = IF linewise THEN "line" ELSE "char",
                  !.serial = @ + 1,
                  !.pointer = [id |-> p.serial + 1, extending |-> TRUE,
                               anchor |-> anchor, newest |-> anchor, stamp |-> 0,
                               inflight |-> FALSE, pending |-> None, rev |-> p.rev]])

visual_stop(p, settles) ==
  IF p.visual = None THEN p
  ELSE LET q == [p EXCEPT !.visual = None]
       IN  IF settles /\ p.pointer # None /\ p.pointer.extending
           THEN settle_selection(q, p.pointer.newest, TRUE)
           ELSE clear_selection(q)

\* A mutation of send_caret_motion: every line motion aims at the caret's column.
sendFromCaret(p, m, count, from, slot) ==
  LET desired == IF m[1] = "line" THEN p.caret.rect.x ELSE -1
      point == IF from # None THEN from ELSE Centre(p.caret.rect)
  IN  interact_request(p, "move",
        [x |-> point.x, y |-> point.y, granularity |-> m[1], forward |-> m[2],
         count |-> count, desiredX |-> desired,
         caretIndex |-> IF m[1] = "none" \/ from # None THEN 0 ELSE CaretIndex(p)],
        [kind |-> "move", motion |-> m, slot |-> slot])
\* send_caret_motion.  A line motion aims at the column its run started from.
send_caret_motion(p, m, count, from, slot) ==
  LET snaps == m[1] = "none"
      desired == IF m[1] # "line" THEN -1
                 ELSE IF p.desired # -1 THEN p.desired ELSE p.caret.rect.x
      point == IF from # None THEN from ELSE Centre(p.caret.rect)
  IN  interact_request([p EXCEPT !.desired = IF m[1] = "line" THEN desired ELSE @],
        "move",
        [x |-> point.x, y |-> point.y, granularity |-> m[1], forward |-> m[2],
         count |-> count, desiredX |-> desired,
         caretIndex |-> IF snaps \/ from # None THEN 0 ELSE CaretIndex(p)],
        [kind |-> "move", motion |-> m, slot |-> slot])

\* caret_motion: a repeat of the motion that is out is counted, not sent.
caret_motion(p, m, count, from) ==
  LET batchable == from = None /\ m[1] # "none"
      out == p.slot
  IN  IF batchable /\ out # None /\ out.motion = m
      THEN [p EXCEPT !.slot.pending = @ + count]
      ELSE IF batchable
      THEN send_caret_motion(
             [p EXCEPT !.serial = @ + 1,
                       !.slot = [id |-> p.serial + 1, motion |-> m, pending |-> 0,
                                 epoch |-> p.epoch]],
             m, count, None, p.serial + 1)
      ELSE send_caret_motion(p, m, count, from, 0)

\* `o`: the caret goes where the anchor was; the anchor becomes the caret.
visual_swap(p) ==
  IF p.visual = None \/ p.pointer = None \/ ~p.pointer.extending THEN p
  ELSE LET old == p.pointer.anchor
           rect == [x |-> old.x, y |-> old.y, w |-> p.caret.rect.w, h |-> p.caret.rect.h]
       IN  caret_motion(
             set_rect([p EXCEPT !.pointer.anchor = PointOf(p.caret.rect, CaretIndex(p))],
                      rect, 0),
             <<"none", TRUE>>, 1, None)

\* on_press and on_release of a plain click.
click(p, x, y) ==
  LET pressed == [visual_stop(p, FALSE) EXCEPT !.pointer = None]
      moved == caret_motion(pressed, <<"none", TRUE>>, 1, [x |-> x, y |-> y])
  IN  IF moved.selRev # 0 THEN clear_selection(moved) ELSE moved

forget_selection(p) ==
  [p EXCEPT !.visual = None, !.selRev = 0, !.find = [on |-> FALSE, active |-> 0],
            !.settle = None,
            !.pointer = IF @ = None THEN None
                        ELSE [@ EXCEPT !.inflight = FALSE, !.pending = None]]

---------------------------------------------------------------------------
(* Answers.  r is [ok |-> FALSE] for every refusal and failure. *)

\* attempt_selection_preview's callback.
\* A mutation of previewed: a position wanted meanwhile is not asked for.
previewedOnce(p, cb, r) ==
  IF p.pointer = None \/ p.pointer.id # cb.pointer THEN p
  ELSE LET q == [p EXCEPT !.pointer.inflight = FALSE, !.pointer.pending = None,
                          !.selRev = IF r.ok THEN p.rev ELSE @]
           pending == p.pointer.pending
       IN  IF pending # None
           THEN settle_selection([q EXCEPT !.pointer.anchor = pending.anchor],
                                 pending.focus, FALSE)
           ELSE q
previewed(p, cb, r) ==
  IF p.pointer = None \/ p.pointer.id # cb.pointer THEN p
  ELSE LET q == [p EXCEPT !.pointer.inflight = FALSE,
                          !.selRev = IF r.ok THEN p.rev ELSE @]
           pending == p.pointer.pending
       IN  IF pending # None
           THEN settle_selection([q EXCEPT !.pointer.pending = None,
                                           !.pointer.anchor = pending.anchor],
                                 pending.focus, FALSE)
           ELSE IF q.pointer.stamp # cb.asked THEN attempt_selection_preview(q)
           ELSE q

\* settle_selection's callback; nothing can have asked for another settle.
committed(p, cb, r) ==
  IF p.pointer = None \/ p.pointer.id # cb.pointer THEN p
  ELSE LET q == [p EXCEPT !.pointer.inflight = FALSE,
                          !.selRev = IF r.ok THEN p.rev ELSE @]
       IN  IF cb.clears THEN clear_selection(q) ELSE q

\* A mutation of moved: the repeats are asked for before the slot is freed.
movedFirst(p, cb, r) ==
  LET landed == set_rect(p, r.rect, r.index)
      column == IF cb.motion[1] = "line" THEN p.desired ELSE r.rect.x
      done == IF r.ok THEN visual_update([landed EXCEPT !.desired = column]) ELSE p
  IN  IF done.slot = None \/ done.slot.id # cb.slot THEN done
      ELSE IF done.slot.pending = 0 THEN [done EXCEPT !.slot = None]
      ELSE caret_motion(done, cb.motion, done.slot.pending, None)
\* send_caret_motion's callback: the caret and its column, then the selection,
\* then the repeats that were counted meanwhile.
moved(p, cb, r) ==
  LET m == cb.motion
      landed == set_rect(p, r.rect, r.index)
      column == CASE m = <<"lineboundary", TRUE>> -> Width
                  [] m[1] = "line" -> p.desired
                  [] OTHER -> r.rect.x
      done == IF r.ok THEN visual_update([landed EXCEPT !.desired = column]) ELSE p
  IN  IF done.slot = None \/ done.slot.id # cb.slot THEN done
      ELSE LET freed == [done EXCEPT !.slot = None]
           IN  IF done.slot.pending = 0 THEN freed
               ELSE caret_motion(freed, m, done.slot.pending, None)

\* find_set's and find_step's: a match takes the caret, and no index with it.
\* Only a find_set's answer puts the search on.
found(p, cb, r) ==
  IF ~r.ok THEN p
  ELSE LET q == [p EXCEPT !.find = [on |-> @.on \/ cb.sets, active |-> r.active]]
       IN  IF r.rect = None THEN q ELSE set_rect(q, r.rect, 0)

\* A render's: the pane now shows its revision.
rendered(p, cb, r) ==
  IF ~r.ok THEN p
  ELSE LET q == [p EXCEPT !.rev = cb.rev]
       IN  IF q.selRev # 0 /\ q.selRev # q.rev THEN forget_selection(q) ELSE q

\* An interact's answer is for the activation it was asked in; coming back to a
\* document shows whatever has been rendered of it meanwhile.
Answer(p, req, r) ==
  IF req.epoch # p.epoch /\ req.action # "render" THEN p
  ELSE CASE req.cb.kind = "preview" -> previewed(p, req.cb, r)
         [] req.cb.kind = "commit"  -> committed(p, req.cb, r)
         [] req.cb.kind = "move"    -> moved(p, req.cb, r)
         [] req.cb.kind = "found"   -> found(p, req.cb, r)
         [] req.cb.kind = "render"  -> rendered(p, req.cb, r)
         [] req.cb.kind = "copy"    -> IF r.ok /\ r.text # {}
                                       THEN [p EXCEPT !.register = r.text] ELSE p
         [] OTHER -> p

---------------------------------------------------------------------------
(* The reader *)

MayPress == ghost.motions + ghost.modes + ghost.others < reader.keys
Commit(next) == \E p \in {next} : /\ pane' = [p EXCEPT !.out = <<>>]
                                  /\ wire' = wire \o p.out
Requests == Range(wire) \cup {job.req : job \in Range(queue)}
Idle == wire = <<>> /\ queue = <<>>
\* Nothing under way that an answer or the timer could still change.
Quiet == Idle /\ pane.settle = None /\ (pane.slot # None => pane.slot.epoch = pane.epoch)
Renderer == <<queue, held, page, find>>

\* The reference for what keys ask of the caret: lines are sets of characters,
\* a line motion takes the adjacent line's characters nearest the run's column, and
\* the other motions the next character of some kind.
LineOf(T, i) == {j \in Boxed(T) : SameLine(T, i, j)}
Adjacent(T, i, forward) ==
  LET j == First(Beyond(T, i, forward) \ LineOf(T, i), forward)
  IN  IF j = 0 THEN {} ELSE LineOf(T, j)
Wanted(T, i, m, column) ==
  LET line == LineOf(T, i)
      next(S) == LET j == First(Beyond(T, i, m[2]) \cap S, m[2])
                 IN  {IF j = 0 THEN i ELSE j}
      other == Adjacent(T, i, m[2])
  IN  CASE m[1] = "character"    -> next(line)
        [] m[1] = "lineboundary" -> {First(line, ~m[2])}
        [] m[1] = "word"         -> next(wordStarts(T))
        [] m[1] = "word_end"     -> next(wordEnds(T))
        [] m[1] = "block"        -> next({j \in DOMAIN T : T[j].outer # T[i].outer})
        [] m[1] = "document"     -> {First(Boxed(T), ~m[2])}
        [] m[1] = "line"         ->
             IF other = {} THEN {i}
             ELSE {j \in other : \A k \in other :
                     Apart(T[j].l, column) <= Apart(T[k].l, column)}

\* A motion key.  `at` is where the keys so far put the caret, {} when something
\* other than motions was under way: a repeat goes on from there, and another motion
\* takes the place of the one that is out, from where the caret is.  `column` is the
\* run's, -1 when the next line motion starts a run at the caret, -2 when that is not
\* known.
MotionKey(m) ==
  LET T == Text(pane.rev)
      out == pane.slot # None
      repeats == out /\ pane.slot.motion = m
      replaces == out /\ ~repeats /\ ghost.at # {} /\ pane.visual = None
      from == IF Quiet \/ replaces THEN {CaretIndex(pane)} \ {0}
              ELSE IF repeats THEN ghost.at ELSE {}
      known == Quiet \/ repeats \/ (out /\ pane.slot.motion[1] = "line")
      clean == from # {} /\ (m[1] # "line" \/ (ghost.column # -2 /\ known))
      column(i) == IF ghost.column = -1 THEN T[i].l ELSE ghost.column
      at == IF clean THEN UNION {Wanted(T, i, m, column(i)) : i \in from} ELSE {}
  IN  /\ MayPress /\ ghost.motions < reader.motions
      /\ Commit(caret_motion(pane, m, 1, None))
      /\ ghost' = [ghost EXCEPT
           !.motions = @ + 1, !.at = at, !.yank = {},
           !.column = IF ~clean THEN -2
                      ELSE IF m = <<"lineboundary", TRUE>> THEN Width
                      ELSE IF m[1] # "line" THEN -1
                      ELSE column(CHOOSE i \in from : TRUE)]
      /\ UNCHANGED <<Renderer, reader>>

\* Any other key: the motions' reckoning starts over.
Other(kind, p) ==
  /\ MayPress
  /\ IF kind = "mode" THEN ghost.modes < reader.modes ELSE ghost.others < reader.others
  /\ Commit(p)
  /\ ghost' = [ghost EXCEPT
       !.modes = IF kind = "mode" THEN @ + 1 ELSE @,
       !.others = IF kind = "mode" THEN @ ELSE @ + 1,
       !.at = IF kind = "mode" /\ Quiet THEN @ ELSE {},
       !.column = CASE kind = "mode" /\ Quiet -> @
                    \* a click's caret, unless the clear of its release overtakes it
                    [] kind = "click" /\ Quiet /\ (pane.visual # None \/ pane.selRev = 0) -> -1
                    [] OTHER -> -2,
       !.yank = {},
       !.searched = CASE kind = "mode" -> FALSE [] kind = "search" -> TRUE [] OTHER -> @]
  /\ UNCHANGED <<Renderer, reader>>

\* `v` and `V` start the mode, or leave it.
VisualKey(linewise) ==
  Other("mode", IF pane.visual # None THEN visual_stop(pane, TRUE)
                ELSE visual_start(pane, linewise))

\* <Esc>: the mode first, then the search, then the selection.
Escape ==
  IF pane.visual # None THEN Other("mode", visual_stop(pane, TRUE))
  ELSE IF pane.find.on
  THEN Other("mode", interact_request([pane EXCEPT !.find = [on |-> FALSE, active |-> 0]],
                                      "find_clear", None, [kind |-> "ignore"]))
  ELSE pane.selRev # 0 /\ Other("mode", clear_selection(pane))

\* `y`: leave the mode and copy.
Yank ==
  LET p == visual_stop(pane, TRUE)
      ends == {pane.pointer.anchor.index, CaretIndex(pane)}
      known == /\ Quiet /\ pane.visual = "char" /\ pane.pointer # None
               /\ pane.pointer.rev = pane.rev /\ 0 \notin ends
  IN  /\ MayPress /\ ghost.modes < reader.modes
      /\ Commit(copy_selection(p))
      /\ ghost' = [ghost EXCEPT !.modes = @ + 1, !.at = {}, !.column = -2,
           !.yank = IF known THEN Selected(Text(pane.rev), <<Min(ends) - 1, Max(ends)>>)
                    ELSE {}]
      /\ UNCHANGED <<Renderer, reader>>

Swap == pane.visual # None /\ Other("other", visual_swap(pane))
Click(c) == Other("click", click(pane, c[1], c[2]))

Find(q) ==
  Other("search", interact_request(pane, "find_set", q, [kind |-> "found", sets |-> TRUE]))
FindStep(delta) ==
  /\ pane.find.on
  /\ Other("search", interact_request(pane, "find_step", delta, [kind |-> "found", sets |-> FALSE]))

\* The document is edited: a render of its next revision.
Edit ==
  LET rev == Max({held, pane.rev} \cup {r.rev : r \in Range(wire)}) + 1
  IN  /\ rev \in Revisions
      /\ Other("edit", [pane EXCEPT !.out =
           <<[action |-> "render", rev |-> rev, arg |-> None, epoch |-> pane.epoch,
              cb |-> [kind |-> "render", rev |-> rev]]>>])

\* Tab leave and suspend drop the pointer; showing another document and coming
\* back also drops the timer and every answer under way.
Leave ==
  Other("other", [pane EXCEPT !.pointer = None])
Switch ==
  Other("other", [pane EXCEPT !.pointer = None, !.settle = None, !.epoch = @ + 1])

\* selection_settle_timer.
SettleTimer ==
  /\ pane.settle # None
  /\ LET s == pane.settle
         p == [pane EXCEPT !.settle = None]
     IN  Commit(IF p.pointer = None \/ p.pointer.id # s.pointer THEN p
                ELSE interact_request(p, "select",
                       [anchor |-> s.anchor, focus |-> s.focus],
                       [kind |-> "commit", pointer |-> s.pointer, clears |-> s.clears]))
  /\ UNCHANGED <<Renderer, ghost, reader>>

---------------------------------------------------------------------------
(* The renderer *)

\* admit: a render overtakes everything, an interact the interacts; an
\* interact for a revision the lanes no longer hold is refused at once.
Admit ==
  /\ wire # <<>>
  /\ LET r == Head(wire)
         render == r.action = "render"
         stamped == [q \in DOMAIN queue |->
                      [queue[q] EXCEPT !.stale = @ \/ render \/ queue[q].req.action # "render"]]
     IN  IF render \/ r.rev = held
         THEN /\ queue' = Append(stamped, [req |-> r, stale |-> FALSE, result |-> None])
              /\ held' = r.rev
              /\ wire' = Tail(wire)
              /\ UNCHANGED pane
         ELSE \E p \in {Answer(pane, r, [ok |-> FALSE])} :
                /\ pane' = [p EXCEPT !.out = <<>>]
                /\ wire' = Tail(wire) \o p.out
                /\ UNCHANGED <<queue, held>>
  /\ UNCHANGED <<page, find, ghost, reader>>

\* The page with the match i of its marks made the active one, if there is that mark,
\* and the result.
marked(p, i) ==
  LET marks == IF p.query = None THEN <<>> ELSE Matches[p.rev][p.query]
  IN  IF i \in DOMAIN marks
      THEN [page |-> [p EXCEPT !.active = i],
            result |-> [active |-> i, rect |-> BoxOf(Text(p.rev), marks[i])]]
      ELSE [page |-> [p EXCEPT !.active = 0], result |-> [active |-> i, rect |-> None]]
setFindInPage(r) ==
  marked([page EXCEPT !.query = r.arg], IF Matches[r.rev][r.arg] = <<>> THEN 0 ELSE 1)
\* The step goes by the find state the renderer keeps, wrapping round, whatever is
\* marked in the page.
stepFindInPage(r) ==
  LET count == IF find.rev = r.rev THEN find.count ELSE 0
  IN  IF count = 0 THEN [page |-> page, result |-> [active |-> 0, rect |-> None]]
      ELSE marked(page, ((find.active - 1 + r.arg) % count) + 1)
clearFindInPage == [page |-> [page EXCEPT !.query = None, !.active = 0], result |-> <<>>]
clearSelectionInPage == [page |-> [page EXCEPT !.sel = <<>>], result |-> <<>>]

\* A render replaces the body, and with it the selection and the marks.
loaded(rev) == [rev |-> rev, sel |-> <<>>, query |-> None, active |-> 0, told |-> TRUE]

\* What the page can do for a request of its own revision.
evaluateAction(r) ==
  LET T == Text(r.rev)
      shown(result) == [page |-> page, result |-> result]
  IN  CASE r.action = "move" ->
             {shown([index |-> i, rect |-> BoxOf(T, i)]) : i \in moveCaretInPage(T, r.arg)}
        [] r.action = "select" ->
             {[page |-> [page EXCEPT !.sel = s], result |-> <<>>] :
                s \in resolveSelectionInPage(T, r.arg.anchor, r.arg.focus)}
        [] r.action = "clear" -> {clearSelectionInPage}
        [] r.action = "text" -> {shown([text |-> Selected(T, page.sel)])}
        [] r.action = "find_set" -> {setFindInPage(r)}
        [] r.action = "find_step" -> {stepFindInPage(r)}
        [] OTHER -> {clearFindInPage}

\* What running r can do: the page after it and the result.
Runs(r) ==
  LET answered(run) == [run EXCEPT !.result = [ok |-> TRUE] @@ @]
  IN  IF r.action = "render" THEN {[page |-> loaded(r.rev), result |-> [ok |-> TRUE]]}
      ELSE IF r.rev # page.rev THEN {[page |-> page, result |-> [ok |-> FALSE]]}
      ELSE {answered(run) : run \in evaluateAction(r)}

Waiting == queue # <<>> /\ Head(queue).result = None /\ ~Head(queue).stale
Start ==
  /\ Waiting
  /\ \E run \in Runs(Head(queue).req) :
       /\ page' = run.page
       /\ queue' = [queue EXCEPT ![1].result = run.result]
  /\ UNCHANGED <<pane, wire, held, find, ghost, reader>>

IsFind(r) == r.action \in {"find_set", "find_step", "find_clear"}

\* A mutation of findAfter: a step leaves the match it came from active.
findAfterStep(r, result) ==
  CASE r.action = "find_set" ->
         [rev |-> r.rev, query |-> r.arg, count |-> Len(Matches[r.rev][r.arg]),
          active |-> result.active]
    [] r.action = "find_step" /\ find.rev = r.rev -> find
    [] OTHER -> [rev |-> r.rev, query |-> None, count |-> 0, active |-> 0]
\* interactionState's find after r succeeded.
findAfter(r, result) ==
  CASE r.action = "find_set" ->
         [rev |-> r.rev, query |-> r.arg, count |-> Len(Matches[r.rev][r.arg]),
          active |-> result.active]
    [] r.action = "find_step" /\ find.rev = r.rev -> [find EXCEPT !.active = result.active]
    [] OTHER -> [rev |-> r.rev, query |-> None, count |-> 0, active |-> 0]

\* The answer: refused when stale, before the run or after it.
Done == queue # <<>> /\ (Head(queue).stale \/ Head(queue).result # None)
Finish ==
  /\ Done
  /\ LET job == Head(queue)
         r == job.req
         ok == ~job.stale /\ job.result # None /\ job.result.ok
         p == Answer(pane, r, IF ok THEN job.result ELSE [ok |-> FALSE])
     IN  /\ Commit(p)
         /\ queue' = Tail(queue)
         /\ find' = IF ok /\ IsFind(r) THEN findAfter(r, job.result) ELSE find
         /\ page' = IF IsFind(r) /\ job.result # None
                    THEN [page EXCEPT !.told = /\ ok /\ r.epoch = pane.epoch
                                               /\ @ \/ r.action # "find_step"]
                    ELSE page
         /\ LET sought == ok /\ r.action \in {"find_set", "find_step"} /\ r.epoch = pane.epoch
                cleared == "find_clear" \in {q.action : q \in Requests}
            IN  ghost' = [ghost EXCEPT
                  !.outlived = CASE p.rev # pane.rev -> p.find.on [] sought -> FALSE [] OTHER -> @,
                  !.unsought = IF sought THEN cleared ELSE @]
  /\ UNCHANGED <<held, reader>>

---------------------------------------------------------------------------
(* The specification *)

Init ==
  /\ \E i \in {Min(Boxed(Text(1)))} :
       pane = [rev |-> 1, epoch |-> 0, serial |-> 0, out |-> <<>>,
               caret |-> [rect |-> BoxOf(Text(1), i), index |-> i, rev |-> 1],
               desired |-> Text(1)[i].l, slot |-> None, visual |-> None,
               pointer |-> None, settle |-> None, selRev |-> 0,
               find |-> [on |-> FALSE, active |-> 0], register |-> {}]
  /\ wire = <<>> /\ queue = <<>> /\ held = 1
  /\ page = loaded(1)
  /\ find = [rev |-> 1, query |-> None, count |-> 0, active |-> 0]
  /\ ghost = [motions |-> 0, modes |-> 0, others |-> 0, at |-> {}, column |-> -1,
              yank |-> {}, searched |-> FALSE, unsought |-> FALSE, outlived |-> FALSE]
  /\ reader \in Readers

Keys ==
  \/ \E m \in reader.mapped : MotionKey(m)
  \/ \E linewise \in BOOLEAN : VisualKey(linewise)
  \/ Escape \/ Yank \/ Swap
  \/ \E c \in Clicks : Click(c)
  \/ \E q \in Queries : Find(q)
  \/ \E delta \in {1, -1} : FindStep(delta)
  \/ Edit \/ Leave \/ Switch

Next == Keys \/ SettleTimer \/ Admit \/ Start \/ Finish

Spec == Init /\ [][Next]_vars
\* The renderer and the timer do not all stop while one of them has something to
\* do; no key is owed.  This is WF_vars(System), with the states in which System
\* is enabled written out: TLC would find them by running the page.
System == SettleTimer \/ Admit \/ Finish \/ Start
FairSpec ==
  /\ Spec
  /\ []<>(Idle /\ pane.settle = None) \/ []<><<System>>_vars

---------------------------------------------------------------------------
(* Properties *)

TypeOK ==
  /\ pane.rev \in Revisions /\ held \in Revisions /\ page.rev \in Revisions
  /\ pane.visual \in {None, "char", "line"} /\ pane.out = <<>>
  /\ pane.caret.index \in Nat /\ pane.register \subseteq Nat
  /\ page.sel \in {<<>>} \cup (Nat \X Nat) /\ page.active \in Nat
  /\ \A q \in DOMAIN queue : queue[q].stale \in BOOLEAN

\* In visual mode, once every key has been answered, the page has selected the
\* characters from the anchor's to the caret's, both included, whichever way the
\* selection was extended and however the previews and the motions overtook each
\* other.  Not claimed for a mode begun in other text, for a caret that a search
\* placed, or after a search overtook a preview (interaction.lua visual_update,
\* attempt_selection_preview; interact.js resolveSelectionInPage).
HighlightIsSelection ==
  LET ends == {pane.pointer.anchor.index, CaretIndex(pane)}
  IN  /\ Idle /\ pane.visual = "char" /\ pane.pointer # None /\ ~ghost.searched
      /\ pane.pointer.extending /\ pane.pointer.rev = pane.rev /\ 0 \notin ends
      => Selected(Text(page.rev), page.sel)
           = Selected(Text(pane.rev), <<Min(ends) - 1, Max(ends)>>)

\* The rectangles of a selection hold the box of every selected character and
\* the centre of no other: what the overlay paints is what a copy would take
\* (interact.js, the geometry of resolveSelectionInPage).
HighlightCovers ==
  LET T == Text(page.rev)
      rects == selectionRects(T, page.sel)
      chosen == Selected(T, page.sel)
  IN  \A i \in Boxed(T) :
        IF i \in chosen
        THEN \E r \in rects : /\ r.l <= T[i].l /\ T[i].l + T[i].w <= r.r
                              /\ r.t <= T[i].t /\ Bottom(T, i) <= r.b
        ELSE \A r \in rects : ~(/\ r.l <= CentreX(T, i) /\ CentreX(T, i) < r.r
                                /\ r.t <= CentreY(T, i) /\ CentreY(T, i) < r.b)

\* Repeats lose nothing and add nothing: once they are answered the caret is where
\* pressing the keys one by one on a page of lines would have put it - repeats counted
\* while the first was out included, and a run of line motions aiming at the column it
\* started from, so that going down and up again returns.  A different motion pressed
\* while one is out takes its place: the keys that are out, counted or sent, are lost,
\* and it starts where the caret is.  Not claimed for a line motion that takes the
\* place of another kind, for any that does in visual mode, where a preview may
\* overtake and lose it, nor after a key of another sort pressed meanwhile
\* (interaction.lua caret_motion, send_caret_motion; interact.js lineStep).
CaretFollowsKeys ==
  Idle /\ ghost.at # {} /\ CaretIndex(pane) # 0 => CaretIndex(pane) \in ghost.at

\* Pane, service and page name the same active match, unless the last search set or
\* cleared in the page, or a step since, was refused after it ran or answered to an
\* activation that is over, <Esc> took the search back before its answer came, or the search has
\* outlived its text: an edit drops it in the page and the service, and the pane,
\* which forgets it only with a selection (controller.lua:784), keeps its old match
\* until the next search or step is answered (service.js dispatchInteract; interact.js stepFindInPage).
FindAgrees ==
  Idle /\ pane.find.on /\ page.told /\ ~ghost.unsought /\ ~ghost.outlived
    => /\ page.rev = pane.rev /\ find.rev = pane.rev
       /\ pane.find.active = page.active /\ find.active = page.active
       /\ find.query = page.query

\* The search is of the text on screen: it is dropped "on a content-revision change"
\* (interaction.lua:77-80).
SearchIsCurrent == Idle /\ pane.find.on => find.rev = pane.rev

\* Whatever is out comes back: a motion does not stay in flight, which would
\* swallow every repeat of its key, and a selection request does not, which would
\* freeze the highlight.  Showing another document drops the answer of a motion
\* in flight, and that motion's slot with it stays taken (interaction.lua
\* caret_motion, attempt_selection_preview, settle_selection).
KeysAnswered ==
  /\ (pane.slot # None /\ pane.slot.epoch = pane.epoch)
       ~> (pane.slot = None \/ pane.slot.epoch # pane.epoch)
  /\ (pane.pointer # None /\ pane.pointer.inflight)
       ~> (pane.pointer = None \/ ~pane.pointer.inflight)

\* `y` in visual mode, with nothing else under way, copies the selection on
\* screen (navigation.lua: "The settle frame lands first so the copy reads the
\* same selection the reader is looking at").
YankCopiesSelection ==
  Quiet /\ ghost.yank # {} => pane.register = ghost.yank

=============================================================================
