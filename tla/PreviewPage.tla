---------------------------- MODULE PreviewPage ----------------------------
(***************************************************************************)
(* The functions of renderer/src/interact.js that run inside the page, as  *)
(* pure operators.  A page is a sequence of text nodes in document order,  *)
(*                                                                         *)
(*   [inner |-> innermost source block,  outer |-> outermost one,          *)
(*    lh |-> the block's computed line height,  glyphs |-> <<glyph, ...>>] *)
(*                                                                         *)
(* and a glyph is [l, w, t, h, word]: the box Chromium lays it out in      *)
(* (w = 0: collapsed whitespace, no box) and whether it belongs to a word. *)
(* All coordinates are even, so a glyph has a centre.  The page fits its   *)
(* viewport: nothing here scrolls.                                         *)
(*                                                                         *)
(* T is the flat character space of a page (CharacterSpace), indexed from  *)
(* 1; 0 stands for the code's null.  `forward` is a Boolean.               *)
(***************************************************************************)
EXTENDS Integers, Sequences, FiniteSets, FiniteSetsExt, SequencesExt

Apart(a, b) == IF a < b THEN b - a ELSE a - b
\* The member of S where f is least; the lowest numbered one of several.
Least(S, f(_)) ==
  CHOOSE i \in S : \A j \in S : f(i) < f(j) \/ (f(i) = f(j) /\ i <= j)

---------------------------------------------------------------------------
(* The character space *)

\* What stands between two blocks: a character of no node, with no box.
Separator(outer) == [node |-> 0, outer |-> outer, l |-> 0, w |-> 0,
                     t |-> 0, h |-> 0, lh |-> 0, word |-> FALSE]

CharacterSpace(nodes) ==
  LET chars(k) ==
        [o \in DOMAIN nodes[k].glyphs |->
          [node |-> k, outer |-> nodes[k].outer, lh |-> nodes[k].lh]
            @@ nodes[k].glyphs[o]]
      glue(k) == IF k > 1 /\ nodes[k].inner # nodes[k - 1].inner
                 THEN <<Separator(nodes[k - 1].outer)>> ELSE <<>>
  IN  FoldLeft(LAMBDA text, k : text \o glue(k) \o chars(k), <<>>,
               [k \in DOMAIN nodes |-> k])

HasBox(T, i) == T[i].w > 0 /\ T[i].h > 0
Boxed(T) == {i \in DOMAIN T : HasBox(T, i)}
Beyond(T, i, forward) ==
  {j \in Boxed(T) : IF forward THEN j > i ELSE j < i}
First(S, forward) == IF S = {} THEN 0 ELSE IF forward THEN Min(S) ELSE Max(S)
Bottom(T, i) == T[i].t + T[i].h
CentreX(T, i) == T[i].l + T[i].w \div 2
CentreY(T, i) == T[i].t + T[i].h \div 2

\* Two boxes on one visual line overlap by more than half the smaller one.
SameLine(T, i, j) ==
  2 * (Min({Bottom(T, i), Bottom(T, j)}) - Max({T[i].t, T[j].t}))
    > Min({T[i].h, T[j].h})

\* The nearest boxed character at or past i; failing that, one behind it.
settle(T, i, forward) ==
  LET ahead == Beyond(T, i, forward) \cup ({i} \cap Boxed(T))
  IN  IF ahead # {} THEN First(ahead, forward)
                    ELSE First(Beyond(T, i, ~forward), ~forward)

---------------------------------------------------------------------------
(* Motions *)

\* `h` and `l`: the next boxed character, if it is on the caret's own line.
charStep(T, i, forward) ==
  LET j == First(Beyond(T, i, forward), forward)
  IN  IF j # 0 /\ SameLine(T, j, i) THEN j ELSE 0

\* The boxed characters met from i on, before one that is off i's line.
Sweep(T, i, forward) ==
  LET off == First({j \in Beyond(T, i, forward) : ~SameLine(T, j, i)}, forward)
  IN  {j \in Beyond(T, i, forward) :
         off = 0 \/ (IF forward THEN j < off ELSE j > off)}

\* `0` and `$`.
lineEdge(T, i, forward) == First({i} \cup Sweep(T, i, forward), ~forward)

\* `j` and `k`: the first line met that is not the caret's, and on it the
\* character whose left edge is nearest wantedX; ties go to the one met first.
lineStep(T, i, forward, wantedX) ==
  LET landing == First({j \in Beyond(T, i, forward) : ~SameLine(T, j, i)}, forward)
      line == {landing} \cup Sweep(T, landing, forward)
      off(j) == Apart(T[j].l, wantedX)
      near == {j \in line : \A k \in line : off(j) <= off(k)}
  IN  IF landing = 0 THEN 0 ELSE First(near, forward)

\* Ends of the runs of word characters.
wordStarts(T) == {i \in DOMAIN T : T[i].word /\ (i = 1 \/ ~T[i - 1].word)}
wordEnds(T) == {i \in DOMAIN T : T[i].word /\ (i = Len(T) \/ ~T[i + 1].word)}
wordStep(T, i, positions, forward) ==
  LET p == First({q \in positions : IF forward THEN q > i ELSE q < i}, forward)
  IN  IF p = 0 THEN 0 ELSE settle(T, p, forward)

blockStep(T, i, forward) ==
  LET p == First({q \in DOMAIN T : /\ IF forward THEN q > i ELSE q < i
                                   /\ T[q].outer # T[i].outer}, forward)
  IN  IF p = 0 THEN 0 ELSE settle(T, p, forward)

Step(T, i, granularity, forward, wantedX) ==
  CASE granularity = "character"    -> charStep(T, i, forward)
    [] granularity = "line"         -> lineStep(T, i, forward, wantedX)
    [] granularity = "lineboundary" -> lineEdge(T, i, forward)
    [] granularity = "block"        -> blockStep(T, i, forward)
    [] granularity = "word"         -> wordStep(T, i, wordStarts(T), forward)
    [] granularity = "word_end"     -> wordStep(T, i, wordEnds(T), forward)

\* `count` steps; the first that leads nowhere ends the motion.
Steps(T, from, granularity, forward, count, wantedX) ==
  LET at[n \in 0..count] ==
        IF n = 0 THEN from
        ELSE LET next == Step(T, at[n - 1], granularity, forward, wantedX)
             IN  IF next = 0 THEN at[n - 1] ELSE next
  IN  at[count]

---------------------------------------------------------------------------
(* Points *)

Over(T, i, x, y) == /\ T[i].l <= x /\ x < T[i].l + T[i].w
                    /\ T[i].t <= y /\ y < Bottom(T, i)
Level(T, y) == {i \in Boxed(T) : T[i].t <= y /\ y < Bottom(T, i)}

\* Chromium's caretPositionFromPoint: the insertion points it may answer, as
\* (the number of characters before it, the node).  At a glyph's exact centre
\* either side of the glyph; beside a line, its nearer end; else none.
caretPositionFromPoint(T, x, y) ==
  LET before(i) == [at |-> i - 1, node |-> T[i].node]
      after(i) == [at |-> i, node |-> T[i].node]
      under == {i \in Boxed(T) : Over(T, i, x, y)}
      level == Level(T, y)
  IN  IF under # {}
      THEN UNION {  (IF x <= CentreX(T, i) THEN {before(i)} ELSE {})
               \cup (IF x >= CentreX(T, i) THEN {after(i)} ELSE {}) : i \in under}
      ELSE IF level = {} THEN {}
      ELSE LET i == Least(level, LAMBDA j : Apart(CentreX(T, j), x))
           IN  {IF x < T[i].l THEN before(i) ELSE after(i)}

\* The character a position names: the one after it, or its node's last.
flatFromPoint(T, x, y) ==
  {Min({p.at + 1, Max({i \in DOMAIN T : T[i].node = p.node})}) :
     p \in caretPositionFromPoint(T, x, y)}

\* Nothing under the point: the text node nearest it, rows before columns, and
\* in it the character nearest in its row.
nearestFlat(T, x, y) ==
  LET nodes == {T[i].node : i \in Boxed(T)}
      of(k) == {i \in Boxed(T) : T[i].node = k}
      outside(v, lo, hi) == IF v < lo THEN lo - v ELSE IF v > hi THEN v - hi ELSE 0
      dy(k) == outside(y, Min({T[i].t : i \in of(k)}), Max({Bottom(T, i) : i \in of(k)}))
      dx(k) == outside(x, Min({T[i].l : i \in of(k)}),
                          Max({T[i].l + T[i].w : i \in of(k)}))
      node == Least(nodes, LAMBDA k : dy(k) * 100000 + dx(k))
      row(i) == IF y < T[i].t \/ y > Bottom(T, i) THEN 100000 ELSE 0
  IN  Least(of(node), LAMBDA i : Apart(CentreX(T, i), x) + row(i))

\* Where a motion starts: the caret's own character if that index still has a
\* box, else the point.
Origins(T, x, y, caretIndex) ==
  IF caretIndex \in Boxed(T) THEN {caretIndex}
  ELSE LET flat == flatFromPoint(T, x, y)
       IN  IF flat = {} THEN {nearestFlat(T, x, y)}
                        ELSE {settle(T, i, TRUE) : i \in flat}

\* moveCaretInPage: the characters the caret may land on.
moveCaretInPage(T, m) ==
  LET land(i) ==
        CASE m.granularity = "none" -> i
          [] m.granularity = "document" ->
               IF m.forward THEN settle(T, Len(T), FALSE) ELSE settle(T, 1, TRUE)
          [] OTHER ->
               LET wanted == IF m.desiredX < 0 THEN T[i].l ELSE m.desiredX
               IN  Steps(T, i, m.granularity, m.forward, m.count, wanted)
  IN  {land(i) : i \in Origins(T, m.x, m.y, m.caretIndex)}

---------------------------------------------------------------------------
(* Selection.  A boundary is the number of characters before it; a DOM     *)
(* selection is <<anchor, focus>>, and <<>> when there is none.            *)

\* The characters a selection holds: those of text nodes between its ends.
Selected(T, sel) ==
  IF sel = <<>> THEN {}
  ELSE {i \in (Min(Range(sel)) + 1)..Max(Range(sel)) : T[i].node # 0}

\* An index as a boundary before ("start") or after ("end") its character.
resolveIndex(T, i, boundary) ==
  IF i \in DOMAIN T /\ T[i].node # 0
  THEN {IF boundary = "end" THEN i ELSE i - 1} ELSE {}

\* A point off every block slides to the edge of the block nearest it.
nearestBlockPoint(T, x, y) ==
  LET level == Level(T, y)
      edge(S) == Max({Min({T[i].l : i \in S}),
                      Min({x, Max({T[i].l + T[i].w : i \in S}) - 1})})
      block == {j \in Boxed(T) : \E i \in level : T[i].outer = T[j].outer}
  IN  IF level = {} THEN x ELSE edge(block)

resolveSelectionPoint(T, x, y) ==
  {p.at : p \in caretPositionFromPoint(T, nearestBlockPoint(T, x, y), y)}

\* The ends a request asks for.  With both indices, the earlier character is
\* taken from its start and the later one to its end.
resolveSelectionInPage(T, a, f) ==
  LET both == a.index # 0 /\ f.index # 0
      point(p) == resolveSelectionPoint(T, p.x, p.y)
      orPoint(S, p) == IF S = {} THEN point(p) ELSE S
      anchor == IF both THEN resolveIndex(T, a.index,
                               IF a.index <= f.index THEN "start" ELSE "end")
                        ELSE resolveIndex(T, a.index, "start")
      focus == IF both THEN resolveIndex(T, f.index,
                              IF a.index <= f.index THEN "end" ELSE "start")
                       ELSE resolveIndex(T, f.index, "start")
  IN  orPoint(anchor, a) \X orPoint(focus, f)

---------------------------------------------------------------------------
(* Selection rectangles *)

\* A mutation of quads: one per node, however many lines it runs over.
quadsOfNodes(T, sel) ==
  LET chars == Selected(T, sel) \cap Boxed(T)
      quad(S) == [l |-> Min({T[j].l : j \in S}), r |-> Max({T[j].l + T[j].w : j \in S}),
                  t |-> Min({T[j].t : j \in S}), b |-> Max({Bottom(T, j) : j \in S})]
  IN  {quad({j \in chars : T[j].node = T[i].node}) : i \in chars}
\* The text quads of a selection: one per node and line, each as high as the
\* line box around it.
quads(T, sel) ==
  LET chars == Selected(T, sel) \cap Boxed(T)
      lines == {{j \in chars : T[j].node = T[i].node /\ T[j].t = T[i].t} : i \in chars}
      quad(S) == LET i == Min(S)
                     pad == IF T[i].lh > T[i].h THEN (T[i].lh - T[i].h) \div 2 ELSE 0
                 IN  [l |-> Min({T[j].l : j \in S}),
                      r |-> Max({T[j].l + T[j].w : j \in S}),
                      t |-> T[i].t - pad, b |-> Bottom(T, i) + pad]
  IN  {quad(S) : S \in lines}

\* Quads whose tops lie within 2 of the highest left are one rendered line.
bands(Q) ==
  LET from[S \in SUBSET Q] ==
        IF S = {} THEN {}
        ELSE LET top == Min({q.t : q \in S})
                 band == {q \in S : q.t <= top + 2}
             IN  {band} \cup from[S \ band]
  IN  from[Q]

\* One band's rectangles: its quads left to right, those at most 6 apart joined.
merged(Q) ==
  LET starts == {q.l : q \in {p \in Q : \A o \in Q : o.l < p.l => o.r + 6 < p.l}}
      joined(l) == {q \in Q : q.l >= l /\ ~\E m \in starts : l < m /\ m <= q.l}
  IN  {[l |-> l, r |-> Max({q.r : q \in joined(l)}),
        t |-> Min({q.t : q \in Q}), b |-> Max({q.b : q \in Q})] : l \in starts}

selectionRects(T, sel) == UNION {merged(band) : band \in bands(quads(T, sel))}

=============================================================================
