------------------------------- MODULE LocalMode -------------------------------
(***************************************************************************)
(* Rendering beside the terminal: the helper's replica of the document     *)
(* (local/replica.js), its injector (local/injector.js) and the renderer   *)
(* service behind them, with the attached Neovim on the other end.         *)
(*                                                                         *)
(* Neovim speaks to the helper over two channels that share no order:      *)
(* markers ride the terminal stream (up), requests ride the socket (req,   *)
(* answered in rsp).  A frame marker names a surface: a revision, a scroll *)
(* position and a visual epoch; the injector holds it until the replica    *)
(* has that surface, and then puts its pixels on the terminal.             *)
(*                                                                         *)
(* One document.  Pixels are known by what they show: the text (session    *)
(* and revision), the position, and how many mutations the page had seen.  *)
(* Not modelled: the capture's scale, the clamping of a scroll past the    *)
(* end, and other documents, which share the queue and the carried         *)
(* deletions.                                                              *)
(***************************************************************************)
EXTENDS Naturals, SequencesExt, FiniteSetsExt

CONSTANTS
    None,         \* no value
    Scenarios,    \* what the environment may do, one of these in a behaviour
    NeedAsset,    \* revisions with an image the helper does not have at first
    MaxSurfaces,  \* MAX_SURFACES of replica.js
    MaxRev        \* bound of the model

\* "sheet":    a marker may upload a tint sheet
\* "overlap":  an interaction and a content render may be in flight together
\* "repeat":   a new Neovim counts its revisions from 1 again
\* "reattach": the socket may drop, and the same Neovim attach again
\* "orphan":   an interaction may be in flight when the socket closes
\* "late":     markers may arrive after the socket of their session closed
AllHazards == {"sheet", "overlap", "repeat", "reattach", "orphan", "late"}

\* The hazards of a scenario and how many kinds of them may meet, how many sockets there
\* are in turn, the markers of each session, and the positions a preview is scrolled to;
\* it opens at 0.
ASSUME ScenariosAssumption ==
    Scenarios \subseteq [hazards : SUBSET AllHazards, kinds : Nat,
                        sessions : Nat, markers : Nat, scrolls : SUBSET Nat]

VARIABLES
    pl,   \* the attached Neovim: the preview session's fields
    up,   \* markers in the terminal stream
    req,  \* requests on the socket
    rsp,  \* responses and notifications on the socket
    h,    \* the helper, a record with the fields of HelperInit
    env   \* the scenario, and the hazards that have occurred (history)

vars == <<pl, up, req, rsp, h, env>>

befell == env.befell

\* The hazards of S occur in this step.
befalls(S) == /\ S \subseteq env.hazards
              /\ Cardinality(befell \cup S) <= env.kinds
              /\ env' = [env EXCEPT !.befell = @ \cup S]

Surface(rev, scroll, epoch) == [rev |-> rev, scroll |-> scroll, epoch |-> epoch]
Id(n, seq) == <<n, seq>>

-----------------------------------------------------------------------------
(* The replica's record of a document, and the queue of the service. *)

NewRecord == [params |-> FALSE, epoch |-> 0, pending |-> None, laid |-> 0,
              wanted |-> None, capturing |-> None]

\* docRecord(): records are kept in the order they were made, as work in flight
\* keeps its own; live is the one in docs, 0 when there is none.
docRecord(s) == IF s.live > 0 THEN s
                ELSE [s EXCEPT !.recs = Append(@, NewRecord), !.live = Len(s.recs) + 1]

say(s, note) == [s EXCEPT !.said = Append(@, note)]

\* A content admission cancels what is queued or running; a capture or an
\* interaction cancels its own kind.
admit(s, job) ==
    LET cancelled(j) == job.k = "content" \/ j.k = job.k
        marked == [i \in DOMAIN s.jobs |->
                      [s.jobs[i] EXCEPT !.stale = @ \/ cancelled(s.jobs[i])]]
    IN  [s EXCEPT !.jobs = Append(marked, job),
                  !.lrev = IF job.k = "content" THEN job.ref.rev ELSE @]

Job(k, r, ref, src, asked) ==
    [k |-> k, r |-> r, ref |-> ref, src |-> src, asked |-> asked,
     run |-> FALSE, stale |-> FALSE]

\* A mutation of layout: the record keeps the stamp of the layout before.
layoutUnstamped(s, r, q, how) ==
    admit(s, Job("content", r, Surface(q.rev, q.scroll, 0), q.src,
                 [how |-> how, n |-> q.n, serial |-> q.serial]))

\* The stamp is set when the layout is dispatched, not when it is done.
layout(s, r, q, how) ==
    admit([s EXCEPT !.recs[r].laid = q.rev],
          Job("content", r, Surface(q.rev, q.scroll, 0), q.src,
              [how |-> how, n |-> q.n, serial |-> q.serial]))

storeSurface(s, key, pix) ==
    LET others == SelectSeq(s.surf, LAMBDA e : e.key # key)
        all    == Append(others, [key |-> key, pix |-> pix])
    IN  [s EXCEPT !.surf = IF Len(all) > MaxSurfaces THEN Tail(all) ELSE all]

\* pumpCapture(): the want is checked again when it is dispatched; a capture the
\* lanes refuse settles at once.
pumpCapture(s, r) ==
    LET rec == s.recs[r]
        w   == rec.wanted
        t   == [s EXCEPT !.recs[r].wanted = None]
    IN  CASE rec.capturing # None \/ w = None -> s
          [] OTHER ->
             IF rec.epoch # w.epoch \/ rec.laid # w.rev \/ s.lrev # w.rev THEN t
             ELSE admit([t EXCEPT !.recs[r].capturing = w],
                        Job("capture", r, w, None, None))

scheduleSurface(s, ref) ==
    LET rec == s.recs[s.live]
    IN  IF s.live = 0 \/ ~rec.params
        THEN IF ref.rev \in s.nack THEN s
             ELSE say([s EXCEPT !.nack = @ \cup {ref.rev}],
                      [k |-> "missing", rev |-> ref.rev])
        ELSE IF rec.epoch # ref.epoch \/ rec.laid # ref.rev
                \/ ref \in {rec.capturing, rec.wanted}
        THEN s
        ELSE pumpCapture([s EXCEPT !.recs[s.live].wanted = ref], s.live)

-----------------------------------------------------------------------------
(* The injector. *)

uploads(m) == m.k \in {"frame", "sheet"}

\* A mutation of carryDeletions: the deletions of a marker that dies are lost.
carryNothing(s, m) == s

\* A mutation of carryDeletions: they are made at once.
carryAtOnce(s, m) == [s EXCEPT !.screen = {e \in @ : e.id \notin m.dels}]

carryDeletions(s, m) == [s EXCEPT !.carry = @ \cup m.dels]

\* One transaction is one write: uploads, placements, deletions, what was carried.
inject(s, m) ==
    LET shown == IF m.k = "frame" THEN {[id |-> m.id, names |-> m.names, pix |-> m.pix]} ELSE {}
        gone  == m.dels \cup s.carry
    IN  say([s EXCEPT !.screen = {e \in @ \cup shown : e.id \notin gone},
                      !.carry  = {},
                      !.up     = IF uploads(m) THEN @ \cup {m.id} ELSE @,
                      !.top    = IF uploads(m) /\ m.seq > @ THEN m.seq ELSE @],
            [k |-> "presented", n |-> m.id[1]])

resolved(s, m) == m.k = "sheet" \/ \E e \in ToSet(s.surf) : e.key = m.ref

\* tryInject() at a safe boundary: the immediate queue, and the pending upload
\* when its surface is there, in the order of their numbers.
tryInject(s) ==
    LET m      == s.pend
        ready  == m # None /\ resolved(s, m)
        entry  == CHOOSE e \in ToSet(s.surf) : e.key = m.ref
        bytes  == IF ready /\ m.k = "frame" THEN entry.pix ELSE None
        asked  == IF m = None THEN s
                  ELSE IF ~ready THEN scheduleSurface(s, m.ref)
                  ELSE IF m.k = "frame" THEN storeSurface(s, m.ref, bytes) ELSE s
        old    == ready /\ m.seq < s.top
        taken  == [asked EXCEPT !.imm = <<>>, !.pend = IF ready THEN None ELSE @]
        start  == IF old THEN carryDeletions(taken, m) ELSE taken
        full   == IF ready /\ ~old THEN {m @@ [pix |-> bytes]} ELSE {}
        txs    == SetToSortSeq(ToSet(s.imm) \cup full, LAMBDA a, b : a.seq < b.seq)
    IN  FoldLeft(inject, start, txs)

atBoundary(s, safe) == IF safe THEN tryInject(s) ELSE s

\* acceptMarker(): a newer upload takes the place of a pending one, a removal
\* kills it; either way its deletions are kept.
acceptMarker(s, m, safe) ==
    LET drops == s.pend # None /\ (uploads(m) \/ m.k = "kill")
        kept  == IF drops THEN carryDeletions([s EXCEPT !.pend = None], s.pend) ELSE s
    IN  atBoundary(IF uploads(m) THEN [kept EXCEPT !.pend = m]
                   ELSE [kept EXCEPT !.imm = Append(@, m)], safe)

teardown(s) == [s EXCEPT !.screen = {e \in @ : e.id \notin s.up \cup s.carry},
                         !.carry = {}, !.up = {}, !.pend = None, !.imm = <<>>, !.top = 0]

reset(s) == [s EXCEPT !.live = 0, !.surf = <<>>, !.nack = {}]

-----------------------------------------------------------------------------
(* Requests, and the service's serial queue. *)

reply(s, n, note) == say(s, note @@ [n |-> n])

handleRender(s, q) ==
    LET t == docRecord(s)
        u == [t EXCEPT !.recs[t.live].params = TRUE]
    IN  IF q.rev \in NeedAsset \ s.assets
        THEN reply([u EXCEPT !.recs[t.live].pending = q], q.n,
                   [k |-> "pending", serial |-> q.serial, rev |-> q.rev])
        ELSE layout([u EXCEPT !.recs[t.live].pending = None], t.live, q, "render")

handleAsset(s, q) ==
    LET t == [s EXCEPT !.assets = @ \cup {q.rev}]
        p == t.recs[t.live].pending
    IN  IF t.live = 0 THEN t
        ELSE IF p = None \/ p.rev \in NeedAsset \ t.assets THEN t
        ELSE layout([t EXCEPT !.recs[t.live].pending = None], t.live, p, "metrics")

\* dispatchInteract(): the lanes refuse a revision that is no longer current.
handleInteract(s, q) ==
    IF s.lrev # q.rev THEN reply(s, q.n, [k |-> "stale"])
    ELSE admit(s, Job("interact", s.live, Surface(q.rev, 0, 0), None, [n |-> q.n]))

handle(s, q) == CASE q.k = "render"   -> handleRender(s, q)
                  [] q.k = "asset"    -> handleAsset(s, q)
                  [] q.k = "interact" -> handleInteract(s, q)

drop(s) == [s EXCEPT !.jobs = Tail(@)]

\* capture's finally: the next want goes out.
settleCapture(s, j) == pumpCapture([s EXCEPT !.recs[j.r].capturing = None], j.r)

failed(s, j) == CASE j.k = "capture"  -> settleCapture(drop(s), j)
                  [] j.k = "interact" -> reply(drop(s), j.asked.n, [k |-> "stale"])
                  [] j.k = "content"  -> drop(s)

\* The markup cache, and the layout of the page, are both kept while the
\* revision is the same.
startJob(s, j) ==
    LET t == [s EXCEPT !.jobs[1].run = TRUE]
    IN  CASE j.k = "content"  -> [t EXCEPT !.page = IF @.rev = j.ref.rev THEN @
                                           ELSE [rev |-> j.ref.rev, src |-> j.src]]
          [] j.k = "interact" -> [t EXCEPT !.acts = @ + 1]
          [] j.k = "capture"  -> t

pixels(s, ref) == [src |-> s.page.src, scroll |-> ref.scroll, acts |-> s.acts]

\* A mutation of finishJob: an interaction does not move the epoch.
finishJobSameEpoch(s, j, safe) ==
    LET t   == drop(s)
        key == [j.ref EXCEPT !.epoch = s.recs[j.r].epoch]
        lay == atBoundary(storeSurface(t, key, pixels(s, j.ref)), safe)
        cap == atBoundary(storeSurface(t, j.ref, pixels(s, j.ref)), safe)
        rec == docRecord(t)
    IN  CASE j.k = "content" ->
               IF j.asked.how = "render"
               THEN reply(lay, j.asked.n, [k |-> "done", serial |-> j.asked.serial,
                                           rev |-> j.ref.rev, epoch |-> key.epoch])
               ELSE say(lay, [k |-> "metrics", rev |-> j.ref.rev, epoch |-> key.epoch])
          [] j.k = "capture" -> settleCapture(cap, j)
          [] j.k = "interact" ->
               reply(rec, j.asked.n, [k |-> "acted", rev |-> j.ref.rev, acts |-> s.acts,
                                      epoch |-> rec.recs[rec.live].epoch])

finishJob(s, j, safe) ==
    LET t   == drop(s)
        key == [j.ref EXCEPT !.epoch = s.recs[j.r].epoch]
        lay == atBoundary(storeSurface(t, key, pixels(s, j.ref)), safe)
        cap == atBoundary(storeSurface(t, j.ref, pixels(s, j.ref)), safe)
        rec == docRecord(t)
    IN  CASE j.k = "content" ->
               IF j.asked.how = "render"
               THEN reply(lay, j.asked.n, [k |-> "done", serial |-> j.asked.serial,
                                           rev |-> j.ref.rev, epoch |-> key.epoch])
               ELSE say(lay, [k |-> "metrics", rev |-> j.ref.rev, epoch |-> key.epoch])
          [] j.k = "capture" -> settleCapture(cap, j)
          [] j.k = "interact" ->
               reply([rec EXCEPT !.recs[rec.live].epoch = @ + 1], j.asked.n,
                     [k |-> "acted", rev |-> j.ref.rev, acts |-> s.acts,
                      epoch |-> rec.recs[rec.live].epoch + 1])

-----------------------------------------------------------------------------
HelperInit ==
    [recs |-> <<>>, live |-> 0, surf |-> <<>>, nack |-> {}, assets |-> {},
     jobs |-> <<>>, lrev |-> 0, page |-> [rev |-> 0, src |-> None], acts |-> 0,
     pend |-> None, imm |-> <<>>, carry |-> {}, top |-> 0, up |-> {},
     screen |-> {}, said |-> <<>>]

Neovim(n, nvim, rev) ==
    [n |-> n, nvim |-> nvim, rev |-> rev, seq |-> 0, scroll |-> 0, epoch |-> 0, acts |-> 0, cur |-> 0, frev |-> 0,
     rrev |-> 0, confirmed |-> FALSE, serial |-> 0, prep |-> 0, wait |-> 0,
     inter |-> FALSE, sheet |-> 0]

Init == /\ pl = Neovim(1, 1, 1) /\ h = HelperInit
        /\ up = <<>> /\ req = <<>> /\ rsp = <<>>
        /\ \E s \in Scenarios : env = [befell |-> {}] @@ s

\* What the helper says to the socket's client; a dead session's answers are lost.
Helper(s) ==
    /\ h' = [s EXCEPT !.said = <<>>]
    /\ rsp' = rsp \o SelectSeq(s.said, LAMBDA m : "n" \in DOMAIN m => m.n = pl.n)

AcceptMarker == /\ up # <<>> /\ up' = Tail(up)
                /\ \E safe \in BOOLEAN : Helper(acceptMarker(h, Head(up), safe))
                /\ UNCHANGED <<pl, req, env>>

\* The stream reaches a safe boundary.
Boundary == /\ h.imm # <<>> \/ h.pend # None
            /\ Helper(tryInject(h)) /\ UNCHANGED <<pl, up, req, env>>

HandleRequest == /\ req # <<>> /\ req' = Tail(req)
                 /\ Helper(handle(h, Head(req))) /\ UNCHANGED <<pl, up, env>>

StartJob == /\ h.jobs # <<>> /\ ~h.jobs[1].run
            /\ Helper(IF h.jobs[1].stale THEN failed(h, h.jobs[1]) ELSE startJob(h, h.jobs[1]))
            /\ UNCHANGED <<pl, up, req, env>>

FinishJob == /\ h.jobs # <<>> /\ h.jobs[1].run
             /\ \E safe \in BOOLEAN :
                   Helper(IF h.jobs[1].stale THEN failed(h, h.jobs[1])
                          ELSE finishJob(h, h.jobs[1], safe))
             /\ UNCHANGED <<pl, up, req, env>>

-----------------------------------------------------------------------------
(* Neovim (the Lua side of local mode). *)

\* apply_surface(): a marker naming the surface; its deletions are the image the
\* books hold, which from here on is gone.
frame(p, rev, scroll) ==
    LET seq == p.seq + 1
        ref == Surface(rev, scroll, p.epoch)
    IN  [m |-> [k |-> "frame", seq |-> seq, id |-> Id(p.n, seq), ref |-> ref,
                names |-> [nvim |-> p.nvim, acts |-> p.acts] @@ ref,
                dels |-> IF p.cur = 0 THEN {} ELSE {Id(p.n, p.cur)}],
         p |-> [p EXCEPT !.seq = seq, !.cur = seq, !.frev = rev, !.confirmed = FALSE]]

EmitFrame(p, rev, scroll) ==
    LET f == frame(p, rev, scroll) IN pl' = f.p /\ up' = Append(up, f.m)

Quiet == pl.prep = 0 /\ pl.wait = 0
\* The marker that shows an interaction in flight is kept in reserve.
MayEmit == pl.seq + (IF pl.inter THEN 1 ELSE 0) < env.markers

\* A content refresh: the marker leaves in the tick that sends the markdown to
\* this machine's renderer; the prepared markup goes to the helper later.
refreshed(p, rev) == [p EXCEPT !.rev = rev, !.serial = @ + 1, !.prep = p.serial + 1, !.wait = 0]

Refresh ==
    /\ MayEmit /\ befalls(IF pl.inter THEN {"overlap"} ELSE {})
    /\ \E rev \in {pl.rev, pl.rev + 1} :
          /\ rev <= MaxRev /\ (rev = pl.rev => pl.cur = 0)
          /\ EmitFrame(refreshed(pl, rev), rev, pl.scroll)
    /\ UNCHANGED <<req, rsp, h>>

Prepared ==
    /\ pl.prep # 0
    /\ req' = Append(req, [k |-> "render", n |-> pl.n, serial |-> pl.prep, rev |-> pl.rev,
                           scroll |-> pl.scroll, src |-> <<pl.nvim, pl.rev>>])
    /\ pl' = [pl EXCEPT !.prep = 0, !.wait = pl.prep]
    /\ UNCHANGED <<up, rsp, h, env>>

Scroll ==
    /\ MayEmit /\ pl.cur # 0 /\ pl.frev # 0
    /\ \E y \in env.scrolls \ {pl.scroll} : EmitFrame([pl EXCEPT !.scroll = y], pl.frev, y)
    /\ UNCHANGED <<req, rsp, h, env>>

Interact ==
    /\ pl.rrev # 0 /\ ~pl.inter /\ MayEmit /\ befalls(IF Quiet THEN {} ELSE {"overlap"})
    /\ req' = Append(req, [k |-> "interact", n |-> pl.n, rev |-> pl.rrev])
    /\ pl' = [pl EXCEPT !.inter = TRUE] /\ UNCHANGED <<up, rsp, h>>

\* clear_image(): a removal, which also kills what is pending.
Hide ==
    /\ MayEmit /\ pl.cur # 0
    /\ up' = Append(up, [k |-> "kill", seq |-> pl.seq + 1, id |-> Id(pl.n, pl.seq + 1),
                         dels |-> {Id(pl.n, pl.cur)}])
    /\ pl' = [pl EXCEPT !.seq = @ + 1, !.cur = 0, !.frev = 0]
    /\ UNCHANGED <<req, rsp, h, env>>

\* reconcile_placement and the caret overlay, once the frame counts as confirmed.
Overlay ==
    /\ MayEmit /\ pl.cur # 0 /\ pl.confirmed
    /\ \E k \in {"move", "sheet"} :
          /\ k = "sheet" => pl.sheet = 0
          /\ befalls({k} \ {"move"})
          /\ up' = Append(up, [k |-> k, seq |-> pl.seq + 1, id |-> Id(pl.n, pl.seq + 1),
                               ref |-> None, dels |-> {}])
          /\ pl' = [pl EXCEPT !.seq = @ + 1, !.sheet = IF k = "sheet" THEN pl.seq + 1 ELSE @]
    /\ UNCHANGED <<req, rsp, h>>

\* finish(): the geometry and the epoch; the frame itself went up before.
rendered(p, m) == [p EXCEPT !.wait = 0, !.rrev = m.rev, !.frev = IF p.cur = 0 THEN @ ELSE m.rev,
                            !.epoch = m.epoch]

ReceiveDone(m) == /\ pl' = IF m.serial = pl.wait THEN rendered(pl, m) ELSE pl
                  /\ UNCHANGED <<up, req>>

ReceiveMetrics(m) == /\ pl' = IF pl.wait # 0 /\ m.rev = pl.rev THEN rendered(pl, m) ELSE pl
                     /\ UNCHANGED <<up, req>>

ReceivePending(m) == /\ req' = IF m.serial # pl.wait THEN req
                               ELSE Append(req, [k |-> "asset", n |-> pl.n, rev |-> m.rev])
                     /\ UNCHANGED <<pl, up>>

ReceiveStale == pl' = [pl EXCEPT !.inter = FALSE] /\ UNCHANGED <<up, req>>

\* display_interact_result(): the mutation is shown by a marker of the new epoch.
ReceiveActed(m) ==
    LET p == [pl EXCEPT !.inter = FALSE, !.epoch = m.epoch, !.acts = m.acts]
    IN  /\ IF m.rev = pl.rrev THEN EmitFrame(p, pl.rrev, pl.scroll)
           ELSE pl' = p /\ up' = up
        /\ UNCHANGED req

ReceivePresented == pl' = [pl EXCEPT !.confirmed = TRUE] /\ UNCHANGED <<up, req>>

\* The helper does not know the document: a fresh render.  It says so once for a revision.
ReceiveMissing ==
    /\ IF Quiet THEN EmitFrame(refreshed(pl, pl.rev), pl.rev, pl.scroll)
       ELSE UNCHANGED <<pl, up>>
    /\ UNCHANGED req

Receive ==
    /\ rsp # <<>> /\ rsp' = Tail(rsp) /\ UNCHANGED <<h, env>>
    /\ LET m == Head(rsp)
       IN  \/ m.k = "done"      /\ ReceiveDone(m)
           \/ m.k = "metrics"   /\ ReceiveMetrics(m)
           \/ m.k = "pending"   /\ ReceivePending(m)
           \/ m.k = "stale"     /\ ReceiveStale
           \/ m.k = "acted"     /\ ReceiveActed(m)
           \/ m.k = "presented" /\ ReceivePresented
           \/ m.k = "missing"   /\ ReceiveMissing

\* The next to attach: a new Neovim, or the same one with what its session kept.
Restarted(rev) == Neovim(pl.n + 1, pl.nvim + 1, rev)
Reattached == [Neovim(pl.n + 1, pl.nvim, pl.rev) EXCEPT
                  !.epoch = pl.epoch, !.acts = pl.acts, !.scroll = pl.scroll, !.rrev = pl.rrev]

\* The socket closes: onClientChange retires what is on the terminal and empties
\* the replica, and a Neovim attaches.
Disconnect ==
    LET left == (IF up # <<>> THEN {"late"} ELSE {}) \cup (IF pl.inter THEN {"orphan"} ELSE {})
    IN  /\ pl.n < env.sessions
        /\ h' = reset(teardown(h)) /\ req' = <<>> /\ rsp' = <<>> /\ UNCHANGED up
        /\ \/ pl' = Restarted(pl.rev + 1) /\ befalls(left)
           \/ pl' = Restarted(1) /\ befalls(left \cup {"repeat"})
           \/ pl' = Reattached /\ befalls(left \cup {"reattach"})

Next == \/ AcceptMarker \/ Boundary \/ HandleRequest \/ StartJob \/ FinishJob
        \/ Refresh \/ Prepared \/ Scroll \/ Interact \/ Hide \/ Overlay \/ Receive
        \/ Disconnect

Fairness == /\ WF_vars(AcceptMarker) /\ WF_vars(Boundary) /\ WF_vars(HandleRequest)
            /\ WF_vars(StartJob) /\ WF_vars(FinishJob)
            /\ WF_vars(Prepared) /\ WF_vars(Receive)

Spec == Init /\ [][Next]_vars
FairSpec == Spec /\ Fairness

-----------------------------------------------------------------------------
\* A frame on the terminal is of the text of the Neovim that named it, although another
\* may have counted its revisions as it does (local-main.js:286-293).
TextIsNamed == \A e \in h.screen : e.pix.src = <<e.names.nvim, e.names.rev>>

\* A frame on the terminal is of the revision and the position its marker named, whatever
\* befell; of the text of the Neovim that named it, unless that one counts its revisions
\* as another did before it; and it shows every mutation that its session had been told
\* of, unless the session is one of several with the same revisions (replica.js:225-235,
\* "the exact stale-pixels class the resident invariants exist to prevent").
FrameIsNamed ==
    /\ \A e \in h.screen :
         /\ e.pix.src \in {<<nvim, e.names.rev>> : nvim \in 1 .. e.names.nvim}
         /\ e.pix.scroll = e.names.scroll
         /\ e.pix.acts >= e.names.acts \/ befell \cap {"repeat", "reattach"} # {}
    /\ TextIsNamed \/ "repeat" \in befell

InTransit == {m.dels : m \in ToSet(up)} \cup {m.dels : m \in ToSet(h.imm)}
             \cup {m.dels : m \in {h.pend} \ {None}}

\* No ghost: an image on the terminal is the one Neovim's books hold, or its
\* deletion is still on its way: in a marker, or carried by the injector, which
\* then has a transaction to send it with (injector.js, rule 1).
NoGhost ==
    "late" \notin befell =>
      /\ \A e \in h.screen : \/ e.id = Id(pl.n, pl.cur)
                             \/ e.id \in h.carry
                             \/ \E d \in InTransit : e.id \in d
      /\ h.carry # {} => h.pend # None \/ h.imm # <<>>

\* The terminal is never blank between two frames: what is up goes only with its
\* session, for a removal, or with a marker that brings no frame of its own
\* (injector.js, rule 1, "never a blank frame").
NeverBlank == [][h.screen # {} /\ h'.screen = {} =>
                   \/ pl'.n # pl.n
                   \/ \E m \in (ToSet(h.imm) \cup {h.pend}) \ {None} : m.k # "frame"
                   \/ up # <<>> /\ Head(up).k # "frame"]_vars

OnScreen(id) == \E e \in h.screen : e.id = id

\* The frame Neovim's books hold gets to the terminal ("a newer marker is on its way",
\* replica.js:230).
NewestArrives == []<>(pl.cur = 0 \/ OnScreen(Id(pl.n, pl.cur)))

\* The marker of the frame that Neovim's books hold names an epoch the page has left, or
\* a revision the session has left: no surface of it will be made any more
\* (replica.js, lines 230 and 242).
Overtaken ==
    /\ h.pend # None /\ h.pend.id = Id(pl.n, pl.cur)
    /\ h.pend.ref.rev # pl.rev \/ (h.live > 0 /\ h.pend.ref.epoch # h.recs[h.live].epoch)

\* It took no part in a transaction: the marker of a later sheet took its place (injector.js, line 131).
SheetTookPlace ==
    /\ pl.cur < pl.sheet
    /\ \A m \in ToSet(up) \cup {h.pend} : m # None => m.id # Id(pl.n, pl.cur)

\* The frame Neovim's books hold gets to the terminal, as its markers are bounded and it
\* cannot be replaced for ever, or it is one of those that cannot: it was overtaken, a
\* sheet took its place, or markers of a session that is gone have raised the number
\* that later ones are measured by (injector.js, line 160).
FrameArrives ==
    []<>(\/ pl.cur = 0 \/ OnScreen(Id(pl.n, pl.cur))
         \/ Overtaken \/ SheetTookPlace \/ "late" \in befell)

=============================================================================
