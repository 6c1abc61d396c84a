------------------------- MODULE PreviewSessionProofs -------------------------
(***************************************************************************)
(* Proofs about one preview document (PreviewSession): what its variables  *)
(* hold, that the frame it vouches for is the picture on screen, that it   *)
(* owns nothing while it is away, and that a scroll never waits for a      *)
(* capture nobody is making.                                               *)
(*                                                                         *)
(* The three hold together, so one inductive invariant carries them:       *)
(* Kept(session) relates the fields of the session to each other, and      *)
(* Awaited relates the flag of a capture in flight to the requests and     *)
(* replies under way.  Neither can be shown alone: that an inactive        *)
(* session has no capture in flight is what lets its requests be dropped.  *)
(***************************************************************************)
EXTENDS PreviewSession, SequenceTheorems, TLAPS

Session ==
  [life : {"active", "inactive", "closed"},
   scroll_y : Positions, applied_scroll_y : Positions,
   renderer_revision : Revisions \cup {0},
   scroll_render_in_flight : BOOLEAN, scroll_render_pending : BOOLEAN,
   refresh_deferred : BOOLEAN, render_failed : BOOLEAN, loading : BOOLEAN,
   last_image : Image \cup {NoImage}, image : Image \cup {NoImage},
   frame : [revision : Nat, scroll : Positions, up : BOOLEAN]]

Callback == [kind : {"scroll", "reconcile", "poll"} \cup TimerNames]
Reply == [kind : {"reply"}, request : Request, result : {"ok", "miss", "error"}]
Item == Callback \cup Reply

\* The fields of a session, in themselves and as they go together.
FramePictured(s) ==
  s.frame.up = TRUE => s.frame.revision = s.image.revision /\ s.frame.scroll = s.image.scroll

AwayEmpty(s) ==
  s.life # "active" => s.image = NoImage /\ s.last_image = NoImage /\ s.loading = FALSE

FlagsPaired(s) ==
  /\ s.life # "closed" /\ s.scroll_render_pending = TRUE => s.scroll_render_in_flight = TRUE
  /\ s.life = "inactive" => s.scroll_render_in_flight = FALSE

Kept(s) == s \in Session /\ FramePictured(s) /\ AwayEmpty(s) /\ FlagsPaired(s)

\* A moving frame is among the requests, or its reply among the callbacks.
scrollIn(requests) == \E i \in DOMAIN requests : requests[i].options.scroll_frame = TRUE
scrollReply(items) ==
  \E i \in DOMAIN items : items[i].kind = "reply" /\ items[i].request.options.scroll_frame = TRUE

Awaited == session.life = "active" /\ session.scroll_render_in_flight = TRUE
             => scrollIn(pipe) \/ scrollReply(loop)

\* The edits to come are those the scenario has left.
RevisionBounded ==
  /\ revision \in Nat \ {0}
  /\ \E budget \in Budgets : revision + left["edit"] <= 1 + budget["edit"]

Typed ==
  /\ pipe \in Seq(Request) /\ loop \in Seq(Item)
  /\ Len(pipe) + Len(loop) <= MaxPipe
  /\ timers \subseteq TimerNames
  /\ (session.life # "active" => timers = {})
  /\ draining \in BOOLEAN /\ covered \in BOOLEAN
  /\ cached \in [revision : Revisions, text : Revisions] \cup {NoMarkup}
  /\ asked \in Positions
  /\ left \in [Events -> Nat]

SessionSound == Kept(session) /\ Typed /\ Awaited /\ RevisionBounded
-----------------------------------------------------------------------------
(***************************************************************************)
(* Revisions, and the sequences of requests and callbacks.                 *)
(***************************************************************************)

\* A revision is a positive number, and 0 names none.
LEMMA RevisionsPositive == Revisions \subseteq Nat \ {0}
  <1>1. ASSUME NEW n \in Revisions PROVE n \in Nat \ {0}
    <2>1. PICK budget \in Budgets : n \in 1 .. (1 + budget["edit"])
      BY DEF Revisions
    <2>2. budget \in [Events -> Nat]
      BY SessionAssumption DEF SessionAssumption
    <2>3. budget["edit"] \in Nat
      BY <2>2 DEF Events
    <2> QED BY <2>1, <2>3
  <1> QED BY <1>1

\* A revision the scenario can still bring is one the model names.
LEMMA RevisionWithin ==
  ASSUME NEW n \in Nat \ {0}, NEW unspent \in [Events -> Nat],
         \E budget \in Budgets : n + unspent["edit"] <= 1 + budget["edit"]
  PROVE n \in Revisions
  <1>1. PICK budget \in Budgets : n + unspent["edit"] <= 1 + budget["edit"]
    OBVIOUS
  <1>2. budget \in [Events -> Nat]
    BY SessionAssumption DEF SessionAssumption
  <1>3. budget["edit"] \in Nat /\ unspent["edit"] \in Nat
    BY <1>2 DEF Events
  <1>4. n \in 1 .. (1 + budget["edit"])
    BY <1>1, <1>3
  <1> QED BY <1>4 DEF Revisions

\* The revision of the buffer is one of them.
LEMMA RevisionNamed ==
  ASSUME RevisionBounded, left \in [Events -> Nat]
  PROVE revision \in Revisions
  BY RevisionWithin DEF RevisionBounded

\* To supersede requests changes neither how many there are nor their options.
LEMMA SupersededKept ==
  ASSUME NEW requests \in Seq(Request)
  PROVE /\ allSuperseded(requests) \in Seq(Request)
        /\ Len(allSuperseded(requests)) = Len(requests)
        /\ scrollIn(requests) => scrollIn(allSuperseded(requests))
  <1>1. DOMAIN allSuperseded(requests) = 1 .. Len(requests)
    BY DEF allSuperseded
  <1>2. ASSUME NEW i \in 1 .. Len(requests)
        PROVE /\ allSuperseded(requests)[i] \in Request
              /\ allSuperseded(requests)[i].options = requests[i].options
    <2>1. requests[i] \in Request
      OBVIOUS
    <2>2. allSuperseded(requests)[i] = [requests[i] EXCEPT !.current = FALSE]
      <3>1. i \in DOMAIN requests
        OBVIOUS
      <3> QED BY <3>1 DEF allSuperseded, superseded
    <2>3. [requests[i] EXCEPT !.current = FALSE] \in Request
      BY <2>1 DEF Request
    <2>4. [requests[i] EXCEPT !.current = FALSE].options = requests[i].options
      BY <2>1 DEF Request
    <2> QED BY <2>2, <2>3, <2>4
  <1>3. Len(requests) \in Nat
    OBVIOUS
  <1>4. allSuperseded(requests) \in [1 .. Len(requests) -> Request]
    BY <1>1, <1>2 DEF allSuperseded
  <1>5. allSuperseded(requests) \in Seq(Request)
    BY <1>3, <1>4
  <1>6. Len(allSuperseded(requests)) = Len(requests)
    BY <1>1, <1>3, <1>5
  <1>7. ASSUME scrollIn(requests) PROVE scrollIn(allSuperseded(requests))
    <2>1. PICK i \in 1 .. Len(requests) : requests[i].options.scroll_frame = TRUE
      BY <1>7 DEF scrollIn
    <2>2. allSuperseded(requests)[i].options.scroll_frame = TRUE
      BY <2>1, <1>2
    <2> QED BY <1>1, <2>2 DEF scrollIn
  <1> QED BY <1>5, <1>6, <1>7

\* Nor does it change which callbacks are on the event queue.
LEMMA RepliesSupersededKept ==
  ASSUME NEW items \in Seq(Item)
  PROVE /\ repliesSuperseded(items) \in Seq(Item)
        /\ Len(repliesSuperseded(items)) = Len(items)
        /\ scrollReply(items) => scrollReply(repliesSuperseded(items))
  <1>1. DOMAIN repliesSuperseded(items) = 1 .. Len(items)
    BY DEF repliesSuperseded
  <1>2. ASSUME NEW i \in 1 .. Len(items), items[i].kind = "reply"
        PROVE /\ repliesSuperseded(items)[i] \in Reply
              /\ repliesSuperseded(items)[i].request.options = items[i].request.options
    <2>1. items[i] \in Reply
      <3>1. items[i] \in Item
        OBVIOUS
      <3> QED BY <3>1, <1>2 DEF Item, Callback, TimerNames
    <2>2. items[i].request \in Request
      BY <2>1 DEF Reply
    <2>3. superseded(items[i].request) \in Request
      BY <2>2 DEF superseded, Request
    <2>4. superseded(items[i].request).options = items[i].request.options
      BY <2>2 DEF superseded, Request
    <2>5. repliesSuperseded(items)[i] = [items[i] EXCEPT !.request = superseded(items[i].request)]
      BY <1>2 DEF repliesSuperseded
    <2> QED BY <2>1, <2>3, <2>4, <2>5 DEF Reply
  <1>3. ASSUME NEW i \in 1 .. Len(items)
        PROVE repliesSuperseded(items)[i] \in Item
    <2>1. CASE items[i].kind = "reply"
      BY <2>1, <1>2 DEF Item
    <2>2. CASE items[i].kind # "reply"
      <3>1. items[i] \in Item
        OBVIOUS
      <3> QED BY <2>2, <3>1 DEF repliesSuperseded
    <2> QED BY <2>1, <2>2
  <1>4. Len(items) \in Nat
    OBVIOUS
  <1>5. repliesSuperseded(items) \in [1 .. Len(items) -> Item]
    BY <1>1, <1>3 DEF repliesSuperseded
  <1>6. repliesSuperseded(items) \in Seq(Item)
    BY <1>4, <1>5
  <1>7. Len(repliesSuperseded(items)) = Len(items)
    BY <1>1, <1>4, <1>6
  <1>8. ASSUME scrollReply(items) PROVE scrollReply(repliesSuperseded(items))
    <2>1. PICK i \in 1 .. Len(items) :
            items[i].kind = "reply" /\ items[i].request.options.scroll_frame = TRUE
      BY <1>8 DEF scrollReply
    <2>2. repliesSuperseded(items)[i].kind = "reply"
      BY <2>1, <1>2 DEF Reply
    <2>3. repliesSuperseded(items)[i].request.options.scroll_frame = TRUE
      BY <2>1, <1>2
    <2> QED BY <1>1, <2>2, <2>3 DEF scrollReply
  <1> QED BY <1>6, <1>7, <1>8
-----------------------------------------------------------------------------
(***************************************************************************)
(* What joins the event queue, and what leaves it.                         *)
(***************************************************************************)

\* Posting a callback.
LEMMA Posted ==
  ASSUME NEW items \in Seq(Item), NEW new \in Item
  PROVE /\ Append(items, new) \in Seq(Item)
        /\ Len(Append(items, new)) = Len(items) + 1
        /\ scrollReply(items) => scrollReply(Append(items, new))
        /\ new.kind = "reply" /\ new.request.options.scroll_frame = TRUE
             => scrollReply(Append(items, new))
  <1> DEFINE more == Append(items, new)
  <1>1. more \in Seq(Item) /\ Len(more) = Len(items) + 1
    OBVIOUS
  <1>2. Len(items) \in Nat /\ DOMAIN items = 1 .. Len(items) /\ DOMAIN more = 1 .. Len(items) + 1
    OBVIOUS
  <1>3. \A i \in 1 .. Len(items) : more[i] = items[i]
    OBVIOUS
  <1>4. more[Len(items) + 1] = new
    OBVIOUS
  <1>5. ASSUME scrollReply(items) PROVE scrollReply(more)
    <2>1. PICK i \in 1 .. Len(items) :
            items[i].kind = "reply" /\ items[i].request.options.scroll_frame = TRUE
      BY <1>2, <1>5 DEF scrollReply
    <2>2. i \in DOMAIN more /\ more[i] = items[i]
      BY <1>2, <1>3
    <2> HIDE DEF more
    <2> QED BY <2>1, <2>2 DEF scrollReply
  <1>6. ASSUME new.kind = "reply", new.request.options.scroll_frame = TRUE PROVE scrollReply(more)
    <2>1. Len(items) + 1 \in DOMAIN more
      BY <1>2
    <2> HIDE DEF more
    <2> QED BY <1>4, <1>6, <2>1 DEF scrollReply
  <1> QED BY <1>1, <1>5, <1>6

\* Taking the oldest callback.
LEMMA Taken ==
  ASSUME loop \in Seq(Item), loop # <<>>
  PROVE /\ item \in Item /\ rest \in Seq(Item) /\ Len(loop) = Len(rest) + 1
        /\ scrollReply(loop) =>
             \/ scrollReply(rest)
             \/ item.kind = "reply" /\ item.request.options.scroll_frame = TRUE
  <1>1. item \in Item /\ rest \in Seq(Item) /\ Len(loop) = Len(rest) + 1
    BY DEF item, rest
  <1>2. Len(rest) \in Nat /\ DOMAIN loop = 1 .. Len(rest) + 1 /\ DOMAIN rest = 1 .. Len(rest)
    BY <1>1
  <1>3. loop[1] = item /\ \A i \in 1 .. Len(rest) : rest[i] = loop[i + 1]
    BY DEF item, rest
  <1>4. ASSUME scrollReply(loop), ~(item.kind = "reply" /\ item.request.options.scroll_frame = TRUE)
        PROVE scrollReply(rest)
    <2>1. PICK i \in DOMAIN loop :
            loop[i].kind = "reply" /\ loop[i].request.options.scroll_frame = TRUE
      BY <1>4 DEF scrollReply
    <2>2. i # 1
      BY <1>3, <1>4, <2>1
    <2>3. i - 1 \in 1 .. Len(rest) /\ rest[i - 1] = loop[(i - 1) + 1] /\ (i - 1) + 1 = i
      BY <1>2, <1>3, <2>1, <2>2
    <2>4. i - 1 \in DOMAIN rest /\ rest[i - 1] = loop[i]
      BY <1>2, <2>3
    <2> HIDE DEF rest
    <2> QED BY <2>1, <2>4 DEF scrollReply
  <1> QED BY <1>1, <1>4

\* A reply on the queue carries a request.
LEMMA ReplyTyped ==
  ASSUME NEW it \in Item, it.kind = "reply"
  PROVE it \in Reply /\ it.request \in Request /\ it.request.options \in Options
  <1>1. it \in Reply
    BY DEF Item, Callback, TimerNames
  <1> QED BY <1>1 DEF Reply, Request

\* Sending a request.
LEMMA Sent ==
  ASSUME NEW requests \in Seq(Request), NEW r \in Request
  PROVE /\ Append(requests, r) \in Seq(Request)
        /\ Len(Append(requests, r)) = Len(requests) + 1
        /\ scrollIn(requests) => scrollIn(Append(requests, r))
        /\ r.options.scroll_frame = TRUE => scrollIn(Append(requests, r))
  <1> DEFINE more == Append(requests, r)
  <1>1. more \in Seq(Request) /\ Len(more) = Len(requests) + 1
    OBVIOUS
  <1>2. /\ Len(requests) \in Nat /\ DOMAIN requests = 1 .. Len(requests)
        /\ DOMAIN more = 1 .. Len(requests) + 1
    OBVIOUS
  <1>3. \A i \in 1 .. Len(requests) : more[i] = requests[i]
    OBVIOUS
  <1>4. more[Len(requests) + 1] = r
    OBVIOUS
  <1>5. ASSUME scrollIn(requests) PROVE scrollIn(more)
    <2>1. PICK i \in 1 .. Len(requests) : requests[i].options.scroll_frame = TRUE
      BY <1>2, <1>5 DEF scrollIn
    <2>2. i \in DOMAIN more /\ more[i] = requests[i]
      BY <1>2, <1>3
    <2> HIDE DEF more
    <2> QED BY <2>1, <2>2 DEF scrollIn
  <1>6. ASSUME r.options.scroll_frame = TRUE PROVE scrollIn(more)
    <2>1. Len(requests) + 1 \in DOMAIN more
      BY <1>2
    <2> HIDE DEF more
    <2> QED BY <1>4, <1>6, <2>1 DEF scrollIn
  <1> QED BY <1>1, <1>5, <1>6

\* The oldest request is answered: what is left of the moving frames.
LEMMA Served ==
  ASSUME pipe \in Seq(Request), pipe # <<>>
  PROVE /\ Head(pipe) \in Request /\ Tail(pipe) \in Seq(Request)
        /\ Len(pipe) = Len(Tail(pipe)) + 1
        /\ scrollIn(pipe) => scrollIn(Tail(pipe)) \/ Head(pipe).options.scroll_frame = TRUE
  <1> DEFINE first == Head(pipe)
             others == Tail(pipe)
  <1>1. first \in Request /\ others \in Seq(Request) /\ Len(pipe) = Len(others) + 1
    OBVIOUS
  <1>2. Len(others) \in Nat /\ DOMAIN pipe = 1 .. Len(others) + 1 /\ DOMAIN others = 1 .. Len(others)
    BY <1>1
  <1>3. pipe[1] = first /\ \A i \in 1 .. Len(others) : others[i] = pipe[i + 1]
    OBVIOUS
  <1>4. ASSUME scrollIn(pipe), ~(first.options.scroll_frame = TRUE)
        PROVE scrollIn(others)
    <2>1. PICK i \in DOMAIN pipe : pipe[i].options.scroll_frame = TRUE
      BY <1>4 DEF scrollIn
    <2>2. i # 1
      BY <1>3, <1>4, <2>1
    <2>3. i - 1 \in 1 .. Len(others) /\ others[i - 1] = pipe[(i - 1) + 1] /\ (i - 1) + 1 = i
      BY <1>2, <1>3, <2>1, <2>2
    <2>4. i - 1 \in DOMAIN others /\ others[i - 1] = pipe[i]
      BY <1>2, <2>3
    <2> HIDE DEF others
    <2> QED BY <2>1, <2>4 DEF scrollIn
  <1> QED BY <1>1, <1>4
-----------------------------------------------------------------------------
(***************************************************************************)
(* The functions the handlers share, each from the session s and the queue *)
(* items it was called with.                                               *)
(***************************************************************************)
Flying(s, requests, items) ==
  s.life = "active" /\ s.scroll_render_in_flight = TRUE => scrollIn(requests) \/ scrollReply(items)

\* What a handler leaves behind.
Handled(s, items) ==
  /\ Kept(session') /\ session'.life = s.life
  /\ pipe' \in Seq(Request) /\ loop' \in Seq(Item)
  /\ Len(pipe') + Len(loop') <= Len(pipe) + Len(items) + 1
  /\ Flying(session', pipe', loop')

\* The kinds of frame are requests' options.
LEMMA FramesTyped ==
  contentFrame \in Options /\ settleFrame \in Options /\ movingFrame \in Options
  BY DEF Options, contentFrame, settleFrame, movingFrame

\* What is asked for is a request for a picture of this session's document.
LEMMA NewRequestTyped ==
  ASSUME NEW s \in Session, NEW rev \in Revisions, NEW text \in Revisions, NEW options \in Options
  PROVE /\ newRequest(s, rev, text, options) \in Request
        /\ newRequest(s, rev, text, options).options = options
  <1> DEFINE image == [revision |-> rev, text |-> text, scroll |-> s.scroll_y,
                       scale |-> options.capture_scale]
             method == IF options.capture_only /\ s.renderer_revision = rev THEN "capture" ELSE "render"
  <1>1. s.scroll_y \in Positions /\ options.capture_scale \in {"css", "device"}
    BY DEF Session, Options
  <1>2. image \in Image
    BY <1>1 DEF Image
  <1>3. method \in {"render", "capture"}
    OBVIOUS
  <1>4. newRequest(s, rev, text, options)
          = [current |-> TRUE, method |-> method, image |-> image, options |-> options]
    BY DEF newRequest
  <1> HIDE DEF image, method
  <1> QED BY <1>2, <1>3, <1>4 DEF Request

\* renderer.request keeps the session, and a moving frame it sends is awaited.
LEMMA RequestSends ==
  ASSUME NEW s, Kept(s), NEW rev \in Revisions, NEW text \in Revisions, NEW options \in Options,
         NEW items \in Seq(Item), pipe \in Seq(Request),
         Flying(s, pipe, items) \/ options.scroll_frame = TRUE,
         request(s, rev, text, options, items)
  PROVE Handled(s, items)
  <1> DEFINE r == newRequest(s, rev, text, options)
             before == allSuperseded(pipe)
  <1>1. r \in Request /\ r.options = options
    BY NewRequestTyped DEF Kept
  <1>2. before \in Seq(Request) /\ Len(before) = Len(pipe) /\ (scrollIn(pipe) => scrollIn(before))
    BY SupersededKept
  <1>3. session' = s /\ pipe' = Append(before, r) /\ loop' = repliesSuperseded(items)
    BY DEF request
  <1> HIDE DEF r, before
  <1>4. /\ pipe' \in Seq(Request) /\ Len(pipe') = Len(pipe) + 1
        /\ scrollIn(pipe) => scrollIn(pipe')
        /\ options.scroll_frame = TRUE => scrollIn(pipe')
    BY <1>1, <1>2, <1>3, Sent
  <1>5. /\ loop' \in Seq(Item) /\ Len(loop') = Len(items)
        /\ scrollReply(items) => scrollReply(loop')
    BY <1>3, RepliesSupersededKept
  <1>6. Flying(session', pipe', loop')
    BY <1>3, <1>4, <1>5 DEF Flying
  <1>7. Len(pipe) \in Nat /\ Len(items) \in Nat
    OBVIOUS
  <1> QED BY <1>3, <1>4, <1>5, <1>6, <1>7 DEF Handled

\* What on_complete posts is at most one callback.
LEMMA FollowUpTyped ==
  ASSUME NEW s, NEW options, NEW items \in Seq(Item)
  PROVE /\ items \o followUp(s, options) \in Seq(Item)
        /\ Len(items \o followUp(s, options)) <= Len(items) + 1
        /\ scrollReply(items) => scrollReply(items \o followUp(s, options))
  <1> DEFINE scroll == [kind |-> "scroll"]
  <1>1. scroll \in Item
    BY DEF Item, Callback
  <1>2. CASE followUp(s, options) = <<>>
    <2>1. items \o <<>> = items /\ Len(items) \in Nat
      OBVIOUS
    <2> QED BY <1>2, <2>1
  <1>3. CASE followUp(s, options) = <<scroll>>
    <2>1. items \o <<scroll>> = Append(items, scroll) /\ Len(items) \in Nat
      BY <1>1
    <2> HIDE DEF scroll
    <2>2. /\ Append(items, scroll) \in Seq(Item) /\ Len(Append(items, scroll)) = Len(items) + 1
          /\ scrollReply(items) => scrollReply(Append(items, scroll))
      BY <1>1, Posted
    <2>3. items \o followUp(s, options) = Append(items, scroll)
      BY <1>3, <2>1, Zenon
    <2>4. Len(items) + 1 <= Len(items) + 1
      BY <2>1
    <2> QED BY <2>2, <2>3, <2>4, Zenon
  <1>4. followUp(s, options) = <<>> \/ followUp(s, options) = <<scroll>>
    BY DEF followUp
  <1> QED BY <1>2, <1>3, <1>4

\* A handler that ends with on_complete leaves no capture in flight if it was one.
LEMMA Completes ==
  ASSUME NEW s, Kept(s), NEW options \in Options, NEW items \in Seq(Item), pipe \in Seq(Request),
         Flying(s, pipe, items) \/ options.scroll_frame = TRUE,
         complete(s, options, items)
  PROVE Handled(s, items)
  <1> DEFINE t == completed(s, options)
  <1>1. session' = t /\ loop' = items \o followUp(s, options) /\ pipe' = pipe
    BY DEF complete
  <1>2. /\ loop' \in Seq(Item) /\ Len(loop') <= Len(items) + 1
        /\ scrollReply(items) => scrollReply(loop')
    BY <1>1, FollowUpTyped
  <1>3. s \in Session
    BY DEF Kept
  <1>4. CASE options.scroll_frame = FALSE
    <2>1. t = s
      BY <1>4 DEF completed
    <2>2. Flying(s, pipe, items)
      BY <1>4
    <2>3. Flying(t, pipe, loop')
      BY <1>2, <2>1, <2>2 DEF Flying
    <2>4. Len(pipe) \in Nat /\ Len(items) \in Nat /\ Len(loop') \in Nat
      BY <1>2
    <2> HIDE DEF t
    <2> QED BY <1>1, <1>2, <2>1, <2>3, <2>4 DEF Handled
  <1>5. CASE options.scroll_frame = TRUE
    <2>1. t = [s EXCEPT !.scroll_render_in_flight = FALSE,
                        !.scroll_render_pending = IF valid(s) THEN FALSE ELSE @]
      BY <1>5 DEF completed
    <2>2. t \in Session
      BY <1>3, <2>1 DEF Session
    <2>3. /\ t.life = s.life /\ t.image = s.image /\ t.last_image = s.last_image
          /\ t.loading = s.loading /\ t.frame = s.frame
          /\ t.scroll_render_in_flight = FALSE
          /\ t.scroll_render_pending = IF valid(s) THEN FALSE ELSE s.scroll_render_pending
      BY <1>3, <2>1 DEF Session
    <2>4. FramePictured(t) /\ AwayEmpty(t)
      BY <2>3 DEF Kept, FramePictured, AwayEmpty
    <2>5. FlagsPaired(t)
      BY <1>3, <2>3 DEF Kept, FlagsPaired, valid, Session
    <2>6. Flying(t, pipe, loop')
      BY <2>3 DEF Flying
    <2>7. Len(pipe) \in Nat /\ Len(items) \in Nat /\ Len(loop') \in Nat
      BY <1>2
    <2> HIDE DEF t
    <2> QED BY <1>1, <1>2, <2>2, <2>3, <2>4, <2>5, <2>6, <2>7 DEF Handled, Kept
  <1>6. options.scroll_frame \in BOOLEAN
    BY DEF Options
  <1> QED BY <1>4, <1>5, <1>6

\* A picture taken off the screen leaves nothing the session vouches for.
LEMMA ClearedKept ==
  ASSUME NEW s, Kept(s)
  PROVE /\ Kept(clear_image(s)) /\ clear_image(s).life = s.life
        /\ clear_image(s).scroll_render_in_flight = s.scroll_render_in_flight
        /\ clear_image(s).image = NoImage /\ clear_image(s).frame = NoFrame
  <1> DEFINE t == clear_image(s)
  <1>1. s \in Session /\ t = [s EXCEPT !.image = NoImage, !.frame = NoFrame]
    BY DEF Kept, clear_image
  <1>2. NoFrame \in [revision : Nat, scroll : Positions, up : BOOLEAN]
    BY SessionAssumption DEF NoFrame, SessionAssumption
  <1>3. t \in Session
    BY <1>1, <1>2 DEF Session
  <1>4. /\ t.life = s.life /\ t.image = NoImage /\ t.last_image = s.last_image
        /\ t.loading = s.loading /\ t.frame = NoFrame
        /\ t.scroll_render_in_flight = s.scroll_render_in_flight
        /\ t.scroll_render_pending = s.scroll_render_pending
    BY <1>1 DEF Session
  <1>5. FramePictured(t)
    BY <1>4 DEF FramePictured, NoFrame
  <1>6. AwayEmpty(t) /\ FlagsPaired(t)
    BY <1>4 DEF Kept, AwayEmpty, FlagsPaired
  <1>7. Kept(t)
    BY <1>3, <1>5, <1>6 DEF Kept
  <1> QED BY <1>4, <1>7

\* The fields of which the invariant says nothing.
LEMMA OtherFieldsKept ==
  ASSUME NEW s, Kept(s), NEW t \in Session,
         t.life = s.life, t.image = s.image, t.last_image = s.last_image, t.frame = s.frame,
         t.scroll_render_in_flight = s.scroll_render_in_flight,
         t.scroll_render_pending = s.scroll_render_pending,
         t.loading = s.loading \/ t.loading = FALSE \/ t.life = "active"
  PROVE Kept(t)
  <1>1. FramePictured(t)
    BY DEF Kept, FramePictured
  <1>2. AwayEmpty(t)
    BY DEF Kept, AwayEmpty
  <1>3. FlagsPaired(t)
    BY DEF Kept, FlagsPaired
  <1> QED BY <1>1, <1>2, <1>3 DEF Kept

\* A refresh asks for a frame, or, behind a float, is deferred with nothing on screen.
LEMMA Refreshes ==
  ASSUME NEW s, Kept(s), NEW rev \in Revisions, NEW options \in Options,
         NEW items \in Seq(Item), pipe \in Seq(Request),
         Flying(s, pipe, items) \/ options.scroll_frame = TRUE,
         refreshAt(s, rev, options, items)
  PROVE Handled(s, items)
  <1> DEFINE begun == [s EXCEPT !.render_failed = FALSE]
             away  == [clear_image(begun) EXCEPT !.refresh_deferred = TRUE]
  <1>1. s \in Session
    BY DEF Kept
  <1>2. begun \in Session
    BY <1>1 DEF Session
  <1>3. /\ begun.life = s.life /\ begun.image = s.image /\ begun.last_image = s.last_image
        /\ begun.frame = s.frame /\ begun.loading = s.loading
        /\ begun.scroll_render_in_flight = s.scroll_render_in_flight
        /\ begun.scroll_render_pending = s.scroll_render_pending
    BY <1>1 DEF Session
  <1>4. IF covered THEN complete(away, options, items) ELSE request(begun, rev, rev, options, items)
    BY DEF refreshAt
  <1> HIDE DEF begun
  <1>5. Kept(begun)
    BY <1>2, <1>3, OtherFieldsKept
  <1>6. CASE covered
    <2> DEFINE cleared == clear_image(begun)
    <2>1. /\ Kept(cleared) /\ cleared.life = begun.life
          /\ cleared.scroll_render_in_flight = begun.scroll_render_in_flight
      BY <1>5, ClearedKept
    <2> HIDE DEF cleared
    <2>2. cleared \in Session
      BY <2>1 DEF Kept
    <2>3. away = [cleared EXCEPT !.refresh_deferred = TRUE]
      BY DEF cleared
    <2> HIDE DEF away
    <2>4. away \in Session
      BY <2>2, <2>3 DEF Session
    <2>5. /\ away.life = cleared.life /\ away.image = cleared.image
          /\ away.last_image = cleared.last_image
          /\ away.frame = cleared.frame /\ away.loading = cleared.loading
          /\ away.scroll_render_in_flight = cleared.scroll_render_in_flight
          /\ away.scroll_render_pending = cleared.scroll_render_pending
      BY <2>2, <2>3 DEF Session
    <2>6. Kept(away)
      BY <2>1, <2>4, <2>5, OtherFieldsKept
    <2>7. away.life = s.life /\ away.scroll_render_in_flight = s.scroll_render_in_flight
      BY <1>3, <2>1, <2>5
    <2>8. Flying(away, pipe, items) \/ options.scroll_frame = TRUE
      BY <2>7 DEF Flying
    <2>9. Handled(away, items)
      BY <1>4, <1>6, <2>6, <2>8, Completes
    <2> QED BY <2>7, <2>9 DEF Handled
  <1>7. CASE ~covered
    <2>1. Flying(begun, pipe, items) \/ options.scroll_frame = TRUE
      BY <1>3 DEF Flying
    <2>2. Handled(begun, items)
      BY <1>4, <1>5, <1>7, <2>1, RequestSends
    <2> QED BY <1>3, <2>2 DEF Handled
  <1> QED BY <1>6, <1>7

\* A scroll is coalesced only into a capture in flight, and else makes one.
LEMMA ScrollRefreshes ==
  ASSUME NEW s, Kept(s), s.life = "active", NEW items \in Seq(Item), pipe \in Seq(Request),
         revision \in Revisions, Flying(s, pipe, items), scrollRefresh(s, items)
  PROVE Handled(s, items)
  <1>1. s \in Session
    BY DEF Kept
  <1>2. CASE s.scroll_render_in_flight = TRUE
    <2> DEFINE t == [s EXCEPT !.scroll_render_pending = TRUE]
    <2>1. t \in Session
      BY <1>1 DEF Session
    <2>2. /\ t.life = s.life /\ t.image = s.image /\ t.last_image = s.last_image
          /\ t.frame = s.frame /\ t.loading = s.loading /\ t.scroll_render_in_flight = TRUE
      BY <1>1, <1>2 DEF Session
    <2>3. session' = t /\ loop' = items /\ pipe' = pipe
      BY <1>2 DEF scrollRefresh
    <2> HIDE DEF t
    <2>4. FramePictured(t)
      BY <2>2 DEF Kept, FramePictured
    <2>5. AwayEmpty(t)
      BY <2>2 DEF AwayEmpty
    <2>6. FlagsPaired(t)
      BY <2>2 DEF FlagsPaired
    <2>7. Kept(t)
      BY <2>1, <2>4, <2>5, <2>6 DEF Kept
    <2>8. Flying(t, pipe, items)
      BY <1>2, <2>2 DEF Flying
    <2>9. Len(pipe) \in Nat /\ Len(items) \in Nat
      OBVIOUS
    <2> QED BY <2>2, <2>3, <2>7, <2>8, <2>9 DEF Handled
  <1>3. CASE s.scroll_render_in_flight = FALSE
    <2> DEFINE t == [s EXCEPT !.scroll_render_in_flight = TRUE]
    <2>1. t \in Session
      BY <1>1 DEF Session
    <2>2. /\ t.life = s.life /\ t.image = s.image /\ t.last_image = s.last_image
          /\ t.frame = s.frame /\ t.loading = s.loading /\ t.scroll_render_in_flight = TRUE
      BY <1>1 DEF Session
    <2>3. refreshAt(t, revision, movingFrame, items)
      BY <1>3 DEF scrollRefresh, refresh
    <2> HIDE DEF t
    <2>4. FramePictured(t)
      BY <2>2 DEF Kept, FramePictured
    <2>5. AwayEmpty(t)
      BY <2>2 DEF AwayEmpty
    <2>6. FlagsPaired(t)
      BY <2>2 DEF FlagsPaired
    <2>7. Kept(t)
      BY <2>1, <2>4, <2>5, <2>6 DEF Kept
    <2>8. movingFrame \in Options /\ movingFrame.scroll_frame = TRUE
      BY FramesTyped DEF movingFrame
    <2>9. Handled(t, items)
      BY <2>3, <2>7, <2>8, Refreshes
    <2> QED BY <2>2, <2>9 DEF Handled
  <1>4. s.scroll_render_in_flight \in BOOLEAN
    BY <1>1 DEF Session
  <1> QED BY <1>2, <1>3, <1>4

\* The cached image is shown again without a claim to be of this moment.
LEMMA ResumedKept ==
  ASSUME NEW s, Kept(s), s.life = "active"
  PROVE /\ Kept(resumed(s)) /\ resumed(s).life = s.life
        /\ resumed(s).scroll_render_in_flight = s.scroll_render_in_flight
  <1>1. s \in Session
    BY DEF Kept
  <1>2. CASE s.last_image = NoImage
    BY <1>2 DEF resumed
  <1>3. CASE s.last_image # NoImage
    <2> DEFINE t == resumed(s)
    <2>1. t = [s EXCEPT !.loading = FALSE, !.image = s.last_image, !.frame = NoFrame,
                        !.refresh_deferred = FALSE]
      BY <1>3 DEF resumed
    <2>2. NoFrame \in [revision : Nat, scroll : Positions, up : BOOLEAN]
      BY SessionAssumption DEF NoFrame, SessionAssumption
    <2>3. s.last_image \in Image \cup {NoImage}
      BY <1>1 DEF Session
    <2>4. t \in Session
      BY <1>1, <2>1, <2>2, <2>3 DEF Session
    <2>5. /\ t.life = s.life /\ t.frame = NoFrame
          /\ t.scroll_render_in_flight = s.scroll_render_in_flight
          /\ t.scroll_render_pending = s.scroll_render_pending
      BY <1>1, <2>1 DEF Session
    <2> HIDE DEF t
    <2>6. FramePictured(t)
      BY <2>5 DEF FramePictured, NoFrame
    <2>7. AwayEmpty(t)
      BY <2>5 DEF AwayEmpty
    <2>8. FlagsPaired(t)
      BY <2>5 DEF Kept, FlagsPaired
    <2>9. Kept(t)
      BY <2>4, <2>6, <2>7, <2>8 DEF Kept
    <2> QED BY <2>5, <2>9 DEF t
  <1> QED BY <1>2, <1>3

\* A session that takes up again what the renderer sent has its picture and its name.
LEMMA AcceptedKept ==
  ASSUME NEW s, Kept(s), s.life = "active", NEW r \in Request
  PROVE LET a == accepted(s, r)
        IN  /\ a \in Session
            /\ a.life = "active" /\ a.last_image = r.image
            /\ a.image = s.image /\ a.frame = s.frame
            /\ a.renderer_revision = r.image.revision /\ a.applied_scroll_y = r.image.scroll
            /\ a.scroll_render_in_flight = s.scroll_render_in_flight
            /\ a.scroll_render_pending = s.scroll_render_pending
            /\ Kept(a)
  <1> DEFINE a == accepted(s, r)
             y == IF newer_scroll_pending(s, r.options) THEN s.scroll_y ELSE r.image.scroll
  <1>1. s \in Session
    BY DEF Kept
  <1>2. r.image \in Image
    BY DEF Request
  <1>3. r.image.revision \in Revisions /\ r.image.scroll \in Positions
    BY <1>2 DEF Image
  <1>4. y \in Positions
    BY <1>1, <1>3 DEF Session
  <1>5. a = [s EXCEPT !.renderer_revision = r.image.revision, !.scroll_y = y,
                      !.applied_scroll_y = r.image.scroll, !.last_image = r.image]
    BY DEF accepted
  <1> HIDE DEF a, y
  <1>6. a \in Session
    BY <1>1, <1>2, <1>3, <1>4, <1>5 DEF Session
  <1>7. /\ a.life = "active" /\ a.last_image = r.image
        /\ a.image = s.image /\ a.frame = s.frame
        /\ a.renderer_revision = r.image.revision /\ a.applied_scroll_y = r.image.scroll
        /\ a.scroll_render_in_flight = s.scroll_render_in_flight
        /\ a.scroll_render_pending = s.scroll_render_pending
    BY <1>1, <1>5 DEF Session
  <1>8. FramePictured(a)
    BY <1>7 DEF Kept, FramePictured
  <1>9. AwayEmpty(a)
    BY <1>7 DEF AwayEmpty
  <1>10. FlagsPaired(a)
    BY <1>7 DEF Kept, FlagsPaired
  <1>11. Kept(a)
    BY <1>6, <1>8, <1>9, <1>10 DEF Kept
  <1> QED BY <1>6, <1>7, <1>11 DEF a

\* What apply_image vouches for is the picture it puts up.
LEMMA AppliedKept ==
  ASSUME NEW s, Kept(s), s.life = "active", NEW r \in Request
  PROVE LET t == apply_image(accepted(s, r))
        IN  Kept(t) /\ t.life = s.life /\ t.scroll_render_in_flight = s.scroll_render_in_flight
  <1> DEFINE a == accepted(s, r)
             t == apply_image(a)
  <1>1. /\ a \in Session /\ a.life = "active" /\ a.last_image = r.image
        /\ a.renderer_revision = r.image.revision /\ a.applied_scroll_y = r.image.scroll
        /\ a.scroll_render_in_flight = s.scroll_render_in_flight /\ Kept(a)
    BY AcceptedKept
  <1> HIDE DEF a
  <1>2. t = [a EXCEPT !.loading = FALSE, !.image = a.last_image, !.frame = vouched(a)]
    BY DEF apply_image
  <1>3. vouched(a) = [revision |-> r.image.revision, scroll |-> r.image.scroll, up |-> TRUE]
    BY <1>1 DEF vouched
  <1>4. r.image \in Image
    BY DEF Request
  <1>5. r.image.revision \in Nat /\ r.image.scroll \in Positions
    BY <1>4, RevisionsPositive DEF Image
  <1>6. vouched(a) \in [revision : Nat, scroll : Positions, up : BOOLEAN]
    BY <1>3, <1>5
  <1>7. t \in Session
    BY <1>1, <1>2, <1>4, <1>6 DEF Session
  <1>8. /\ t.life = a.life /\ t.image = r.image /\ t.frame = vouched(a)
        /\ t.scroll_render_in_flight = a.scroll_render_in_flight
        /\ t.scroll_render_pending = a.scroll_render_pending
    BY <1>1, <1>2 DEF Session
  <1> HIDE DEF t
  <1>9. FramePictured(t)
    BY <1>3, <1>8 DEF FramePictured
  <1>10. AwayEmpty(t)
    BY <1>1, <1>8 DEF AwayEmpty
  <1>11. FlagsPaired(t)
    BY <1>1, <1>8 DEF Kept, FlagsPaired
  <1>12. Kept(t)
    BY <1>7, <1>9, <1>10, <1>11 DEF Kept
  <1> QED BY <1>1, <1>8, <1>12 DEF t, a
-----------------------------------------------------------------------------
(***************************************************************************)
(* The actions.                                                            *)
(***************************************************************************)

\* A handler that has done its work leaves everything sound.
LEMMA HandlerEnds ==
  ASSUME SessionSound, NEW s, NEW items \in Seq(Item), Handled(s, items),
         Len(pipe) + Len(items) < MaxPipe,
         timers' \subseteq TimerNames, s.life = "active" \/ timers' = {},
         draining' \in BOOLEAN, covered' \in BOOLEAN, asked' \in Positions,
         cached' \in [revision : Revisions, text : Revisions] \cup {NoMarkup},
         left' \in [Events -> Nat], RevisionBounded'
  PROVE SessionSound'
  <1>1. /\ Kept(session') /\ session'.life = s.life
        /\ pipe' \in Seq(Request) /\ loop' \in Seq(Item)
        /\ Len(pipe') + Len(loop') <= Len(pipe) + Len(items) + 1
        /\ Flying(session', pipe', loop')
    BY DEF Handled
  <1>2. /\ Len(pipe) \in Nat /\ Len(items) \in Nat /\ Len(pipe') \in Nat /\ Len(loop') \in Nat
        /\ MaxPipe \in Nat
    BY <1>1, SessionAssumption DEF SessionSound, Typed, SessionAssumption
  <1>3. Len(pipe') + Len(loop') <= MaxPipe
    BY <1>1, <1>2
  <1>4. Typed'
    BY <1>1, <1>3 DEF Typed
  <1>5. Awaited'
    BY <1>1 DEF Flying, Awaited
  <1>6. Kept(session)'
    BY <1>1
  <1> QED BY <1>4, <1>5, <1>6 DEF SessionSound

\* An event of the scenario happens, an edit among them.
LEMMA EventSpent ==
  ASSUME left \in [Events -> Nat], RevisionBounded, NEW e \in Events, spend(e),
         revision' = revision \/ (e = "edit" /\ revision' = revision + 1)
  PROVE left' \in [Events -> Nat] /\ RevisionBounded'
  <1>1. left[e] > 0 /\ left[e] \in Nat /\ left' = [left EXCEPT ![e] = left[e] - 1]
    BY DEF spend
  <1>2. left' \in [Events -> Nat]
    BY <1>1
  <1>3. "edit" \in Events
    BY DEF Events
  <1>4. left'["edit"] = (IF e = "edit" THEN left["edit"] - 1 ELSE left["edit"])
    BY <1>1, <1>3
  <1>5. left["edit"] \in Nat /\ revision \in Nat \ {0}
    BY <1>3 DEF RevisionBounded
  <1>6. revision' \in Nat \ {0} /\ revision' + left'["edit"] <= revision + left["edit"]
    BY <1>4, <1>5
  <1>7. PICK budget \in Budgets : revision + left["edit"] <= 1 + budget["edit"]
    BY DEF RevisionBounded
  <1>8. budget \in [Events -> Nat]
    BY SessionAssumption DEF SessionAssumption
  <1>9. budget["edit"] \in Nat /\ left'["edit"] \in Nat
    BY <1>2, <1>3, <1>8
  <1>10. revision' + left'["edit"] <= 1 + budget["edit"]
    BY <1>5, <1>6, <1>7, <1>9
  <1> QED BY <1>2, <1>6, <1>10 DEF RevisionBounded

\* A step without an event of the scenario.
LEMMA NothingSpent ==
  ASSUME left \in [Events -> Nat], RevisionBounded, left' = left, revision' = revision
  PROVE left' \in [Events -> Nat] /\ RevisionBounded'
  BY DEF RevisionBounded

\* A reply on its way keeps the options of its request.
LEMMA AnsweredTyped ==
  ASSUME NEW r \in Request, NEW text \in Revisions, NEW result \in {"ok", "miss", "error"}
  PROVE LET shown == [r EXCEPT !.image.text = text]
        IN  /\ reply(shown, result) \in Item /\ reply(shown, result).kind = "reply"
            /\ reply(shown, result).request.options = r.options
  <1> DEFINE shown == [r EXCEPT !.image.text = text]
             image == [r.image EXCEPT !.text = text]
  <1>1. r.image \in Image
    BY DEF Request
  <1>2. image \in Image
    BY <1>1 DEF Image
  <1>3. shown = [r EXCEPT !.image = image]
    OBVIOUS
  <1> HIDE DEF shown, image
  <1>4. shown \in Request /\ shown.options = r.options
    BY <1>2, <1>3 DEF Request
  <1>5. reply(shown, result) \in Reply
    BY <1>4 DEF Reply, reply
  <1> QED BY <1>4, <1>5 DEF reply, Item, shown

\* The markup that answers a request is of a revision of the document.
LEMMA MarkupTyped ==
  ASSUME NEW r \in Request, cached \in [revision : Revisions, text : Revisions] \cup {NoMarkup}
  PROVE /\ markupFor(r) \in [revision : Revisions, text : Revisions] \cup {NoMarkup}
        /\ ~(r.method = "capture" /\ cached = NoMarkup) => markupFor(r).text \in Revisions
  <1>1. r.image \in Image
    BY DEF Request
  <1>2. r.image.revision \in Revisions /\ r.image.text \in Revisions
    BY <1>1 DEF Image
  <1>3. CASE r.method = "capture"
    BY <1>3 DEF markupFor
  <1>4. CASE r.method # "capture" /\ cached.revision = r.image.revision
    <2>1. cached # NoMarkup
      BY <1>2, <1>4, RevisionsPositive DEF NoMarkup
    <2> QED BY <1>4, <2>1 DEF markupFor
  <1>5. CASE r.method # "capture" /\ cached.revision # r.image.revision
    BY <1>2, <1>5 DEF markupFor
  <1> QED BY <1>3, <1>4, <1>5

\* The renderer answers: a moving frame is awaited in the queue instead of the pipe.
LEMMA AnswerKeeps ==
  ASSUME SessionSound, Answer
  PROVE SessionSound'
  <1> DEFINE r == Head(pipe)
             result == IF r.method = "capture" /\ cached = NoMarkup THEN "miss" ELSE "ok"
             text == IF result = "ok" THEN markupFor(r).text ELSE r.image.text
             shown == [r EXCEPT !.image.text = IF result = "ok" THEN markupFor(r).text ELSE @]
             it == reply(shown, result)
  <1>1. /\ pipe # <<>> /\ loop' = Append(loop, it) /\ pipe' = Tail(pipe)
        /\ cached' \in {markupFor(r), cached}
        /\ UNCHANGED <<session, timers, draining, covered, revision, asked, left>>
    BY DEF Answer
  <1>2. pipe \in Seq(Request) /\ loop \in Seq(Item) /\ Len(pipe) + Len(loop) <= MaxPipe
    BY DEF SessionSound, Typed
  <1>3. /\ r \in Request /\ Tail(pipe) \in Seq(Request) /\ Len(pipe) = Len(Tail(pipe)) + 1
        /\ scrollIn(pipe) => scrollIn(Tail(pipe)) \/ r.options.scroll_frame = TRUE
    BY <1>1, <1>2, Served
  <1> HIDE DEF r
  <1>4. cached \in [revision : Revisions, text : Revisions] \cup {NoMarkup}
    BY DEF SessionSound, Typed
  <1>5. /\ markupFor(r) \in [revision : Revisions, text : Revisions] \cup {NoMarkup}
        /\ result = "ok" => markupFor(r).text \in Revisions
    BY <1>3, <1>4, MarkupTyped
  <1>6. result \in {"ok", "miss", "error"}
    OBVIOUS
  <1> HIDE DEF result
  <1>7. r.image \in Image
    BY <1>3 DEF Request
  <1>8. text \in Revisions
    BY <1>5, <1>7 DEF Image
  <1>9. shown = [r EXCEPT !.image.text = text]
    OBVIOUS
  <1> HIDE DEF text, shown
  <1>10. it \in Item /\ it.kind = "reply" /\ it.request.options = r.options
    BY <1>3, <1>6, <1>8, <1>9, AnsweredTyped, ZenonT(60)
  <1> HIDE DEF it
  <1>11. /\ loop' \in Seq(Item) /\ Len(loop') = Len(loop) + 1
         /\ scrollReply(loop) => scrollReply(loop')
         /\ r.options.scroll_frame = TRUE => scrollReply(loop')
    BY <1>1, <1>2, <1>10, Posted
  <1>12. Len(Tail(pipe)) \in Nat /\ Len(loop) \in Nat /\ MaxPipe \in Nat
    BY <1>2, <1>3, SessionAssumption DEF SessionAssumption
  <1>13. Len(pipe') + Len(loop') <= MaxPipe
    BY <1>1, <1>2, <1>3, <1>11, <1>12
  <1>14. cached' \in [revision : Revisions, text : Revisions] \cup {NoMarkup}
    BY <1>1, <1>4, <1>5
  <1>15. Typed'
    BY <1>1, <1>3, <1>11, <1>13, <1>14 DEF SessionSound, Typed
  <1>16. Awaited'
    BY <1>1, <1>3, <1>11 DEF SessionSound, Awaited
  <1>17. Kept(session)'
    BY <1>1 DEF SessionSound, Kept, FramePictured, AwayEmpty, FlagsPaired
  <1>18. RevisionBounded'
    BY <1>1 DEF SessionSound, RevisionBounded
  <1> QED BY <1>15, <1>16, <1>17, <1>18 DEF SessionSound

\* The renderer fails: the error comes back with the options of the request.
LEMMA AnswerErrorKeeps ==
  ASSUME SessionSound, AnswerError
  PROVE SessionSound'
  <1> DEFINE r == Head(pipe)
             it == reply(r, "error")
  <1>1. /\ pipe # <<>> /\ loop' = Append(loop, it) /\ pipe' = Tail(pipe) /\ spend("fail")
        /\ UNCHANGED <<session, timers, draining, cached, covered, revision, asked>>
    BY DEF AnswerError
  <1>2. pipe \in Seq(Request) /\ loop \in Seq(Item) /\ Len(pipe) + Len(loop) <= MaxPipe
    BY DEF SessionSound, Typed
  <1>3. /\ r \in Request /\ Tail(pipe) \in Seq(Request) /\ Len(pipe) = Len(Tail(pipe)) + 1
        /\ scrollIn(pipe) => scrollIn(Tail(pipe)) \/ r.options.scroll_frame = TRUE
    BY <1>1, <1>2, Served
  <1> HIDE DEF r
  <1>4. it \in Item /\ it.kind = "reply" /\ it.request.options = r.options
    BY <1>3 DEF reply, Item, Reply
  <1> HIDE DEF it
  <1>5. /\ loop' \in Seq(Item) /\ Len(loop') = Len(loop) + 1
        /\ scrollReply(loop) => scrollReply(loop')
        /\ r.options.scroll_frame = TRUE => scrollReply(loop')
    BY <1>1, <1>2, <1>4, Posted
  <1>6. Len(Tail(pipe)) \in Nat /\ Len(loop) \in Nat /\ MaxPipe \in Nat
    BY <1>2, <1>3, SessionAssumption DEF SessionAssumption
  <1>7. Len(pipe') + Len(loop') <= MaxPipe
    BY <1>1, <1>2, <1>3, <1>5, <1>6
  <1>8. left' \in [Events -> Nat] /\ RevisionBounded'
    BY <1>1, EventSpent DEF SessionSound, Typed, Events
  <1>9. Typed'
    BY <1>1, <1>3, <1>5, <1>7, <1>8 DEF SessionSound, Typed
  <1>10. Awaited'
    BY <1>1, <1>3, <1>5 DEF SessionSound, Awaited
  <1>11. Kept(session)'
    BY <1>1 DEF SessionSound, Kept, FramePictured, AwayEmpty, FlagsPaired
  <1> QED BY <1>8, <1>9, <1>10, <1>11 DEF SessionSound

\* The child exits: every request unanswered comes back with an error, none is lost.
LEMMA CrashKeeps ==
  ASSUME SessionSound, Crash
  PROVE SessionSound'
  <1>1. PICK order \in [DOMAIN pipe -> DOMAIN pipe] :
          /\ Range(order) = DOMAIN pipe
          /\ loop' = loop \o [i \in DOMAIN pipe |-> reply(pipe[order[i]], "error")]
    BY DEF Crash
  <1> DEFINE errors == [i \in DOMAIN pipe |-> reply(pipe[order[i]], "error")]
  <1>2. /\ pipe' = <<>> /\ cached' = NoMarkup /\ spend("crash")
        /\ UNCHANGED <<session, timers, draining, covered, revision, asked>>
    BY DEF Crash
  <1>3. pipe \in Seq(Request) /\ loop \in Seq(Item) /\ Len(pipe) + Len(loop) <= MaxPipe
    BY DEF SessionSound, Typed
  <1>4. DOMAIN pipe = 1 .. Len(pipe) /\ Len(pipe) \in Nat /\ Len(loop) \in Nat
    BY <1>3
  <1>5. ASSUME NEW i \in 1 .. Len(pipe)
        PROVE /\ errors[i] \in Item /\ errors[i].kind = "reply"
              /\ errors[i].request.options = pipe[order[i]].options
    <2>1. pipe[order[i]] \in Request
      BY <1>3, <1>4
    <2>2. errors[i] = reply(pipe[order[i]], "error")
      BY <1>4
    <2> QED BY <2>1, <2>2 DEF reply, Item, Reply
  <1>6. errors \in [1 .. Len(pipe) -> Item]
    BY <1>4, <1>5
  <1>7. errors \in Seq(Item) /\ Len(errors) = Len(pipe)
    BY <1>4, <1>6, LenProperties
  <1> HIDE DEF errors
  <1>8. /\ loop' \in Seq(Item) /\ Len(loop') = Len(loop) + Len(pipe)
        /\ \A i \in 1 .. Len(loop) : loop'[i] = loop[i]
        /\ \A i \in 1 .. Len(pipe) : loop'[Len(loop) + i] = errors[i]
    BY <1>1, <1>3, <1>7 DEF errors
  <1>9. DOMAIN loop' = 1 .. Len(loop) + Len(pipe) /\ DOMAIN loop = 1 .. Len(loop)
    BY <1>3, <1>8
  <1>10. ASSUME scrollReply(loop) PROVE scrollReply(loop)'
    <2>1. PICK i \in 1 .. Len(loop) :
            loop[i].kind = "reply" /\ loop[i].request.options.scroll_frame = TRUE
      BY <1>9, <1>10 DEF scrollReply
    <2>2. i \in DOMAIN loop' /\ loop'[i] = loop[i]
      BY <1>4, <1>8, <1>9
    <2> QED BY <2>1, <2>2 DEF scrollReply
  <1>11. ASSUME scrollIn(pipe) PROVE scrollReply(loop)'
    <2>1. PICK j \in DOMAIN pipe : pipe[j].options.scroll_frame = TRUE
      BY <1>11 DEF scrollIn
    <2>2. PICK i \in DOMAIN pipe : order[i] = j
      BY <1>1, <2>1 DEF Range
    <2>3. /\ i \in 1 .. Len(pipe) /\ Len(loop) + i \in DOMAIN loop'
          /\ loop'[Len(loop) + i] = errors[i]
      BY <1>4, <1>8, <1>9, <2>2
    <2>4. errors[i].kind = "reply" /\ errors[i].request.options.scroll_frame = TRUE
      BY <1>5, <2>1, <2>2, <2>3
    <2> QED BY <2>3, <2>4 DEF scrollReply
  <1>12. left' \in [Events -> Nat] /\ RevisionBounded'
    BY <1>2, EventSpent DEF SessionSound, Typed, Events
  <1>13. pipe' \in Seq(Request) /\ Len(pipe') = 0
    BY <1>2
  <1>14. Len(pipe') + Len(loop') <= MaxPipe
    BY <1>3, <1>4, <1>8, <1>13
  <1>15. Typed'
    BY <1>2, <1>8, <1>12, <1>13, <1>14 DEF SessionSound, Typed
  <1>16. Awaited'
    BY <1>2, <1>10, <1>11 DEF SessionSound, Awaited
  <1>17. Kept(session)'
    BY <1>2 DEF SessionSound, Kept, FramePictured, AwayEmpty, FlagsPaired
  <1> QED BY <1>12, <1>15, <1>16, <1>17 DEF SessionSound

\* Another callback joins the queue.
LEMMA PostingKeeps ==
  ASSUME SessionSound, room, NEW new \in Item, loop' = Append(loop, new),
         timers' \subseteq timers, covered' \in BOOLEAN, left' \in [Events -> Nat], RevisionBounded',
         UNCHANGED <<session, draining, pipe, cached, asked>>
  PROVE SessionSound'
  <1>1. pipe \in Seq(Request) /\ loop \in Seq(Item)
    BY DEF SessionSound, Typed
  <1>2. /\ loop' \in Seq(Item) /\ Len(loop') = Len(loop) + 1
        /\ scrollReply(loop) => scrollReply(loop')
    BY <1>1, Posted
  <1>3. Len(pipe) + Len(loop) < MaxPipe
    BY DEF room
  <1>4. Len(pipe) \in Nat /\ Len(loop) \in Nat /\ MaxPipe \in Nat
    BY <1>1, SessionAssumption DEF SessionAssumption
  <1>5. Len(pipe') + Len(loop') <= MaxPipe
    BY <1>2, <1>3, <1>4
  <1>6. Typed'
    BY <1>2, <1>5 DEF SessionSound, Typed
  <1>7. Awaited'
    BY <1>2 DEF SessionSound, Awaited
  <1>8. Kept(session)'
    BY DEF SessionSound, Kept, FramePictured, AwayEmpty, FlagsPaired
  <1> QED BY <1>6, <1>7, <1>8 DEF SessionSound

\* Timers fire, the poll ticks, and the cache of the renderer is emptied.
LEMMA TimersKeep ==
  ASSUME SessionSound,
         Evict \/ PollTick \/ \E name \in TimerNames : TimerFires(name)
  PROVE SessionSound'
  <1>1. CASE Evict
    <2>1. /\ spend("crash") /\ cached' = NoMarkup
          /\ UNCHANGED <<session, timers, loop, draining, pipe, covered, revision, asked>>
      BY <1>1 DEF Evict
    <2>2. left' \in [Events -> Nat] /\ RevisionBounded'
      BY <2>1, EventSpent DEF SessionSound, Typed, Events
    <2>3. Typed'
      BY <2>1, <2>2 DEF SessionSound, Typed
    <2>4. Awaited'
      BY <2>1 DEF SessionSound, Awaited
    <2>5. Kept(session)'
      BY <2>1 DEF SessionSound, Kept, FramePictured, AwayEmpty, FlagsPaired
    <2> QED BY <2>2, <2>3, <2>4, <2>5 DEF SessionSound
  <1>2. CASE PollTick
    <2> DEFINE poll == [kind |-> "poll"]
    <2>1. /\ room /\ loop' = Append(loop, poll)
          /\ UNCHANGED <<session, timers, draining, pipe, cached, covered, revision, asked, left>>
      BY <1>2 DEF PollTick
    <2>2. poll \in Item
      BY DEF Item, Callback
    <2>3. left' \in [Events -> Nat] /\ RevisionBounded'
      BY <2>1, NothingSpent DEF SessionSound, Typed
    <2>4. covered' \in BOOLEAN
      BY <2>1 DEF SessionSound, Typed
    <2> HIDE DEF poll
    <2> QED BY <2>1, <2>2, <2>3, <2>4, PostingKeeps
  <1>3. ASSUME NEW name \in TimerNames, TimerFires(name) PROVE SessionSound'
    <2> DEFINE fired == [kind |-> name]
    <2>1. /\ room /\ loop' = Append(loop, fired) /\ timers' = timers \ {name}
          /\ UNCHANGED <<session, draining, pipe, cached, covered, revision, asked, left>>
      BY <1>3 DEF TimerFires
    <2>2. fired \in Item
      BY DEF Item, Callback
    <2>3. left' \in [Events -> Nat] /\ RevisionBounded'
      BY <2>1, NothingSpent DEF SessionSound, Typed
    <2>4. covered' \in BOOLEAN
      BY <2>1 DEF SessionSound, Typed
    <2>5. timers' \subseteq timers
      BY <2>1
    <2> HIDE DEF fired
    <2> QED BY <2>1, <2>2, <2>3, <2>4, <2>5, PostingKeeps
  <1> QED BY <1>1, <1>2, <1>3

\* What every callback finds: the queue without it, and room for one request.
LEMMA CallbackStarts ==
  ASSUME SessionSound, loop # <<>>
  PROVE /\ item \in Item /\ rest \in Seq(Item) /\ Len(pipe) + Len(rest) < MaxPipe
        /\ pipe \in Seq(Request) /\ revision \in Revisions
        /\ Kept(session) /\ session \in Session
        /\ ~(item.kind = "reply") => Flying(session, pipe, rest)
        /\ item.kind = "reply" =>
             /\ item.request \in Request /\ item.request.options \in Options
             /\ Flying(session, pipe, rest) \/ item.request.options.scroll_frame = TRUE
  <1>1. pipe \in Seq(Request) /\ loop \in Seq(Item) /\ Len(pipe) + Len(loop) <= MaxPipe
    BY DEF SessionSound, Typed
  <1>2. /\ item \in Item /\ rest \in Seq(Item) /\ Len(loop) = Len(rest) + 1
        /\ scrollReply(loop) =>
             \/ scrollReply(rest)
             \/ item.kind = "reply" /\ item.request.options.scroll_frame = TRUE
    BY <1>1, Taken
  <1>3. Len(pipe) \in Nat /\ Len(rest) \in Nat /\ MaxPipe \in Nat
    BY <1>1, <1>2, SessionAssumption DEF SessionAssumption
  <1>4. Len(pipe) + Len(rest) < MaxPipe
    BY <1>1, <1>2, <1>3
  <1>5. revision \in Revisions
    BY RevisionNamed DEF SessionSound, Typed
  <1>6. Kept(session) /\ session \in Session
    BY DEF SessionSound, Kept
  <1>7. \/ Flying(session, pipe, rest)
        \/ item.kind = "reply" /\ item.request.options.scroll_frame = TRUE
    BY <1>2 DEF SessionSound, Awaited, Flying
  <1>8. item.kind = "reply" => item.request \in Request /\ item.request.options \in Options
    BY <1>2, ReplyTyped
  <1> QED BY <1>1, <1>2, <1>4, <1>5, <1>6, <1>7, <1>8

\* What every callback leaves: it touches the session, the pipe, the timers and the
\* queue only.
LEMMA CallbackEnds ==
  ASSUME SessionSound, loop # <<>>, NEW s, Handled(s, rest),
         timers' \subseteq TimerNames, s.life = "active" \/ timers' = {},
         draining' = (loop' # <<>>), UNCHANGED <<cached, covered, revision, asked>>,
         left' = left \/ spend("fail")
  PROVE SessionSound'
  <1>1. rest \in Seq(Item) /\ Len(pipe) + Len(rest) < MaxPipe
    BY CallbackStarts
  <1>2. left' \in [Events -> Nat] /\ RevisionBounded'
    <2>1. CASE left' = left
      BY <2>1, NothingSpent DEF SessionSound, Typed
    <2>2. CASE spend("fail")
      BY <2>2, EventSpent DEF SessionSound, Typed, Events
    <2> QED BY <2>1, <2>2
  <1>3. /\ draining' \in BOOLEAN /\ covered' \in BOOLEAN /\ asked' \in Positions
        /\ cached' \in [revision : Revisions, text : Revisions] \cup {NoMarkup}
    BY DEF SessionSound, Typed
  <1> HIDE DEF rest
  <1> QED BY <1>1, <1>2, <1>3, HandlerEnds

\* A callback that changes the session only, and no flag of a capture, is handled.
LEMMA SessionOnly ==
  ASSUME NEW s, NEW items \in Seq(Item), pipe \in Seq(Request), Flying(s, pipe, items),
         Kept(session'), session'.life = s.life,
         session'.scroll_render_in_flight = s.scroll_render_in_flight,
         loop' = items, pipe' = pipe
  PROVE Handled(s, items)
  <1>1. Flying(session', pipe', loop')
    BY DEF Flying
  <1>2. Len(pipe) \in Nat /\ Len(items) \in Nat
    OBVIOUS
  <1> QED BY <1>1, <1>2 DEF Handled

\* reconcile_occlusion
LEMMA Reconciles ==
  ASSUME SessionSound, loop # <<>>, valid(session), item.kind # "reply",
         reconcile(session), loop' = rest, UNCHANGED pipe
  PROVE Handled(session, rest) /\ timers' \subseteq TimerNames
  <1>1. /\ rest \in Seq(Item) /\ pipe \in Seq(Request) /\ Kept(session)
        /\ Flying(session, pipe, rest)
    BY CallbackStarts
  <1>2. session.life = "active" /\ covered \in BOOLEAN /\ timers \subseteq TimerNames
    BY DEF valid, SessionSound, Typed
  <1> HIDE DEF rest
  <1>3. CASE covered = TRUE
    <2>1. session' = clear_image(session) /\ timers' = timers
      BY <1>3 DEF reconcile
    <2>2. /\ Kept(session') /\ session'.life = session.life
          /\ session'.scroll_render_in_flight = session.scroll_render_in_flight
      BY <1>1, <2>1, ClearedKept
    <2> QED BY <1>1, <1>2, <2>1, <2>2, SessionOnly
  <1>4. CASE covered = FALSE /\ session.image # NoImage
    <2>1. session' = session /\ timers' = timers
      BY <1>4 DEF reconcile
    <2> QED BY <1>1, <1>2, <2>1, SessionOnly
  <1>5. CASE covered = FALSE /\ session.image = NoImage
    <2>1. resume(session)
      BY <1>5 DEF reconcile
    <2>2. session' = resumed(session) /\ timers' \subseteq TimerNames
      BY <1>2, <2>1 DEF resume, TimerNames
    <2>3. /\ Kept(session') /\ session'.life = session.life
          /\ session'.scroll_render_in_flight = session.scroll_render_in_flight
      BY <1>1, <1>2, <2>2, ResumedKept
    <2> QED BY <1>1, <2>2, <2>3, SessionOnly
  <1> QED BY <1>2, <1>3, <1>4, <1>5

\* The callbacks of timers and of the poll.
LEMMA TimerCallbacksKeep ==
  ASSUME SessionSound, draining' = (loop' # <<>>),
         \/ RunInvalid \/ RunRenderTimer \/ RunSettleTimer \/ RunScroll \/ RunReconcile \/ RunPoll
  PROVE SessionSound'
  <1>1. timers \subseteq TimerNames /\ (session.life # "active" => timers = {})
    BY DEF SessionSound, Typed
  <1>2. CASE RunInvalid
    <2>1. /\ loop # <<>> /\ loop' = rest /\ session.life # "active"
          /\ UNCHANGED <<session, timers, pipe, left>> /\ UNCHANGED <<cached, covered, revision, asked>>
      BY <1>2 DEF RunInvalid, Runs, valid
    <2>2. rest \in Seq(Item) /\ pipe \in Seq(Request) /\ Kept(session)
      BY <2>1, CallbackStarts
    <2>3. Flying(session, pipe, rest)
      BY <2>1 DEF Flying
    <2>4. Kept(session') /\ session'.life = session.life
          /\ session'.scroll_render_in_flight = session.scroll_render_in_flight
      BY <2>1, <2>2
    <2> HIDE DEF rest
    <2>5. Handled(session, rest)
      BY <2>1, <2>2, <2>3, <2>4, SessionOnly
    <2> QED BY <1>1, <2>1, <2>5, CallbackEnds
  <1>3. CASE RunRenderTimer
    <2>1. /\ loop # <<>> /\ item.kind = "render_timer" /\ session.life = "active"
          /\ refreshAt(session, revision, contentFrame, rest)
          /\ UNCHANGED <<timers, left>> /\ UNCHANGED <<cached, covered, revision, asked>>
      BY <1>3 DEF RunRenderTimer, Runs, valid, refresh
    <2>2. /\ rest \in Seq(Item) /\ pipe \in Seq(Request) /\ Kept(session) /\ revision \in Revisions
          /\ Flying(session, pipe, rest)
      BY <2>1, CallbackStarts
    <2> HIDE DEF rest
    <2>3. Handled(session, rest)
      BY <2>1, <2>2, FramesTyped, Refreshes
    <2> QED BY <1>1, <2>1, <2>3, CallbackEnds
  <1>4. CASE RunSettleTimer
    <2>1. /\ loop # <<>> /\ item.kind = "scroll_settle_timer" /\ session.life = "active"
          /\ refreshAt(session, revision, settleFrame, rest)
          /\ UNCHANGED <<timers, left>> /\ UNCHANGED <<cached, covered, revision, asked>>
      BY <1>4 DEF RunSettleTimer, Runs, valid, refresh
    <2>2. /\ rest \in Seq(Item) /\ pipe \in Seq(Request) /\ Kept(session) /\ revision \in Revisions
          /\ Flying(session, pipe, rest)
      BY <2>1, CallbackStarts
    <2> HIDE DEF rest
    <2>3. Handled(session, rest)
      BY <2>1, <2>2, FramesTyped, Refreshes
    <2> QED BY <1>1, <2>1, <2>3, CallbackEnds
  <1>5. CASE RunScroll
    <2>1. /\ loop # <<>> /\ item.kind \in {"scroll", "cursor_scroll_timer"} /\ session.life = "active"
          /\ schedule_scroll(session, rest)
          /\ left' = left /\ UNCHANGED <<cached, covered, revision, asked>>
      BY <1>5 DEF RunScroll, Runs, valid
    <2>2. /\ rest \in Seq(Item) /\ pipe \in Seq(Request) /\ Kept(session) /\ revision \in Revisions
          /\ Flying(session, pipe, rest)
      BY <2>1, CallbackStarts
    <2>3. scrollRefresh(session, rest) /\ timers' \subseteq TimerNames
      BY <1>1, <2>1 DEF schedule_scroll, TimerNames
    <2> HIDE DEF rest
    <2>4. Handled(session, rest)
      BY <2>1, <2>2, <2>3, ScrollRefreshes
    <2> QED BY <2>1, <2>3, <2>4, CallbackEnds
  <1>6. CASE RunReconcile
    <2>1. /\ loop # <<>> /\ item.kind = "reconcile" /\ valid(session)
          /\ reconcile(session) /\ loop' = rest
          /\ UNCHANGED <<pipe, left>> /\ UNCHANGED <<cached, covered, revision, asked>>
      BY <1>6 DEF RunReconcile, Runs
    <2>2. Handled(session, rest) /\ timers' \subseteq TimerNames
      BY <2>1, Reconciles
    <2>3. session.life = "active"
      BY <2>1 DEF valid
    <2> QED BY <2>1, <2>2, <2>3, CallbackEnds
  <1>7. CASE RunPoll
    <2>1. /\ loop # <<>> /\ item.kind = "poll" /\ valid(session) /\ loop' = rest
          /\ reconcile(session) \/ UNCHANGED <<session, timers>>
          /\ UNCHANGED <<pipe, left>> /\ UNCHANGED <<cached, covered, revision, asked>>
      BY <1>7 DEF RunPoll, Runs
    <2>2. session.life = "active"
      BY <2>1 DEF valid
    <2>3. Handled(session, rest) /\ timers' \subseteq TimerNames
      <3>1. CASE reconcile(session)
        BY <2>1, <3>1, Reconciles
      <3>2. CASE UNCHANGED <<session, timers>>
        <4>1. /\ rest \in Seq(Item) /\ pipe \in Seq(Request) /\ Kept(session)
              /\ Flying(session, pipe, rest)
          BY <2>1, CallbackStarts
        <4>2. Kept(session') /\ session'.life = session.life
              /\ session'.scroll_render_in_flight = session.scroll_render_in_flight
          BY <3>2, <4>1
        <4> HIDE DEF rest
        <4> QED BY <1>1, <2>1, <3>2, <4>1, <4>2, SessionOnly
      <3> QED BY <2>1, <3>1, <3>2
    <2> QED BY <2>1, <2>2, <2>3, CallbackEnds
  <1> QED BY <1>2, <1>3, <1>4, <1>5, <1>6, <1>7

\* The replies: an accepted one is shown and named, a dropped one only ends its capture,
\* and a missed capture is asked for once more with the capture still in flight.
LEMMA RepliesKeep ==
  ASSUME SessionSound, draining' = (loop' # <<>>),
         \/ ReplyStale \/ ReplyMiss \/ ReplyError \/ ReplyOk \/ ReplyNotDisplayed
  PROVE SessionSound'
  <1> DEFINE r == item.request
  <1>1. /\ loop # <<>> /\ item.kind = "reply"
        /\ UNCHANGED timers /\ UNCHANGED <<cached, covered, revision, asked>>
        /\ left' = left \/ spend("fail")
    BY DEF ReplyStale, ReplyMiss, ReplyError, ReplyOk, ReplyNotDisplayed, Runs
  <1>2. /\ rest \in Seq(Item) /\ pipe \in Seq(Request) /\ revision \in Revisions
        /\ Kept(session) /\ session \in Session
        /\ r \in Request /\ r.options \in Options
        /\ Flying(session, pipe, rest) \/ r.options.scroll_frame = TRUE
    BY <1>1, CallbackStarts
  <1>3. timers \subseteq TimerNames /\ (session.life # "active" => timers = {})
    BY DEF SessionSound, Typed
  <1>4. PICK s \in Session : s.life = session.life /\ Handled(s, rest)
    <2>1. CASE ReplyStale
      <3>1. complete(session, r.options, rest)
        BY <2>1 DEF ReplyStale
      <3> HIDE DEF rest, r
      <3>2. Handled(session, rest)
        BY <1>2, <3>1, Completes
      <3> QED BY <1>2, <3>2
    <2>2. CASE ReplyMiss
      <3> DEFINE again == [r.options EXCEPT !.capture_only = FALSE]
      <3>1. request(session, revision, r.image.text, again, rest)
        BY <2>2 DEF ReplyMiss
      <3>2. again \in Options /\ again.scroll_frame = r.options.scroll_frame
        BY <1>2 DEF Options
      <3>3. r.image.text \in Revisions
        BY <1>2 DEF Request, Image
      <3> HIDE DEF rest, r, again
      <3>4. Handled(session, rest)
        BY <1>2, <3>1, <3>2, <3>3, RequestSends
      <3> QED BY <1>2, <3>4
    <2>3. CASE ReplyError
      <3> DEFINE s == [session EXCEPT !.render_failed = TRUE, !.loading = FALSE]
      <3>1. complete(s, r.options, rest)
        BY <2>3 DEF ReplyError
      <3>2. s \in Session
        BY <1>2 DEF Session
      <3>3. /\ s.life = session.life /\ s.image = session.image /\ s.last_image = session.last_image
            /\ s.frame = session.frame /\ s.loading = FALSE
            /\ s.scroll_render_in_flight = session.scroll_render_in_flight
            /\ s.scroll_render_pending = session.scroll_render_pending
        BY <1>2 DEF Session
      <3> HIDE DEF s, rest, r
      <3>4. Kept(s)
        BY <1>2, <3>2, <3>3, OtherFieldsKept
      <3>5. Flying(s, pipe, rest) \/ r.options.scroll_frame = TRUE
        BY <1>2, <3>3 DEF Flying
      <3>6. Handled(s, rest)
        BY <1>2, <3>1, <3>4, <3>5, Completes
      <3> QED BY <3>2, <3>3, <3>6
    <2>4. CASE ReplyOk
      <3> DEFINE a == accepted(session, r)
                 s == IF covered THEN clear_image(a) ELSE apply_image(a)
      <3>1. complete(s, r.options, rest) /\ session.life = "active"
        BY <2>4 DEF ReplyOk, is_stale, valid
      <3> HIDE DEF rest, r
      <3>2. Kept(s) /\ s.life = session.life
            /\ s.scroll_render_in_flight = session.scroll_render_in_flight
        <4>1. /\ Kept(a) /\ a.life = session.life
              /\ a.scroll_render_in_flight = session.scroll_render_in_flight
          BY <1>2, <3>1, AcceptedKept
        <4>2. CASE covered
          <5> HIDE DEF a
          <5>1. s = clear_image(a)
            BY <4>2
          <5> HIDE DEF s
          <5> QED BY <4>1, <5>1, ClearedKept
        <4>3. CASE ~covered
          <5>1. s = apply_image(accepted(session, r))
            BY <4>3
          <5> HIDE DEF s
          <5> QED BY <1>2, <3>1, <5>1, AppliedKept
        <4> QED BY <4>2, <4>3
      <3> HIDE DEF a, s
      <3>3. Flying(s, pipe, rest) \/ r.options.scroll_frame = TRUE
        BY <1>2, <3>2 DEF Flying
      <3>4. Handled(s, rest)
        BY <1>2, <3>1, <3>2, <3>3, Completes
      <3>5. s \in Session
        BY <3>2 DEF Kept
      <3> QED BY <3>2, <3>4, <3>5
    <2>5. CASE ReplyNotDisplayed
      <3> DEFINE a == accepted(session, r)
                 s == [a EXCEPT !.loading = FALSE, !.render_failed = TRUE]
      <3>1. complete(s, r.options, rest) /\ session.life = "active"
        BY <2>5 DEF ReplyNotDisplayed, is_stale, valid
      <3> HIDE DEF rest, r
      <3>2. /\ Kept(a) /\ a \in Session /\ a.life = session.life
            /\ a.scroll_render_in_flight = session.scroll_render_in_flight
        BY <1>2, <3>1, AcceptedKept
      <3> HIDE DEF a
      <3>3. s \in Session
        BY <3>2 DEF Session
      <3>4. /\ s.life = a.life /\ s.image = a.image /\ s.last_image = a.last_image
            /\ s.frame = a.frame /\ s.loading = FALSE
            /\ s.scroll_render_in_flight = a.scroll_render_in_flight
            /\ s.scroll_render_pending = a.scroll_render_pending
        BY <3>2 DEF Session
      <3> HIDE DEF s
      <3>5. Kept(s)
        BY <3>2, <3>3, <3>4, OtherFieldsKept
      <3>6. Flying(s, pipe, rest) \/ r.options.scroll_frame = TRUE
        BY <1>2, <3>2, <3>4 DEF Flying
      <3>7. Handled(s, rest)
        BY <1>2, <3>1, <3>5, <3>6, Completes
      <3> QED BY <3>2, <3>3, <3>4, <3>7
    <2> QED BY <2>1, <2>2, <2>3, <2>4, <2>5
  <1>5. timers' \subseteq TimerNames /\ (s.life = "active" \/ timers' = {})
    BY <1>1, <1>3, <1>4
  <1> HIDE DEF rest
  <1> QED BY <1>1, <1>4, <1>5, CallbackEnds

\* Events that leave the queue and the pipe alone and keep the session as it is.
LEMMA EditKeeps ==
  ASSUME SessionSound, Edit
  PROVE SessionSound'
  <1>1. /\ spend("edit") /\ revision' = revision + 1
        /\ UNCHANGED <<session, loop, draining, pipe, cached, covered, asked>>
        /\ timers' = IF valid(session) THEN timers \cup {"render_timer"} ELSE timers
    BY DEF Edit
  <1>2. left' \in [Events -> Nat] /\ RevisionBounded'
    BY <1>1, EventSpent DEF SessionSound, Typed, Events
  <1>3. timers' \subseteq TimerNames /\ (session'.life # "active" => timers' = {})
    BY <1>1 DEF SessionSound, Typed, TimerNames, valid
  <1>4. Typed'
    BY <1>1, <1>2, <1>3 DEF SessionSound, Typed
  <1>5. Awaited'
    BY <1>1 DEF SessionSound, Awaited
  <1>6. Kept(session)'
    BY <1>1 DEF SessionSound, Kept, FramePictured, AwayEmpty, FlagsPaired
  <1> QED BY <1>2, <1>4, <1>5, <1>6 DEF SessionSound

\* A refresh by hand is of the revision it makes.
LEMMA RefreshByHandKeeps ==
  ASSUME SessionSound, RefreshByHand
  PROVE SessionSound'
  <1>1. /\ room /\ spend("edit") /\ session.life = "active" /\ revision' = revision + 1
        /\ refreshAt(session, revision + 1, contentFrame, loop)
        /\ UNCHANGED <<timers, draining, cached, covered, asked>>
    BY DEF RefreshByHand, valid
  <1>2. left' \in [Events -> Nat] /\ RevisionBounded'
    BY <1>1, EventSpent DEF SessionSound, Typed, Events
  <1>3. revision + 1 \in Revisions
    <2>1. PICK n \in Nat : n = revision'
      BY <1>2 DEF RevisionBounded
    <2>2. PICK unspent \in [Events -> Nat] : unspent = left'
      BY <1>2
    <2>3. n \in Nat \ {0} /\ \E budget \in Budgets : n + unspent["edit"] <= 1 + budget["edit"]
      BY <1>2, <2>1, <2>2 DEF RevisionBounded
    <2>4. n \in Revisions
      BY <2>3, RevisionWithin
    <2> QED BY <1>1, <2>1, <2>4
  <1>4. pipe \in Seq(Request) /\ loop \in Seq(Item) /\ Kept(session) /\ Flying(session, pipe, loop)
    BY DEF SessionSound, Typed, Awaited, Flying
  <1>5. Handled(session, loop)
    BY <1>1, <1>3, <1>4, FramesTyped, Refreshes
  <1>6. Len(pipe) + Len(loop) < MaxPipe
    BY <1>1 DEF room
  <1>7. /\ timers' \subseteq TimerNames /\ draining' \in BOOLEAN /\ covered' \in BOOLEAN
        /\ asked' \in Positions
        /\ cached' \in [revision : Revisions, text : Revisions] \cup {NoMarkup}
    BY <1>1 DEF SessionSound, Typed
  <1> QED BY <1>1, <1>2, <1>4, <1>5, <1>6, <1>7, HandlerEnds

\* A scroll by key or wheel is coalesced or asks for a moving frame.
LEMMA ScrollKeeps ==
  ASSUME SessionSound, NEW p \in Positions, Scroll(p)
  PROVE SessionSound'
  <1> DEFINE s == [session EXCEPT !.scroll_y = p]
  <1>1. /\ room /\ spend("scroll") /\ session.life = "active" /\ asked' = p
        /\ schedule_scroll(s, loop)
        /\ UNCHANGED <<draining, cached, covered, revision>>
    BY DEF Scroll, canScroll, valid
  <1>2. left' \in [Events -> Nat] /\ RevisionBounded'
    BY <1>1, EventSpent DEF SessionSound, Typed, Events
  <1>3. pipe \in Seq(Request) /\ loop \in Seq(Item) /\ Kept(session) /\ Flying(session, pipe, loop)
    BY DEF SessionSound, Typed, Awaited, Flying
  <1>4. session \in Session
    BY <1>3 DEF Kept
  <1>5. s \in Session
    BY <1>4 DEF Session
  <1>6. /\ s.life = session.life /\ s.image = session.image /\ s.last_image = session.last_image
        /\ s.frame = session.frame /\ s.loading = session.loading
        /\ s.scroll_render_in_flight = session.scroll_render_in_flight
        /\ s.scroll_render_pending = session.scroll_render_pending
    BY <1>4 DEF Session
  <1> HIDE DEF s
  <1>7. Kept(s) /\ Flying(s, pipe, loop)
    BY <1>3, <1>5, <1>6, OtherFieldsKept DEF Flying
  <1>8. revision \in Revisions
    BY RevisionNamed DEF SessionSound, Typed
  <1>9. scrollRefresh(s, loop) /\ timers' \subseteq TimerNames
    BY <1>1 DEF SessionSound, Typed, schedule_scroll, TimerNames
  <1>10. Handled(s, loop)
    BY <1>1, <1>3, <1>6, <1>7, <1>8, <1>9, ScrollRefreshes
  <1>11. Len(pipe) + Len(loop) < MaxPipe
    BY <1>1 DEF room
  <1>12. /\ draining' \in BOOLEAN /\ covered' \in BOOLEAN /\ asked' \in Positions
         /\ cached' \in [revision : Revisions, text : Revisions] \cup {NoMarkup}
    BY <1>1 DEF SessionSound, Typed
  <1> QED BY <1>1, <1>2, <1>3, <1>6, <1>9, <1>10, <1>11, <1>12, HandlerEnds

\* The preview that follows the cursor starts its timer.
LEMMA FollowKeeps ==
  ASSUME SessionSound, NEW p \in Positions, Follow(p)
  PROVE SessionSound'
  <1> DEFINE s == [session EXCEPT !.scroll_y = p]
  <1>1. /\ spend("scroll") /\ session.life = "active" /\ asked' = p /\ session' = s
        /\ timers' = timers \cup {"cursor_scroll_timer"}
        /\ UNCHANGED <<loop, draining, pipe, cached, covered, revision>>
    BY DEF Follow, canScroll, valid
  <1>2. left' \in [Events -> Nat] /\ RevisionBounded'
    BY <1>1, EventSpent DEF SessionSound, Typed, Events
  <1>3. Kept(session) /\ session \in Session
    BY DEF SessionSound, Kept
  <1>4. s \in Session
    BY <1>3 DEF Session
  <1>5. /\ s.life = session.life /\ s.image = session.image /\ s.last_image = session.last_image
        /\ s.frame = session.frame /\ s.loading = session.loading
        /\ s.scroll_render_in_flight = session.scroll_render_in_flight
        /\ s.scroll_render_pending = session.scroll_render_pending
    BY <1>3 DEF Session
  <1> HIDE DEF s
  <1>6. Kept(s)
    BY <1>3, <1>4, <1>5, OtherFieldsKept
  <1>7. Kept(session)'
    BY <1>1, <1>6
  <1>8. Awaited'
    BY <1>1, <1>5 DEF SessionSound, Awaited
  <1>9. Typed'
    BY <1>1, <1>2, <1>5 DEF SessionSound, Typed, TimerNames
  <1> QED BY <1>2, <1>7, <1>8, <1>9 DEF SessionSound

\* A float comes or goes, noticed or not.
LEMMA FloatKeeps ==
  ASSUME SessionSound, Float
  PROVE SessionSound'
  <1> DEFINE reconciling == [kind |-> "reconcile"]
  <1>1. /\ room /\ spend("float") /\ covered' = ~covered
        /\ loop' = Append(loop, reconciling) \/ loop' = loop
        /\ UNCHANGED <<session, timers, draining, pipe, cached, revision, asked>>
    BY DEF Float
  <1>2. left' \in [Events -> Nat] /\ RevisionBounded'
    BY <1>1, EventSpent DEF SessionSound, Typed, Events
  <1>3. covered' \in BOOLEAN
    BY <1>1
  <1>4. reconciling \in Item
    BY DEF Item, Callback
  <1> HIDE DEF reconciling
  <1>5. CASE loop' = Append(loop, reconciling)
    BY <1>1, <1>2, <1>3, <1>4, <1>5, PostingKeeps
  <1>6. CASE loop' = loop
    <2>1. Typed'
      BY <1>1, <1>2, <1>3, <1>6 DEF SessionSound, Typed
    <2>2. Awaited'
      BY <1>1, <1>6 DEF SessionSound, Awaited
    <2>3. Kept(session)'
      BY <1>1 DEF SessionSound, Kept, FramePictured, AwayEmpty, FlagsPaired
    <2> QED BY <1>2, <2>1, <2>2, <2>3 DEF SessionSound
  <1> QED BY <1>1, <1>5, <1>6

\* A document that is put away, or closed, takes its image and its timers with it.
LEMMA LeavingKeeps ==
  ASSUME SessionSound, Deactivate \/ Close
  PROVE SessionSound'
  <1>1. PICK s : /\ s \in {put_away(session), released(session)}
                 /\ spend("switch") /\ leave(s)
    BY DEF Deactivate, Close
  <1>2. /\ session' = s /\ timers' = {}
        /\ pipe' = allSuperseded(pipe) /\ loop' = repliesSuperseded(loop)
        /\ UNCHANGED <<draining, cached, covered, revision, asked>>
    BY <1>1 DEF leave
  <1>3. left' \in [Events -> Nat] /\ RevisionBounded'
    BY <1>1, <1>2, EventSpent DEF SessionSound, Typed, Events
  <1> DEFINE c == clear_image(session)
  <1>4. Kept(c) /\ c \in Session /\ c.image = NoImage /\ c.frame = NoFrame
    BY ClearedKept DEF SessionSound, Kept
  <1>5. \/ s = [c EXCEPT !.life = "inactive", !.loading = FALSE, !.last_image = NoImage,
                         !.scroll_render_in_flight = FALSE, !.scroll_render_pending = FALSE]
        \/ s = [c EXCEPT !.life = "closed", !.loading = FALSE, !.last_image = NoImage]
    BY <1>1 DEF put_away, released
  <1> HIDE DEF c
  <1>6. s \in Session
    <2>1. CASE s = [c EXCEPT !.life = "inactive", !.loading = FALSE, !.last_image = NoImage,
                             !.scroll_render_in_flight = FALSE, !.scroll_render_pending = FALSE]
      BY <1>4, <2>1 DEF Session
    <2>2. CASE s = [c EXCEPT !.life = "closed", !.loading = FALSE, !.last_image = NoImage]
      BY <1>4, <2>2 DEF Session
    <2> QED BY <1>5, <2>1, <2>2
  <1>7. /\ s.life \in {"inactive", "closed"} /\ s.image = NoImage /\ s.last_image = NoImage
        /\ s.loading = FALSE /\ s.frame = NoFrame
        /\ s.life = "inactive" => /\ s.scroll_render_in_flight = FALSE
                                  /\ s.scroll_render_pending = FALSE
    <2>1. CASE s = [c EXCEPT !.life = "inactive", !.loading = FALSE, !.last_image = NoImage,
                             !.scroll_render_in_flight = FALSE, !.scroll_render_pending = FALSE]
      BY <1>4, <2>1 DEF Session
    <2>2. CASE s = [c EXCEPT !.life = "closed", !.loading = FALSE, !.last_image = NoImage]
      BY <1>4, <2>2 DEF Session
    <2> QED BY <1>5, <2>1, <2>2
  <1>8. Kept(s)
    <2>1. FramePictured(s)
      BY <1>7 DEF FramePictured, NoFrame
    <2>2. AwayEmpty(s)
      BY <1>7 DEF AwayEmpty
    <2>3. FlagsPaired(s)
      BY <1>7 DEF FlagsPaired
    <2> QED BY <1>6, <2>1, <2>2, <2>3 DEF Kept
  <1>9. Kept(session)'
    BY <1>2, <1>8
  <1>10. Awaited'
    BY <1>2, <1>7 DEF Awaited
  <1>11. pipe' \in Seq(Request) /\ Len(pipe') = Len(pipe)
    BY <1>2, SupersededKept DEF SessionSound, Typed
  <1>12. loop' \in Seq(Item) /\ Len(loop') = Len(loop)
    BY <1>2, RepliesSupersededKept DEF SessionSound, Typed
  <1>13. Typed'
    BY <1>2, <1>3, <1>11, <1>12 DEF SessionSound, Typed
  <1> QED BY <1>3, <1>9, <1>10, <1>13 DEF SessionSound

\* A document that is shown again asks for its frame, with no capture in flight.
LEMMA ActivateKeeps ==
  ASSUME SessionSound, Activate
  PROVE SessionSound'
  <1> DEFINE s == [session EXCEPT !.life = "active", !.loading = Spinner]
  <1>1. /\ room /\ session.life = "inactive" /\ refreshAt(s, revision, contentFrame, loop)
        /\ UNCHANGED <<timers, draining, cached, covered, revision, asked, left>>
    BY DEF Activate, refresh
  <1>2. pipe \in Seq(Request) /\ loop \in Seq(Item) /\ Kept(session) /\ session \in Session
    BY DEF SessionSound, Typed, Kept
  <1>3. Spinner \in BOOLEAN
    BY SessionAssumption DEF SessionAssumption
  <1>4. s \in Session
    BY <1>2, <1>3 DEF Session
  <1>5. /\ s.life = "active" /\ s.image = session.image /\ s.frame = session.frame
        /\ s.scroll_render_in_flight = session.scroll_render_in_flight
        /\ s.scroll_render_pending = session.scroll_render_pending
    BY <1>2 DEF Session
  <1> HIDE DEF s
  <1>6. s.scroll_render_in_flight = FALSE
    BY <1>1, <1>2, <1>5 DEF Kept, FlagsPaired
  <1>7. FramePictured(s)
    BY <1>2, <1>5 DEF Kept, FramePictured
  <1>8. FlagsPaired(s)
    BY <1>1, <1>2, <1>5 DEF Kept, FlagsPaired
  <1>9. AwayEmpty(s)
    BY <1>5 DEF AwayEmpty
  <1>10. Kept(s) /\ Flying(s, pipe, loop)
    BY <1>4, <1>6, <1>7, <1>8, <1>9 DEF Kept, Flying
  <1>11. revision \in Revisions
    BY RevisionNamed DEF SessionSound, Typed
  <1>12. Handled(s, loop)
    BY <1>1, <1>2, <1>10, <1>11, FramesTyped, Refreshes
  <1>13. Len(pipe) + Len(loop) < MaxPipe
    BY <1>1 DEF room
  <1>14. left' \in [Events -> Nat] /\ RevisionBounded'
    BY <1>1, NothingSpent DEF SessionSound, Typed
  <1>15. /\ timers' \subseteq TimerNames /\ draining' \in BOOLEAN /\ covered' \in BOOLEAN
         /\ asked' \in Positions
         /\ cached' \in [revision : Revisions, text : Revisions] \cup {NoMarkup}
    BY <1>1 DEF SessionSound, Typed
  <1> QED BY <1>2, <1>5, <1>12, <1>13, <1>14, <1>15, HandlerEnds
-----------------------------------------------------------------------------
(***************************************************************************)
(* The theorems.                                                           *)
(***************************************************************************)

\* A document nobody has shown yet is sound.
LEMMA InitSound == Init => SessionSound
  <1> SUFFICES ASSUME Init PROVE SessionSound
    OBVIOUS
  <1>1. NoFrame \in [revision : Nat, scroll : Positions, up : BOOLEAN]
    BY SessionAssumption DEF NoFrame, SessionAssumption
  <1>2. 0 \in Positions
    BY SessionAssumption DEF SessionAssumption
  <1>3. session \in Session
    BY <1>1, <1>2 DEF Init, Session
  <1>4. /\ session.life = "inactive" /\ session.image = NoImage /\ session.last_image = NoImage
        /\ session.loading = FALSE /\ session.frame = NoFrame
        /\ session.scroll_render_in_flight = FALSE /\ session.scroll_render_pending = FALSE
    BY DEF Init
  <1>5. Kept(session)
    BY <1>3, <1>4 DEF Kept, FramePictured, AwayEmpty, FlagsPaired, NoFrame
  <1>6. left \in Budgets /\ left \in [Events -> Nat]
    BY SessionAssumption DEF Init, SessionAssumption
  <1>7. left["edit"] \in Nat
    BY <1>6 DEF Events
  <1>8. RevisionBounded
    BY <1>6, <1>7 DEF Init, RevisionBounded
  <1>9. pipe = <<>> /\ loop = <<>> /\ MaxPipe \in Nat
    BY SessionAssumption DEF Init, SessionAssumption
  <1>10. pipe \in Seq(Request) /\ loop \in Seq(Item) /\ Len(pipe) + Len(loop) <= MaxPipe
    BY <1>9
  <1>11. covered \in BOOLEAN
    BY DEF Init
  <1>12. Typed
    BY <1>2, <1>6, <1>10, <1>11 DEF Init, Typed
  <1>13. Awaited
    BY <1>4 DEF Awaited
  <1> QED BY <1>5, <1>8, <1>12, <1>13 DEF SessionSound

\* Every step of the document, its renderer or its user keeps it sound.
LEMMA NextSound == SessionSound /\ [Next]_vars => SessionSound'
  <1> SUFFICES ASSUME SessionSound, [Next]_vars PROVE SessionSound'
    OBVIOUS
  <1>1. CASE Answer
    BY <1>1, AnswerKeeps
  <1>2. CASE RunLoop
    BY <1>2, TimerCallbacksKeep, RepliesKeep DEF RunLoop
  <1>3. CASE PollTick \/ (\E name \in TimerNames : TimerFires(name)) \/ Evict
    BY <1>3, TimersKeep
  <1>4. CASE AnswerError \/ Crash
    BY <1>4, AnswerErrorKeeps, CrashKeeps
  <1>5. CASE Edit \/ RefreshByHand \/ Float
    BY <1>5, EditKeeps, RefreshByHandKeeps, FloatKeeps
  <1>6. CASE Deactivate \/ Close \/ Activate
    BY <1>6, LeavingKeeps, ActivateKeeps
  <1>7. ASSUME NEW p \in Positions, Scroll(p) \/ Follow(p) PROVE SessionSound'
    BY <1>7, ScrollKeeps, FollowKeeps
  <1>8. CASE UNCHANGED vars
    <2>1. UNCHANGED <<session, timers, loop, draining, pipe, cached, covered, revision, asked, left>>
      BY <1>8 DEF vars, state
    <2> QED BY <2>1 DEF SessionSound, Kept, FramePictured, AwayEmpty, FlagsPaired, Typed,
                        Awaited, RevisionBounded
  <1> QED BY <1>1, <1>2, <1>3, <1>4, <1>5, <1>6, <1>7, <1>8 DEF Next, Step, Environment

\* SessionSound is an invariant of the preview session.
LEMMA SpecSessionSound == Spec => []SessionSound
  BY InitSound, NextSound, PTL DEF Spec

\* What is remembered of the ways picture and user part is of its type too.
Remembered == mislabelled \subseteq Revisions /\ takenBack \in BOOLEAN

\* It is: a request under way names a revision.
LEMMA SpecRemembered == Spec => []Remembered
  <1>1. Init => Remembered
    BY DEF Init, Remembered
  <1>2. SessionSound' /\ Remembered /\ [Next]_vars => Remembered'
    <2> SUFFICES ASSUME SessionSound', Remembered, [Next]_vars PROVE Remembered'
      OBVIOUS
    <2>1. CASE Next
      <3>1. \A i \in DOMAIN pipe' : pipe'[i].image.revision \in Revisions
        <4>1. pipe' \in Seq(Request)
          BY DEF SessionSound, Typed
        <4>2. \A r \in Request : r.image \in Image
          BY DEF Request
        <4>3. \A m \in Image : m.revision \in Revisions
          BY DEF Image
        <4>4. \A i \in DOMAIN pipe' : pipe'[i] \in Request
          BY <4>1
        <4> QED BY <4>2, <4>3, <4>4
      <3>2. takenBack' \in BOOLEAN
        BY <2>1 DEF Next
      <3> QED BY <2>1, <3>1, <3>2 DEF Next, Remembered
    <2>2. CASE UNCHANGED vars
      BY <2>2 DEF vars, Remembered
    <2> QED BY <2>1, <2>2
  <1> QED BY <1>1, <1>2, SpecSessionSound, PTL DEF Spec

\* The variables have their types; in particular the requests and callbacks of a
\* document under way stay within the bound, and its revision within the scenario.
THEOREM TypeCorrect == Spec => []TypeOK
  <1>1. SessionSound /\ Remembered => TypeOK
    <2> SUFFICES ASSUME SessionSound, Remembered PROVE TypeOK
      OBVIOUS
    <2>1. session \in Session
      BY DEF SessionSound, Kept
    <2>2. \A i \in DOMAIN loop : loop[i].kind \in {"reply", "scroll", "reconcile", "poll"} \cup TimerNames
      <3> SUFFICES ASSUME NEW i \in DOMAIN loop
                   PROVE loop[i].kind \in {"reply", "scroll", "reconcile", "poll"} \cup TimerNames
        OBVIOUS
      <3>1. loop[i] \in Item
        BY DEF SessionSound, Typed
      <3> QED BY <3>1 DEF Item, Callback, Reply
    <2>3. revision \in Revisions
      BY RevisionNamed DEF SessionSound, Typed
    <2> QED BY <2>1, <2>2, <2>3 DEF TypeOK, SessionSound, Remembered, Typed, Session
  <1> QED BY <1>1, SpecSessionSound, SpecRemembered, PTL

\* Moving frames under way are outstanding requests.
LEMMA AwaitedIsOutstanding ==
  ASSUME scrollIn(pipe) \/ scrollReply(loop)
  PROVE scrollFrames # {}
  <1>1. CASE scrollIn(pipe)
    <2>1. PICK i \in DOMAIN pipe : pipe[i].options.scroll_frame = TRUE
      BY <1>1 DEF scrollIn
    <2>2. <<"pipe", i>> \in outstandingRequests
      BY DEF outstandingRequests
    <2>3. requestAt(<<"pipe", i>>) = pipe[i]
      BY DEF requestAt
    <2> QED BY <2>1, <2>2, <2>3 DEF scrollFrames
  <1>2. CASE scrollReply(loop)
    <2>1. PICK i \in DOMAIN loop :
            loop[i].kind = "reply" /\ loop[i].request.options.scroll_frame = TRUE
      BY <1>2 DEF scrollReply
    <2>2. <<"loop", i>> \in outstandingRequests
      BY <2>1 DEF outstandingRequests
    <2>3. requestAt(<<"loop", i>>) = loop[i].request
      BY DEF requestAt
    <2> QED BY <2>1, <2>2, <2>3 DEF scrollFrames
  <1> QED BY <1>1, <1>2

\* A scroll is never left waiting for a capture nobody is making, however requests are
\* superseded, dropped, missed or failed, floats come and go, and documents are
\* switched: one flag guards one capture, and every way its reply can come takes the
\* flag down (controller.lua, schedule_scroll and on_complete).
THEOREM ScrollNeverStuckHolds == Spec => []ScrollNeverStuck
  <1>1. SessionSound => ScrollNeverStuck
    <2> SUFFICES ASSUME SessionSound, session.life # "closed" PROVE
            /\ session.scroll_render_in_flight => scrollFrames # {}
            /\ session.scroll_render_pending => session.scroll_render_in_flight
      BY DEF ScrollNeverStuck
    <2>1. session \in Session /\ FlagsPaired(session)
      BY DEF SessionSound, Kept
    <2>2. /\ session.scroll_render_in_flight \in BOOLEAN /\ session.scroll_render_pending \in BOOLEAN
          /\ session.life \in {"active", "inactive", "closed"}
      BY <2>1 DEF Session
    <2>3. session.scroll_render_pending => session.scroll_render_in_flight
      BY <2>1, <2>2 DEF FlagsPaired
    <2>4. ASSUME session.scroll_render_in_flight = TRUE PROVE scrollFrames # {}
      <3>1. session.life = "active"
        BY <2>1, <2>2, <2>4 DEF FlagsPaired
      <3>2. scrollIn(pipe) \/ scrollReply(loop)
        BY <2>4, <3>1 DEF SessionSound, Awaited
      <3> QED BY <3>2, AwaitedIsOutstanding
    <2> QED BY <2>2, <2>3, <2>4
  <1> QED BY <1>1, SpecSessionSound, PTL

\* The frame the selection, the caret and clicks are resolved against is the picture on
\* the screen: its revision and position are those of the image that is up, and while
\* a cached image stands in, nothing is vouched for (controller.lua, apply_image and
\* show_cached).
THEOREM FrameIsPictureHolds == Spec => []FrameIsPicture
  <1>1. SessionSound => FrameIsPicture
    <2> SUFFICES ASSUME SessionSound, session.frame.up PROVE
            /\ session.frame.revision = session.image.revision
            /\ session.frame.scroll = session.image.scroll
      BY DEF FrameIsPicture
    <2>1. session \in Session /\ FramePictured(session)
      BY DEF SessionSound, Kept
    <2>2. session.frame.up \in BOOLEAN
      BY <2>1 DEF Session
    <2>3. session.frame.up = TRUE
      BY <2>2
    <2> QED BY <2>1, <2>3 DEF FramePictured
  <1> QED BY <1>1, SpecSessionSound, PTL

\* A document that is not shown, or is closed, owns nothing on the screen and no timer:
\* no reply, timer or poll on its way when it left brings its picture back
\* (controller.lua, deactivate_document and release_document).
THEOREM AwayShowsNothingHolds == Spec => []AwayShowsNothing
  <1>1. SessionSound => AwayShowsNothing
    <2> SUFFICES ASSUME SessionSound, session.life # "active" PROVE
            /\ session.image = NoImage /\ session.last_image = NoImage
            /\ session.loading = FALSE
            /\ timers = {}
      BY DEF AwayShowsNothing, valid
    <2> QED BY DEF SessionSound, Kept, AwayEmpty, Typed
  <1> QED BY <1>1, SpecSessionSound, PTL
=============================================================================
