--------------------------- MODULE BrowserLifecycle ---------------------------
(***************************************************************************)
(* renderer/src/browser.js, ensure() and its callers: how the one Chromium *)
(* process, its one context and its one page come to exist and are         *)
(* replaced when the device scale factor changes.                          *)
(*                                                                         *)
(* ensure() is called by the task the queue is running, and by `health`,   *)
(* which service.js answers outside the queue.  The two therefore          *)
(* interleave at every await, over the same fields of the renderer, while  *)
(* there is no context yet for the probe to find.  Two calls that cross so *)
(* may launch two browsers, leave a context that nothing names, or end     *)
(* with fields that do not belong together: crossed and mixed remember it. *)
(* A context and its page are named by the order they were made in.        *)
(***************************************************************************)
EXTENDS Naturals, FiniteSets

CONSTANTS
  Probes,   \* health requests
  Scales,   \* device scale factors a render may ask for
  MaxMade   \* bound: Chromium processes, and contexts, ever made

ASSUME LifecycleAssumption ==
  /\ "render" \notin Probes
  /\ Scales \subseteq 1 .. 3
  /\ MaxMade \in Nat

Callers == Probes \cup {"render"}

VARIABLES
  browser,   \* this.browser: a Chromium process, or 0
  spawned,   \* how many Chromium processes were launched
  running,   \* those of them that are alive
  context,   \* this.context, or 0
  scaleOf,   \* the contexts ever made -> their device scale factor
  open,      \* the contexts that are not closed
  deviceScaleFactor,  \* this.deviceScaleFactor, or 0
  page,      \* this.page, named by its context, or 0
  active,    \* whether this.active and this.layout are set
  loaded,    \* the pages that hold a document
  pc,        \* what each caller awaits
  wanted,    \* the scale each caller's ensure() was given
  target,    \* the context, or the page, each caller's pending call was made on
  frame,     \* the frame this step takes: its page, and the scale asked for
  crossed,   \* whether two calls were ever inside ensure() at once (history)
  mixed      \* ... and the fields have not belonged together since (history)

browserFields == <<browser, spawned, running, context, scaleOf, open, deviceScaleFactor, page, active>>
vars == <<browserFields, loaded, pc, wanted, target, frame, crossed, mixed>>

NoFrame == [page |-> 0]

Awaiting == {"idle", "launch", "closeContext", "newContext", "policy", "newPage",
             "cdpSession", "load", "measure", "capture"}

TypeOK ==
  /\ spawned \in 0 .. MaxMade
  /\ running \subseteq 1 .. spawned
  /\ browser \in 0 .. spawned
  /\ DOMAIN scaleOf \subseteq 1 .. MaxMade
  /\ \A x \in DOMAIN scaleOf : scaleOf[x] \in 1 .. 3
  /\ open \subseteq DOMAIN scaleOf
  /\ context \in DOMAIN scaleOf \cup {0}
  /\ page \in DOMAIN scaleOf \cup {0}
  /\ loaded \subseteq DOMAIN scaleOf
  /\ deviceScaleFactor \in 0 .. 3
  /\ {active, crossed, mixed} \subseteq BOOLEAN
  /\ pc \in [Callers -> Awaiting]

Init ==
  /\ browser = 0 /\ spawned = 0 /\ running = {}
  /\ context = 0 /\ scaleOf = <<>> /\ open = {}
  /\ deviceScaleFactor = 0
  /\ page = 0 /\ loaded = {} /\ active = FALSE
  /\ pc = [c \in Callers |-> "idle"]
  /\ wanted = [c \in Callers |-> 0]
  /\ target = [c \in Callers |-> 0]
  /\ frame = NoFrame
  /\ crossed = FALSE /\ mixed = FALSE
-----------------------------------------------------------------------------
goes(c, where) == pc' = [pc EXCEPT ![c] = where]
aims(c, what)  == target' = [target EXCEPT ![c] = what]

\* ensure() returns: a health request is answered, a render goes on to load its
\* document unless the layout that is there is the one it needs.
returns(c) ==
  IF c \in Probes THEN goes(c, "idle") /\ UNCHANGED target
  ELSE /\ \/ goes(c, "load") /\ active' = FALSE
          \/ active /\ goes(c, "capture") /\ UNCHANGED active
       /\ aims(c, page)

\* From the check of the device scale factor to the next await.
checksContext(c, s) ==
  IF context # 0 /\ deviceScaleFactor = s
  THEN returns(c) /\ UNCHANGED open /\ (c \in Probes => UNCHANGED active)
  ELSE /\ goes(c, "closeContext")
       /\ open' = open \ {context}
       /\ UNCHANGED <<target, active>>

ensure(c, s) ==
  /\ pc[c] = "idle"
  /\ wanted' = [wanted EXCEPT ![c] = s]
  /\ IF browser = 0
     THEN goes(c, "launch") /\ UNCHANGED <<open, target, active>>
     ELSE checksContext(c, s)
  /\ frame' = NoFrame
  /\ UNCHANGED <<browser, spawned, running, context, scaleOf, deviceScaleFactor, page, loaded>>

Render == \E s \in Scales : ensure("render", s)

\* health() reuses the scale of a live session.
probeScale == IF deviceScaleFactor # 0 THEN deviceScaleFactor ELSE 1

Health(c) == ensure(c, probeScale)

Launched(c) ==
  /\ pc[c] = "launch"
  /\ spawned < MaxMade
  /\ spawned' = spawned + 1
  /\ browser' = spawned + 1
  /\ running' = running \cup {spawned + 1}
  /\ checksContext(c, wanted[c])
  /\ frame' = NoFrame
  /\ UNCHANGED <<context, scaleOf, deviceScaleFactor, page, loaded, wanted>>

ContextClosed(c) ==
  /\ pc[c] = "closeContext"
  /\ deviceScaleFactor' = wanted[c]
  /\ goes(c, "newContext")
  /\ frame' = NoFrame
  /\ UNCHANGED <<browser, spawned, running, context, scaleOf, open, page, active, loaded, wanted, target>>

ContextMade(c) ==
  LET made == Cardinality(DOMAIN scaleOf) + 1
  IN  /\ pc[c] = "newContext"
      /\ made <= MaxMade
      /\ browser \in running
      /\ context' = made
      /\ scaleOf' = [x \in 1 .. made |-> IF x = made THEN wanted[c] ELSE scaleOf[x]]
      /\ open' = open \cup {made}
      /\ goes(c, "policy")
      /\ frame' = NoFrame
      /\ UNCHANGED <<browser, spawned, running, deviceScaleFactor, page, active, loaded, wanted, target>>

PolicyInstalled(c) ==
  /\ pc[c] = "policy"
  /\ goes(c, "newPage")
  /\ aims(c, context)
  /\ frame' = NoFrame
  /\ UNCHANGED <<browserFields, loaded, wanted>>

PageMade(c) ==
  /\ pc[c] = "newPage"
  /\ target[c] \in open
  /\ page' = target[c]
  /\ goes(c, "cdpSession")
  /\ frame' = NoFrame
  /\ UNCHANGED <<browser, spawned, running, context, scaleOf, open, deviceScaleFactor, active, loaded,
                 wanted, target>>

\* A mutation of CdpSessionMade: the new page inherits the old page's layout.
CdpSessionMadeKeepingActive(c) ==
  /\ pc[c] = "cdpSession"
  /\ returns(c)
  /\ frame' = NoFrame
  /\ (c \in Probes => UNCHANGED active)
  /\ UNCHANGED <<browser, spawned, running, context, scaleOf, open, deviceScaleFactor, page, loaded, wanted>>

\* The session is optional (its rejection is caught); the new page holds no document.
CdpSessionMade(c) ==
  /\ pc[c] = "cdpSession"
  /\ IF c \in Probes
     THEN goes(c, "idle") /\ active' = FALSE /\ UNCHANGED target
     ELSE goes(c, "load") /\ active' = FALSE /\ aims(c, page)
  /\ frame' = NoFrame
  /\ UNCHANGED <<browser, spawned, running, context, scaleOf, open, deviceScaleFactor, page, loaded, wanted>>

\* loadDocument: setContent works on the page it was called on ...
DocumentSet ==
  /\ pc["render"] = "load"
  /\ target["render"] \in open
  /\ loaded' = loaded \cup {target["render"]}
  /\ goes("render", "measure")
  /\ frame' = NoFrame
  /\ UNCHANGED <<browserFields, wanted, target>>

\* ... and the measurements after it, like the capture, on this.page as it is then.
DocumentMeasured ==
  /\ pc["render"] = "measure"
  /\ page \in open
  /\ active' = TRUE
  /\ goes("render", "capture")
  /\ aims("render", page)
  /\ frame' = NoFrame
  /\ UNCHANGED <<browser, spawned, running, context, scaleOf, open, deviceScaleFactor, page, loaded, wanted>>

\* The reply is built from this.layout, which must still be there.
Captured ==
  /\ pc["render"] = "capture"
  /\ target["render"] \in open
  /\ active
  /\ frame' = [page |-> target["render"], asked |-> wanted["render"]]
  /\ goes("render", "idle")
  /\ UNCHANGED <<browserFields, loaded, wanted, target>>

\* The Chromium process dies, and its contexts with it.  Nothing listens for it: the
\* fields keep naming what is gone.
ChromiumDies ==
  /\ running # {}
  /\ running' = {}
  /\ open' = {}
  /\ frame' = NoFrame
  /\ UNCHANGED <<browser, spawned, context, scaleOf, deviceScaleFactor, page, active, loaded,
                 pc, wanted, target>>

\* Any await may reject: the launch, a call on a page or context that is closed.
\* The fields are left as they are.
Rejects(c) ==
  /\ pc[c] \notin {"idle", "closeContext", "cdpSession"}
  /\ goes(c, "idle")
  /\ frame' = NoFrame
  /\ UNCHANGED <<browserFields, loaded, wanted, target>>

Step ==
  \/ Render
  \/ \E c \in Probes : Health(c)
  \/ \E c \in Callers :
       \/ Launched(c) \/ ContextClosed(c) \/ ContextMade(c) \/ PolicyInstalled(c)
       \/ PageMade(c) \/ CdpSessionMade(c) \/ Rejects(c)
  \/ DocumentSet \/ DocumentMeasured \/ Captured \/ ChromiumDies

\* The calls that are suspended inside ensure(), and whether two are.
Inside == {c \in Callers : pc[c] \in {"launch", "closeContext", "newContext", "policy", "newPage", "cdpSession"}}

Crossing == \E c, d \in Inside : c # d

\* No call is inside ensure() and no render under way, and the fields are those of one context: its scale, its
\* page, and what that page holds.
FieldsAgree ==
  /\ Inside = {}
  /\ context # 0 /\ page = context /\ deviceScaleFactor = scaleOf[context]
  /\ active => page \in loaded
  /\ pc["render"] = "idle"

Next ==
  /\ Step
  /\ crossed' = (crossed \/ Crossing')
  /\ mixed' = ((mixed /\ ~FieldsAgree) \/ Crossing')

Spec == Init /\ [][Next]_vars
-----------------------------------------------------------------------------
(***************************************************************************)
(* Properties.                                                             *)
(***************************************************************************)

\* A restarted context replaces the old one: Chromium never holds two of them.
OneContext == open \subseteq {context}

\* A frame is of a page its render, or an earlier one, put the document into: never
\* of the blank page a context restart or a failed ensure() left behind.
FrameHasDocument == frame # NoFrame => frame.page \in loaded

\* A frame is taken at the device scale factor its render asked for, through scale
\* changes, failed restarts of the context and concurrent health requests.
FrameScale == frame # NoFrame => scaleOf[frame.page] = frame.asked

\* A frame is what its render asked for: the document's page, at the scale asked
\* (browser.js render, after ensure).
FrameIsAsked == FrameHasDocument /\ FrameScale

\* A render's ensure() against health probes at any time (browser.js ensure, health).
\* There is one context until two calls cross at ensure()'s awaits; every frame is what
\* its render asked for, but for those between such a crossing and the first time that
\* the fields belong together again: from then on no probe can mix them up.
ContextSound ==
  /\ ~crossed => OneContext
  /\ ~mixed => FrameIsAsked
=============================================================================
