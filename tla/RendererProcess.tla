----------------------------- MODULE RendererProcess -----------------------------
(***************************************************************************)
(* The renderer as a child process: lua/md-viewer/process.lua, which       *)
(* spawns it, writes requests to its stdin and cuts its stdout into lines, *)
(* and renderer/src/main.js with protocol.js, which answers and exits.     *)
(*                                                                         *)
(* Three kinds of steps interleave: the callbacks of libuv (a chunk read,  *)
(* a write that failed, a child that exited), the callbacks scheduled for  *)
(* Neovim's main loop, and what the user does.  A process that was told to *)
(* stop goes on beside the one that is spawned after it.                   *)
(*                                                                         *)
(* Every request is one that makes a selection; what the session shows of  *)
(* it is selection.  Not modelled: the forget sent before a close, a spawn *)
(* that fails (the request is called back at once), and stderr.            *)
(***************************************************************************)
EXTENDS Naturals, SequencesExt, FiniteSetsExt, Functions

CONSTANTS
    Procs,         \* the processes that may be spawned, 1..n
    MaxRequests, MaxCloses, MaxFailures    \* bounds of the model

ASSUME ProcsAssumption == IsFiniteSet(Procs) /\ Procs = 1..Cardinality(Procs)

VARIABLES
    \* process.lua
    instance,   \* the process requests go to, 0 for none
    running,    \* proc.running
    callbacks,  \* proc.callbacks: by id, the request it belongs to
    buffer,     \* proc.stdout_buffer
    timer,      \* the kill timer of M.stop
    loop,       \* what is scheduled for the main loop
    leaving,    \* how far VimLeavePre has come
    leaver,     \* the process it stops
    \* the sessions
    made,       \* requests made, with the number of times each was called back
    session,    \* the session now open; closing ends it
    selection,  \* the process whose selection the session shows, 0 for none
    \* the process and its pipes
    node, stdin, work, close, stdout,
    failures

plugin   == <<instance, running, callbacks, buffer, timer, leaving, leaver>>
sessions == <<made, session, selection>>
child    == <<node, stdin, work, close, stdout>>
vars     == <<plugin, loop, sessions, child, failures>>

Here      == leaving \in {"no", "wait", "term"}   \* Neovim's loop runs
Alive(k)  == node[k] \in {"run", "exiting"}       \* the child's loop runs
Listener  == [what |-> "listener"]
Shutdown  == [what |-> "shutdown"]
End       == [what |-> "end"]
Line(id)  == [what |-> "request", id |-> id]
Call(n, ok) == [what |-> "call", n |-> n, ok |-> ok]

\* One line in two parts, for a read may end in the middle of it.
head(id) == [id |-> id, part |-> "head"]
tail(id) == [id |-> id, part |-> "tail"]
send(id) == <<head(id), tail(id)>>

-----------------------------------------------------------------------------
(* main.js. *)

\* A mutation of exit: a close already under way is left to finish.
exitOnce(k) ==
    /\ close' = [close EXCEPT ![k] = IF @ = "open" THEN "pending" ELSE @]
    /\ node' = [node EXCEPT ![k] = IF @ = "run" /\ close[k] = "open" THEN "exiting" ELSE @]

\* service.close() returns at once if it was entered before; then nothing is
\* left to wait for.
exit(k) ==
    /\ close' = [close EXCEPT ![k] = IF @ = "open" THEN "pending" ELSE @]
    /\ node' = [node EXCEPT ![k] = CASE @ = "run" /\ close[k] = "open" -> "exiting"
                                     [] @ = "run" /\ close[k] # "open" -> "gone"
                                     [] OTHER -> @]

\* A line of stdin: a request, the shutdown request, or the end.
NodeReads(k) ==
    /\ Alive(k) /\ stdin[k] # <<>>
    /\ stdin' = [stdin EXCEPT ![k] = Tail(@)]
    /\ \/ /\ Head(stdin[k]).what = "request"
          /\ work' = [work EXCEPT ![k] = @ \cup {Head(stdin[k]).id}]
          /\ UNCHANGED <<node, close>>
       \/ /\ Head(stdin[k]) = Shutdown
          /\ close' = [close EXCEPT ![k] = IF @ = "open" THEN "pending" ELSE @]
          /\ UNCHANGED <<node, work>>
       \/ Head(stdin[k]) = End /\ exit(k) /\ UNCHANGED work
    /\ UNCHANGED <<plugin, loop, sessions, stdout, failures>>

\* Requests are answered in any order.
Answers(k) ==
    /\ Alive(k) /\ Here
    /\ \E id \in work[k] :
          /\ work' = [work EXCEPT ![k] = @ \ {id}]
          /\ stdout' = [stdout EXCEPT ![k] = @ \o send(id)]
    /\ UNCHANGED <<plugin, loop, sessions, node, stdin, close, failures>>

\* browser.close() resolves or rejects; it may also hang, and never get here.
\* A shutdown request exits by itself only if it resolves.
CloseEnds(k) ==
    /\ Alive(k) /\ close[k] = "pending" /\ close' = [close EXCEPT ![k] = "ended"]
    /\ \/ node' = [node EXCEPT ![k] = "gone"]
       \/ node[k] = "run" /\ UNCHANGED node
    /\ UNCHANGED <<plugin, loop, sessions, stdin, work, stdout, failures>>

\* The timer of exit: a close that hangs does not keep the process.
ExitTimer(k) ==
    /\ node[k] = "exiting" /\ node' = [node EXCEPT ![k] = "gone"]
    /\ UNCHANGED <<plugin, loop, sessions, stdin, work, close, stdout, failures>>

\* Neovim is gone, by itself or not: its ends of the pipes are closed.
HangUp(k) ==
    /\ ~Here /\ node[k] = "run" /\ exit(k)
    /\ UNCHANGED <<plugin, loop, sessions, stdin, work, stdout, failures>>

\* An uncaught exception exits; a crash is gone at once; a loop that never ends
\* reads, answers and notices nothing any more.
NodeFails(k) ==
    /\ Here /\ Alive(k) /\ failures < MaxFailures /\ failures' = failures + 1
    /\ \/ exit(k)
       \/ node' = [node EXCEPT ![k] = "gone"] /\ UNCHANGED close
       \/ node' = [node EXCEPT ![k] = "wedged"] /\ UNCHANGED close
    /\ UNCHANGED <<plugin, loop, sessions, stdin, work, stdout>>

-----------------------------------------------------------------------------
(* process.lua: callbacks of libuv. *)

\* A mutation of kept: what follows the last whole line is dropped.
keptNothing(read, last) == <<>>

kept(read, last) == SubSeq(read, last + 1, Len(read))

\* Places of a text, the first of them first.
inOrder(S) ==
    [j \in 1..Cardinality(S) |-> CHOOSE i \in S : Cardinality({x \in S : x <= i}) = j]

\* Each line with both its parts is a response; one whose request was called
\* back already is ignored.
consume(k, data) ==
    LET read == buffer[k] \o data
        ends == {i \in DOMAIN read : read[i].part = "tail"}
        whole(i) == /\ i \in ends /\ i > 1 /\ read[i - 1] = head(read[i].id)
                    /\ i - 2 \in ends \cup {0}
        answers == {i \in DOMAIN read : whole(i) /\ read[i].id \in DOMAIN callbacks[k]}
        ids == [j \in 1..Cardinality(answers) |-> read[inOrder(answers)[j]].id]
    IN  /\ buffer' = [buffer EXCEPT ![k] = kept(read, Max(ends \cup {0}))]
        /\ callbacks' = [callbacks EXCEPT ![k] = Restrict(@, DOMAIN @ \ ToSet(ids))]
        /\ loop' = loop \o [j \in DOMAIN ids |-> Call(callbacks[k][ids[j]], TRUE)]

Reads(k) ==
    /\ Here /\ running[k] /\ stdout[k] # <<>>
    /\ \E n \in 1..Len(stdout[k]) :
          /\ consume(k, SubSeq(stdout[k], 1, n))
          /\ stdout' = [stdout EXCEPT ![k] = SubSeq(@, n + 1, Len(@))]
    /\ UNCHANGED <<instance, running, timer, leaving, leaver, sessions, node, stdin, work, close,
                   failures>>

\* A write the process did not live to take.
WriteFails(k) ==
    /\ Here /\ running[k] /\ node[k] = "gone"
    /\ \E id \in DOMAIN callbacks[k] :
          /\ Line(id) \in ToSet(stdin[k])
          /\ callbacks' = [callbacks EXCEPT ![k] = Restrict(@, DOMAIN @ \ {id})]
          /\ loop' = Append(loop, Call(callbacks[k][id], FALSE))
    /\ UNCHANGED <<instance, running, buffer, timer, leaving, leaver, sessions, child, failures>>

\* Every pending request is called back with an error, and the listeners after.
deliver_error(k) ==
    LET ids == SetToSeq(DOMAIN callbacks[k])
    IN  /\ loop' = loop \o [j \in DOMAIN ids |-> Call(callbacks[k][ids[j]], FALSE)] \o <<Listener>>
        /\ callbacks' = [callbacks EXCEPT ![k] = <<>>]

\* A mutation of Exited: the listeners are called, not scheduled.
ExitedAtOnce(k) ==
    /\ Here /\ running[k] /\ node[k] = "gone"
    /\ running' = [running EXCEPT ![k] = FALSE]
    /\ loop' = loop \o [j \in 1..Cardinality(DOMAIN callbacks[k]) |->
                          Call(callbacks[k][SetToSeq(DOMAIN callbacks[k])[j]], FALSE)]
    /\ callbacks' = [callbacks EXCEPT ![k] = <<>>]
    /\ selection' = 0
    /\ stdout' = [stdout EXCEPT ![k] = <<>>]
    /\ UNCHANGED <<instance, buffer, timer, leaving, leaver, made, session, node, stdin, work, close,
                   failures>>

\* The exit callback of the spawn.  What is still in the pipe is not read.
Exited(k) ==
    /\ Here /\ running[k] /\ node[k] = "gone"
    /\ running' = [running EXCEPT ![k] = FALSE]
    /\ deliver_error(k)
    /\ stdout' = [stdout EXCEPT ![k] = <<>>]
    /\ UNCHANGED <<instance, buffer, timer, leaving, leaver, sessions, node, stdin, work, close,
                   failures>>

\* The timer M.stop has armed: SIGTERM, which a child that loops does not hear.
KillTimer(k) ==
    /\ Here /\ timer[k] = "armed" /\ timer' = [timer EXCEPT ![k] = "fired"]
    /\ IF running[k] THEN exit(k) ELSE UNCHANGED <<node, close>>
    /\ UNCHANGED <<instance, running, callbacks, buffer, leaving, leaver, loop, sessions, stdin, work,
                   stdout, failures>>

-----------------------------------------------------------------------------
(* The main loop. *)

\* The oldest scheduled callback.  A session that was closed takes no answer.
Scheduled ==
    /\ Here /\ loop # <<>> /\ loop' = Tail(loop)
    /\ LET e == Head(loop)
       IN  \/ e.what = "listener" /\ selection' = 0 /\ UNCHANGED made
           \/ /\ e.what = "call"
              /\ made' = [made EXCEPT ![e.n].calls = @ + 1]
              /\ selection' = IF e.ok /\ made[e.n].session = session THEN made[e.n].proc
                              ELSE selection
    /\ UNCHANGED <<plugin, session, child, failures>>

\* start(): the process that runs, or the next one.
start ==
    IF instance # 0 /\ running[instance] THEN instance
    ELSE CHOOSE k \in Procs : node[k] = "none" /\ \A j \in Procs : j < k => node[j] # "none"

Request ==
    /\ leaving = "no" /\ Len(made) < MaxRequests
    /\ \/ instance # 0 /\ running[instance]
       \/ \E k \in Procs : node[k] = "none"
    /\ LET k  == start
           id == 1 + Cardinality({n \in DOMAIN made : made[n].proc = k})
       IN  /\ instance' = k
           /\ node' = [node EXCEPT ![k] = IF @ = "none" THEN "run" ELSE @]
           /\ running' = [running EXCEPT ![k] = IF node[k] = "none" THEN TRUE ELSE @]
           /\ made' = Append(made, [proc |-> k, session |-> session, calls |-> 0])
           /\ callbacks' = [callbacks EXCEPT ![k] =
                              [i \in DOMAIN @ \cup {id} |-> IF i = id THEN Len(made) + 1 ELSE @[i]]]
           /\ stdin' = [stdin EXCEPT ![k] = Append(@, Line(id))]
    /\ UNCHANGED <<buffer, timer, leaving, leaver, loop, session, selection, work, close, stdout, failures>>

\* The last preview closes: the renderer is told, and forgotten.
stop ==
    /\ instance' = 0
    /\ stdin' = [k \in Procs |-> IF k = instance /\ running[k]
                                 THEN stdin[k] \o <<Shutdown, End>> ELSE stdin[k]]
    /\ session' = session + 1 /\ selection' = 0

Close ==
    /\ leaving = "no" /\ session < MaxCloses /\ stop
    /\ timer' = [k \in Procs |-> IF k = instance /\ running[k] THEN "armed" ELSE timer[k]]
    /\ UNCHANGED <<running, callbacks, buffer, leaving, leaver, loop, made, node, work, close, stdout,
                   failures>>

\* VimLeavePre: the same, but waited for, with SIGTERM and then SIGKILL.
Leave ==
    /\ leaving = "no" /\ stop
    /\ leaver' = instance
    /\ leaving' = IF instance # 0 /\ running[instance] THEN "wait" ELSE "left"
    /\ UNCHANGED <<running, callbacks, buffer, timer, loop, made, node, work, close, stdout, failures>>

\* A wait ends when the process has exited, or with its time.
LeaveOn ==
    /\ \/ leaving = "wait" /\ running[leaver] /\ exit(leaver) /\ leaving' = "term"
       \/ /\ leaving = "term" /\ running[leaver] /\ leaving' = "left"
          /\ node' = [node EXCEPT ![leaver] = "gone"] /\ UNCHANGED close
       \/ leaving \in {"wait", "term"} /\ ~running[leaver] /\ leaving' = "left"
          /\ UNCHANGED <<node, close>>
    /\ UNCHANGED <<instance, running, callbacks, buffer, timer, leaver, loop, sessions, stdin, work,
                   stdout, failures>>

\* Neovim is killed.
NeovimDies ==
    /\ Here /\ failures < MaxFailures /\ failures' = failures + 1 /\ leaving' = "died"
    /\ UNCHANGED <<instance, running, callbacks, buffer, timer, leaver, loop, sessions, child>>

Init ==
    /\ instance = 0 /\ running = [k \in Procs |-> FALSE] /\ callbacks = [k \in Procs |-> <<>>]
    /\ buffer = [k \in Procs |-> <<>>] /\ timer = [k \in Procs |-> "none"]
    /\ loop = <<>> /\ leaving = "no" /\ leaver = 0
    /\ made = <<>> /\ session = 0 /\ selection = 0
    /\ node = [k \in Procs |-> "none"] /\ stdin = [k \in Procs |-> <<>>]
    /\ work = [k \in Procs |-> {}] /\ close = [k \in Procs |-> "open"]
    /\ stdout = [k \in Procs |-> <<>>] /\ failures = 0

Next ==
    \/ Request \/ Close \/ Leave \/ LeaveOn \/ NeovimDies \/ Scheduled
    \/ \E k \in Procs : \/ NodeReads(k) \/ Answers(k) \/ CloseEnds(k) \/ ExitTimer(k)
                        \/ HangUp(k) \/ NodeFails(k)
                        \/ Reads(k) \/ WriteFails(k) \/ Exited(k) \/ KillTimer(k)

Spec == Init /\ [][Next]_vars

\* The loop of a child, and Neovim's, take their events and run their timers.
ChildLoop(k) == NodeReads(k) \/ Answers(k) \/ ExitTimer(k) \/ HangUp(k)
NeovimLoop   == Scheduled \/ LeaveOn \/ \E k \in Procs : Reads(k) \/ Exited(k)

\* Nothing makes a close end, a child fail, or the user act.
FairSpec == Spec /\ WF_vars(NeovimLoop) /\ \A k \in Procs : WF_vars(ChildLoop(k))

-----------------------------------------------------------------------------
\* A request waits for its answer, is scheduled to be called back, or has been:
\* one of the three and once.
OneOutcome ==
    \A n \in DOMAIN made :
        LET waits == \E id \in DOMAIN callbacks[made[n].proc] : callbacks[made[n].proc][id] = n
            queued == {i \in DOMAIN loop : loop[i].what = "call" /\ loop[i].n = n}
        IN  (IF waits THEN 1 ELSE 0) + Cardinality(queued) + made[n].calls = 1

\* An answer written is never lost while it is waited for: it is in the pipe and
\* the buffer as a whole line, wherever the reads have cut it.
NoReplyLost ==
    \A k \in Procs : \A id \in DOMAIN callbacks[k] :
        \/ id \in work[k] \/ Line(id) \in ToSet(stdin[k])
        \/ \E i \in 1..Len(buffer[k] \o stdout[k]) - 1 :
              SubSeq(buffer[k] \o stdout[k], i, i + 1) = send(id)

\* Each request is called back once, whichever of reply, failed write and exit come,
\* in whatever order: it has one outcome, its reply is not lost on the way, and
\* none waits for a process that is gone (process.lua consume, deliver_error,
\* request_stdio).
CalledBackOnce ==
    /\ OneOutcome /\ NoReplyLost
    /\ \A k \in Procs : running[k] \/ callbacks[k] = <<>>

\* A session does not show for good a selection of a process that is gone: the
\* listener that takes it back comes after every answer of that process
\* (process.lua:11-16, controller.lua:2248-2260).
NoGhostSelection ==
    selection # 0 => running[selection] \/ Listener \in ToSet(loop)

\* ... nor does it lose one of a process that serves.  It does: the listeners run at
\* the exit of any process, of one that was stopped before the next was started
\* too (process.lua:86, controller.lua:2253).
SelectionKept ==
    [][selection # 0 /\ selection' = 0 => ~running[selection] \/ session' # session]_vars

\* A Neovim that quits in order leaves behind no renderer that will not go: "this
\* process never outlives the Neovim that spawned it, by any route"
\* (tests/node/orphan-exit.test.js:9).  It does, if it was stopped before without
\* waiting, and hangs (process.lua:176-207).
StrandsNone == leaving = "left" => \A k \in Procs : node[k] # "wedged"

\* A renderer that was stopped, or whose Neovim is gone, goes, whatever becomes
\* of its browser (main.js exit).
RendererGoes ==
    \A k \in Procs : (Alive(k) /\ (k # instance \/ ~Here)) ~> ~Alive(k)
=============================================================================
