----------------------------- MODULE LocalAttach -----------------------------
(***************************************************************************)
(* lua/md-viewer/localrender.lua: how Neovim finds a helper's socket,      *)
(* proves that the helper filters this very terminal, routes requests to   *)
(* it, and falls back when the socket dies.                                *)
(*                                                                         *)
(* Callbacks of libuv (connect, read, write, timers) run at once, and post *)
(* most of their work to Neovim's event queue (loop) by vim.schedule; once *)
(* Neovim starts on the queue it empties it before libuv runs again, and   *)
(* several callbacks of libuv may run before it starts (draining).         *)
(*                                                                         *)
(* A try is one call of try_candidate, with the variables of its closure;  *)
(* tries are named by the order they were begun in.  conn names a try by   *)
(* the pipe it opened.  The marker presenter is installed and removed      *)
(* together with the transport.  A helper answers a hello with its token   *)
(* or refuses it (busy, other protocol); it reports a probe it sees in its *)
(* terminal to the client it has greeted.  A helper may be lost at any     *)
(* time, and a hello answered just as it times out: mishaps counts the      *)
(* accidents that the code does not recover from.                          *)
(* Left out: writes that closing their pipe cancels, the frame sequence    *)
(* and its latency samples, notifications other than the pairing's, and    *)
(* detach, which only Neovim's exit calls.                                 *)
(***************************************************************************)
EXTENDS Naturals, Sequences, FiniteSets, SequencesExt

CONSTANTS
  Candidates,  \* the socket paths found, the newest first
  Here,        \* those of them whose helper filters this terminal
  Attaches,    \* bound: calls of attach
  Requests,    \* bound: requests
  Mishaps      \* bound: accidents a try may meet

ASSUME AttachAssumption ==
  /\ Candidates \in Seq(Range(Candidates))
  /\ Here \subseteq Range(Candidates)
  /\ Attaches \cap Requests = {}
  /\ Mishaps \in Nat

VARIABLES
  state,     \* state, conn, attach_waiters, pairing_waiter, the tries, timers and loop
  transport, \* process.lua's: whether requests go to the socket
  draining,  \* Neovim is emptying the queue
  probes,    \* pairing probes the terminal has not passed to a helper of Here yet
  unused,    \* calls of attach, and requests, that have not been made
  answered,  \* how often the callback of each request was called
  fast,      \* whether this step runs in a callback of libuv
  mishaps    \* how many accidents tries met that can leave one half over (history)

vars == <<state, transport, draining, probes, unused, answered, fast, mishaps>>

Try == [path : Range(Candidates), rest : Seq(Range(Candidates)), finished : BOOLEAN,
        pipe : {"connecting", "open", "closed"}, next_id : Nat,
        greeted : {"no", "yes", "refused"}]

tries == DOMAIN state.tries

TypeOK ==
  /\ state.phase \in {"off", "connecting", "attached", "fallback"}
  /\ state.waiting \subseteq Attaches
  /\ {state.conn, state.pairing_waiter} \subseteq tries \cup {0}
  /\ state.conn # 0 => state.tries[state.conn].pipe = "open"
  /\ \A n \in tries : [f \in DOMAIN state.tries[n] \ {"callbacks", "sent"} |-> state.tries[n][f]] \in Try
  /\ \A n \in tries : \A c, d \in state.tries[n].callbacks : c.id = d.id => c = d
  /\ state.timers \subseteq {"hello", "pairing"} \X tries
  /\ {transport, draining, fast} \subseteq BOOLEAN
  /\ mishaps \in 0 .. Mishaps
  /\ answered \in [Requests -> Nat]

Init ==
  /\ state = [phase |-> "off", conn |-> 0, waiting |-> {}, pairing_waiter |-> 0,
              tries |-> <<>>, timers |-> {}, loop |-> <<>>]
  /\ transport = FALSE /\ draining = FALSE /\ fast = FALSE /\ mishaps = 0
  /\ probes = {}
  /\ unused = Attaches \cup Requests
  /\ answered = [r \in Requests |-> 0]
-----------------------------------------------------------------------------
(***************************************************************************)
(* The functions of the module, on the state s they have got so far.       *)
(***************************************************************************)
post(s, it) == [s EXCEPT !.loop = Append(@, it)]

\* The callback c of a request is called with an error on the next turn.
failing(c) == [kind |-> c.kind, of |-> c.of, ok |-> FALSE, token |-> "none"]

\* A mutation of close_conn: the requests in flight are forgotten.
close_connSilent(s) ==
  IF s.conn = 0 THEN s
  ELSE [s EXCEPT !.conn = 0, !.tries[s.conn].pipe = "closed", !.tries[s.conn].callbacks = {}]

close_conn(s) ==
  IF s.conn = 0 THEN s
  ELSE [s EXCEPT !.conn = 0,
                 !.tries[s.conn].pipe = "closed",
                 !.tries[s.conn].callbacks = {},
                 !.loop = @ \o SetToSeq({failing(c) : c \in s.tries[s.conn].callbacks})]

demoted(s) ==
  IF s.phase \notin {"attached", "connecting"} THEN s
  ELSE [close_conn(s) EXCEPT !.phase = "fallback"]

\* A mutation of demote: the socket stays the transport.
demoteKeepingTransport(s) ==
  /\ state' = demoted(s)
  /\ UNCHANGED transport

\* demote, which is where the transport goes
demote(s) ==
  /\ state' = demoted(s)
  /\ transport' = (transport /\ s.phase \notin {"attached", "connecting"})

send_request(s, kind, of) ==
  IF s.conn = 0 THEN post(s, failing([kind |-> kind, of |-> of]))
  ELSE LET id == s.tries[s.conn].next_id + 1
       IN  [s EXCEPT !.tries[s.conn].next_id = id,
                     !.tries[s.conn].callbacks = @ \cup {[id |-> id, kind |-> kind, of |-> of]},
                     !.tries[s.conn].sent = @ \cup {[id |-> id, kind |-> kind]}]

newTry(path, rest) ==
  [path |-> path, rest |-> rest, finished |-> FALSE, pipe |-> "connecting",
   callbacks |-> {}, next_id |-> 0, sent |-> {}, greeted |-> "no"]

\* Every waiter of the attach is called.
settle(s) == [s EXCEPT !.waiting = {}]

\* A mutation of try_next: the scan ends without a word when no candidate is left.
try_nextUnsettled(s, rest, k) ==
  IF k = Len(rest) THEN [s EXCEPT !.phase = "fallback"]
  ELSE [s EXCEPT !.tries = Append(@, newTry(rest[k + 1], SubSeq(rest, k + 2, Len(rest))))]

\* try_next, k of the remaining candidates being refused at once by verify_socket
try_next(s, rest, k) ==
  IF k = Len(rest) THEN settle([s EXCEPT !.phase = "fallback"])
  ELSE [s EXCEPT !.tries = Append(@, newTry(rest[k + 1], SubSeq(rest, k + 2, Len(rest))))]

refusals(n) == 0 .. Len(state.tries[n].rest)

\* finish(false) of try n
finish(s, n, k) ==
  IF s.tries[n].finished THEN s
  ELSE LET closed == close_conn([s EXCEPT !.tries[n].finished = TRUE])
       IN  try_next([closed EXCEPT !.tries[n].pipe = "closed"], s.tries[n].rest, k)

\* A mutation of dispatched: the callback stays in the table when it is called.
dispatchedKept(s, id, ok, token) ==
  LET c == {b \in s.tries[s.conn].callbacks : b.id = id}
  IN  IF c = {} THEN s
      ELSE LET b == CHOOSE b \in c : TRUE
           IN  post(s, [kind |-> b.kind, of |-> b.of, ok |-> ok, token |-> token])

\* dispatch_line, for an answer with this id: it is looked up in the connection that
\* is current, whichever pipe it was read from.
dispatched(s, id, ok, token) ==
  LET c == {b \in s.tries[s.conn].callbacks : b.id = id}
  IN  IF c = {} THEN s
      ELSE LET b == CHOOSE b \in c : TRUE
           IN  post([s EXCEPT !.tries[s.conn].callbacks = @ \ c],
                    [kind |-> b.kind, of |-> b.of, ok |-> ok, token |-> token])
-----------------------------------------------------------------------------
(***************************************************************************)
(* The callbacks of libuv.                                                 *)
(***************************************************************************)
Uv == ~draining /\ fast' = TRUE /\ UNCHANGED <<draining, unused, answered>>

\* The step is an accident or none.
happens(accident) ==
  /\ accident => mishaps < Mishaps
  /\ mishaps' = IF accident THEN mishaps + 1 ELSE mishaps

\* What try n has posted.
queued(kind, n) == \E i \in DOMAIN state.loop : state.loop[i].kind = kind /\ state.loop[i].of = n

Connects(n) ==
  /\ Uv /\ UNCHANGED mishaps
  /\ state.tries[n].pipe = "connecting"
  /\ state' = post([state EXCEPT !.tries[n].pipe = "open", !.conn = n], [kind |-> "connected", of |-> n])
  /\ UNCHANGED <<transport, probes>>

\* A socket whose helper is gone refuses the connection.
ConnectFails(n) ==
  /\ Uv /\ UNCHANGED mishaps
  /\ state.tries[n].pipe = "connecting"
  /\ \E k \in refusals(n) : state' = finish(state, n, k)
  /\ UNCHANGED <<transport, probes>>

\* The helper of n answers, unless it has refused and hung up; it greets one client once.
\* Without a current connection the read callback throws.  The accident: a hello is
\* answered while its timeout waits in the queue.
Answered(n) ==
  /\ Uv
  /\ state.tries[n].pipe = "open" /\ state.tries[n].greeted # "refused"
  /\ \E m \in state.tries[n].sent, ok \in BOOLEAN :
       /\ m.kind = "request" => ok
       /\ m.kind = "hello" /\ state.tries[n].greeted = "yes" => ~ok
       /\ happens(m.kind = "hello" /\ queued("hello_timeout", n))
       /\ LET read == [state EXCEPT !.tries[n].sent = @ \ {m},
                                    !.tries[n].greeted = IF m.kind # "hello" \/ @ = "yes" THEN @
                                                         ELSE IF ok THEN "yes" ELSE "refused"]
          IN  state' = IF state.conn = 0 THEN read ELSE dispatched(read, m.id, ok, state.tries[n].path)
  /\ UNCHANGED <<transport, probes>>

\* The helper has seen a probe with its token, and says so to the client it greeted.
Presented(n) ==
  /\ Uv /\ UNCHANGED mishaps
  /\ state.tries[n].pipe = "open" /\ state.tries[n].greeted = "yes"
  /\ \E p \in probes :
       /\ p.token = state.tries[n].path
       /\ probes' = probes \ {p}
  /\ state' = IF state.conn = 0 \/ state.pairing_waiter = 0 THEN state
              ELSE post([state EXCEPT !.pairing_waiter = 0],
                        [kind |-> "waiter", of |-> state.pairing_waiter])
  /\ UNCHANGED transport

\* The socket of a try that is over may be lost, and one whose helper refuses hangs up.
\* While a try is under way the loss of its greeted socket is an accident.
orderly(n) ==
  \/ state.tries[n].greeted = "yes" /\ state.tries[n].finished
  \/ state.tries[n].greeted = "refused"

\* Nor is it one that a helper hangs up instead of answering the hello it was sent; it is
\* when it hangs up before the hello is sent.
mayHangUp(n) ==
  \/ orderly(n)
  \/ state.tries[n].greeted = "no" /\ \E m \in state.tries[n].sent : m.kind = "hello"

\* The read callback is told that the socket is closed.
Closed(n) ==
  /\ Uv
  /\ state.tries[n].pipe = "open"
  /\ happens(~mayHangUp(n))
  /\ LET ended == [state EXCEPT !.tries[n].sent = {}]
     IN  IF state.phase = "attached"
         THEN demote([ended EXCEPT !.tries[n].pipe = IF state.conn = n THEN @ ELSE "closed"])
         ELSE /\ \E k \in refusals(n) : state' = finish(ended, n, k)
              /\ UNCHANGED transport
  /\ UNCHANGED probes

\* The write callback is told that the other end is gone, be it of the hello: what is
\* "connecting" becomes "fallback" then, and the scan goes on all the same.
WriteFails(n) ==
  /\ Uv
  /\ state.tries[n].pipe = "open"
  /\ happens(~orderly(n))
  /\ \E m \in state.tries[n].sent :
       LET unsent == [state EXCEPT !.tries[n].sent = @ \ {m}]
       IN  demote(IF state.conn = 0 THEN unsent ELSE dispatched(unsent, m.id, FALSE, "none"))
  /\ UNCHANGED probes

\* The accident: the timer of the hello fires when its answer is already in the queue.
HelloTimer(n) ==
  /\ Uv
  /\ <<"hello", n>> \in state.timers
  /\ happens(queued("hello", n))
  /\ state' = post([state EXCEPT !.timers = @ \ {<<"hello", n>>}], [kind |-> "hello_timeout", of |-> n])
  /\ UNCHANGED <<transport, probes>>

PairingTimer(n) ==
  /\ Uv /\ UNCHANGED mishaps
  /\ <<"pairing", n>> \in state.timers
  /\ state' = post([state EXCEPT !.timers = @ \ {<<"pairing", n>>}], [kind |-> "pairing_timeout", of |-> n])
  /\ UNCHANGED <<transport, probes>>
-----------------------------------------------------------------------------
(***************************************************************************)
(* The callbacks on Neovim's event queue.                                  *)
(***************************************************************************)
item == Head(state.loop)
n0 == item.of
taken == [state EXCEPT !.loop = Tail(@)]

Runs(kind) ==
  /\ state.loop # <<>>
  /\ item.kind = kind
  /\ fast' = FALSE
  /\ UNCHANGED <<unused, mishaps>>

SendHello ==
  /\ Runs("connected")
  /\ state' = send_request([taken EXCEPT !.timers = @ \cup {<<"hello", n0>>}], "hello", n0)
  /\ UNCHANGED <<transport, probes, answered>>

\* The hello is answered: the pairing begins, whatever became of the try meanwhile.
Greeted ==
  /\ Runs("hello")
  /\ item.ok
  /\ state' = [taken EXCEPT !.pairing_waiter = n0,
                            !.timers = (@ \ {<<"hello", n0>>}) \cup {<<"pairing", n0>>}]
  /\ probes' = probes \cup (IF item.token \in Here THEN {[of |-> n0, token |-> item.token]} ELSE {})
  /\ UNCHANGED <<transport, answered>>

Refused ==
  /\ Runs("hello")
  /\ ~item.ok
  /\ \E k \in refusals(n0) : state' = finish([taken EXCEPT !.timers = @ \ {<<"hello", n0>>}], n0, k)
  /\ UNCHANGED <<transport, probes, answered>>

HelloTimesOut ==
  /\ Runs("hello_timeout")
  /\ \E k \in refusals(n0) : state' = finish(taken, n0, k)
  /\ UNCHANGED <<transport, probes, answered>>

\* The waiter there is, is dropped: the timer's own or another.
PairingTimesOut ==
  /\ Runs("pairing_timeout")
  /\ IF state.pairing_waiter = 0 THEN state' = taken
     ELSE \E k \in refusals(n0) : state' = finish([taken EXCEPT !.pairing_waiter = 0], n0, k)
  /\ UNCHANGED <<transport, probes, answered>>

Paired ==
  /\ Runs("waiter")
  /\ LET s == [taken EXCEPT !.timers = @ \ {<<"pairing", n0>>}, !.phase = "attached"]
     IN  state' = IF s.tries[n0].finished THEN s
                  ELSE settle([s EXCEPT !.tries[n0].finished = TRUE])
  /\ transport' = TRUE
  /\ UNCHANGED <<probes, answered>>

CallBack ==
  /\ Runs("request")
  /\ state' = taken
  /\ answered' = [answered EXCEPT ![n0] = @ + 1]
  /\ UNCHANGED <<transport, probes>>

RunLoop ==
  /\ \/ SendHello \/ Greeted \/ Refused \/ HelloTimesOut \/ PairingTimesOut \/ Paired \/ CallBack
  /\ draining' = (state'.loop # <<>>)
-----------------------------------------------------------------------------
(***************************************************************************)
(* What Neovim's user does, and the terminal.                              *)
(***************************************************************************)
Command(x) ==
  /\ x \in unused
  /\ unused' = unused \ {x}
  /\ state.loop = <<>>
  /\ fast' = FALSE
  /\ UNCHANGED <<draining, probes, answered, mishaps>>

\* attach joins the scan there is.
Attach(a) ==
  /\ Command(a)
  /\ CASE state.phase = "attached"   -> UNCHANGED state
       [] state.phase = "connecting" -> state' = [state EXCEPT !.waiting = @ \cup {a}]
       [] OTHER -> \E k \in 0 .. Len(Candidates) :
            state' = try_next([state EXCEPT !.phase = "connecting", !.waiting = @ \cup {a}], Candidates, k)
  /\ UNCHANGED transport

\* process.request, while the transport is set
Request(r) ==
  /\ Command(r)
  /\ transport
  /\ state' = send_request(state, "request", r)
  /\ UNCHANGED transport

\* A probe reaches the terminal while its helper has no client.
ProbeUnheard ==
  /\ \E p \in probes :
       /\ \A n \in tries : state.tries[n].path = p.token
                             => state.tries[n].pipe # "open" \/ state.tries[n].greeted # "yes"
       /\ probes' = probes \ {p}
  /\ UNCHANGED <<state, transport, draining, unused, answered, fast, mishaps>>

Next ==
  \/ \E n \in tries :
       \/ Connects(n) \/ ConnectFails(n) \/ Answered(n) \/ Presented(n) \/ Closed(n)
       \/ WriteFails(n) \/ HelloTimer(n) \/ PairingTimer(n)
  \/ RunLoop
  \/ \E a \in Attaches : Attach(a)
  \/ \E r \in Requests : Request(r)
  \/ ProbeUnheard

Spec == Init /\ [][Next]_vars

Connecting == \E n \in tries : Connects(n) \/ ConnectFails(n)
HelloTimes == \E n \in tries : HelloTimer(n)
PairingTimes == \E n \in tries : PairingTimer(n)

\* A connect succeeds or fails, a timer fires, and the queue is served.
FairSpec ==
  /\ Spec
  /\ WF_vars(RunLoop)
  /\ SF_vars(Connecting) /\ SF_vars(HelloTimes) /\ SF_vars(PairingTimes)
-----------------------------------------------------------------------------
(***************************************************************************)
(* Properties.                                                             *)
(***************************************************************************)

\* "Two helper sessions to one VM can never silently cross-wire" (localrender.lua,
\* line 14): requests go to a socket only while it is the greeted socket of a helper
\* of this terminal.
TransportIsPaired ==
  transport =>
    /\ state.phase = "attached"
    /\ state.conn # 0
    /\ state.tries[state.conn].path \in Here
    /\ state.tries[state.conn].greeted = "yes"

\* Two hellos at once against a helper of one client would refuse each other.
OneTry == \A m, n \in tries : state.tries[m].finished \/ state.tries[n].finished \/ m = n

\* One socket at a time: one is tried, and requests go to the one that is paired
\* (localrender.lua attach, demote, send_request).  This holds until a mishap: the code
\* can then scan twice at once and present one helper's pairing to another's waiter.
OneTransport == mishaps = 0 => TransportIsPaired /\ OneTry

\* Where the callback of a request waits: with one of the connections conns, or queued.
waits(r, n) == {c \in state.tries[n].callbacks : c.kind = "request" /\ c.of = r}

pendingCalls(r, conns) ==
  Cardinality(UNION {waits(r, n) \X {n} : n \in conns})
  + Cardinality({i \in DOMAIN state.loop : state.loop[i].kind = "request" /\ state.loop[i].of = r})

\* No callback is lost or called twice: until a mishap a request is unanswered exactly as
\* long as its callback waits for the current connection, the only one whose answers are
\* looked up and whose end is told, or in the queue, once (localrender.lua send_request).
CallbacksKept ==
  mishaps = 0 => \A r \in Requests \ unused : answered[r] + pendingCalls(r, tries \cap {state.conn}) = 1

\* The harm of a mishap has its limits: requests go to a socket only after a greeted
\* helper of this terminal has seen a probe, and a callback that a connection which was
\* overwritten keeps for good is not called by another either (localrender.lua).
HarmContained ==
  /\ transport => \E n \in tries : state.tries[n].path \in Here /\ state.tries[n].greeted = "yes"
  /\ \A r \in Requests \ unused : answered[r] + pendingCalls(r, tries) = 1

\* Every attach is told how it went, unless a mishap comes before.  Until then no preview
\* renders.
EveryAttachTold == \A a \in Attaches : a \in state.waiting ~> a \notin state.waiting \/ mishaps > 0

\* "on_done(ok, reason) runs once" (localrender.lua, line 467): whatever happens, every
\* attach is told.
OnDoneRuns == \A a \in Attaches : a \in state.waiting ~> a \notin state.waiting

\* "on_done(ok, reason) runs once, scheduled" (localrender.lua, line 467): never from a
\* callback of libuv, where what it does is not allowed.
ToldOnMainLoop ==
  [][\A a \in Attaches : a \in state.waiting /\ a \notin state'.waiting => ~fast']_vars
=============================================================================
