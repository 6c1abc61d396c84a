------------------------- MODULE RendererProcessProofs -------------------------
(***************************************************************************)
(* A request to the renderer process is called back once and its reply is  *)
(* not lost on the way, and no selection stays of a process that is gone:  *)
(* for any number of processes, requests, closes and failures, and reads   *)
(* that cut the lines anywhere.                                            *)
(***************************************************************************)
EXTENDS RendererProcess, SequenceTheorems, FiniteSetTheorems, WellFoundedInduction, TLAPS

Ask   == [proc : Procs, session : Nat, calls : Nat]
Item  == {Listener} \cup [what : {"call"}, n : Nat, ok : BOOLEAN]
Input == {Shutdown, End} \cup [what : {"request"}, id : Nat]
Part  == [id : Nat, part : {"head", "tail"}]

TypeOK ==
  /\ instance \in Procs \cup {0} /\ leaver \in Procs \cup {0} /\ selection \in Procs \cup {0}
  /\ running \in [Procs -> BOOLEAN]
  /\ DOMAIN callbacks = Procs
  /\ \A k \in Procs : /\ callbacks[k] \in [DOMAIN callbacks[k] -> DOMAIN made]
                      /\ DOMAIN callbacks[k] \subseteq Nat
  /\ buffer \in [Procs -> Seq(Part)] /\ stdout \in [Procs -> Seq(Part)]
  /\ timer \in [Procs -> {"none", "armed", "fired"}]
  /\ leaving \in {"no", "wait", "term", "left", "died"}
  /\ loop \in Seq(Item) /\ made \in Seq(Ask) /\ session \in Nat /\ failures \in Nat
  /\ node \in [Procs -> {"none", "run", "exiting", "gone", "wedged"}]
  /\ close \in [Procs -> {"open", "pending", "ended"}]
  /\ stdin \in [Procs -> Seq(Input)] /\ work \in [Procs -> SUBSET Nat]

-----------------------------------------------------------------------------
(* The inductive invariant. *)

requestsOf(k) == {n \in DOMAIN made : made[n].proc = k}
issued(k)     == 1 .. Cardinality(requestsOf(k))

\* What the process has written and no line was made of yet.
pipe(k) == buffer[k] \o stdout[k]

\* A process that was not spawned has nothing.
Unspawned(k) ==
  node[k] = "none" =>
    /\ ~running[k] /\ callbacks[k] = <<>> /\ buffer[k] = <<>> /\ stdout[k] = <<>>
    /\ stdin[k] = <<>> /\ work[k] = {}

\* A callback is of a request of this process, under an id of its own.
Owned(k) ==
  /\ running[k] \/ callbacks[k] = <<>>
  /\ \A id \in DOMAIN callbacks[k] : id \in issued(k) /\ made[callbacks[k][id]].proc = k
  /\ \A id, other \in DOMAIN callbacks[k] : callbacks[k][id] = callbacks[k][other] => id = other

\* A request is in one place: unread, at work, or answered; and there once.
InOnePlace(k) ==
  /\ \A i \in DOMAIN stdin[k] : stdin[k][i].what = "request" => stdin[k][i].id \in issued(k) \ work[k]
  /\ \A i, j \in DOMAIN stdin[k] : stdin[k][i].what = "request" /\ stdin[k][i] = stdin[k][j] => i = j
  /\ work[k] \subseteq issued(k)
  /\ \A i \in DOMAIN pipe(k) :
       /\ pipe(k)[i].id \in issued(k) \ work[k]
       /\ \A j \in DOMAIN stdin[k] : stdin[k][j] # Line(pipe(k)[i].id)
  /\ \A i, j \in DOMAIN pipe(k) : pipe(k)[i] = pipe(k)[j] => i = j

\* The pipe is made of whole lines: the buffer never begins inside one.
Framed(k) ==
  running[k] => \A i \in DOMAIN pipe(k) :
    /\ pipe(k)[i].part = "head" => i + 1 \in DOMAIN pipe(k) /\ pipe(k)[i + 1] = tail(pipe(k)[i].id)
    /\ pipe(k)[i].part = "tail" => i - 1 \in DOMAIN pipe(k) /\ pipe(k)[i - 1] = head(pipe(k)[i].id)

\* What is waited for will come, if the process lives.
Awaited(k) ==
  \A id \in DOMAIN callbacks[k] :
    \/ id \in work[k]
    \/ \E i \in DOMAIN stdin[k] : stdin[k][i] = Line(id)
    \/ \E i \in DOMAIN pipe(k) : pipe(k)[i] = head(id)

waits(n)     == \E id \in DOMAIN callbacks[made[n].proc] : callbacks[made[n].proc][id] = n
queued(n, l) == {i \in DOMAIN l : l[i].what = "call" /\ l[i].n = n}

never(n, l)  == queued(n, l) = {}
once(n, l)   == \E i \in DOMAIN l : queued(n, l) = {i}

Outcome(n) ==
  \/ waits(n) /\ never(n, loop) /\ made[n].calls = 0
  \/ ~waits(n) /\ once(n, loop) /\ made[n].calls = 0
  \/ ~waits(n) /\ never(n, loop) /\ made[n].calls = 1

\* An answer scheduled after its process has exited has the listeners behind it.
ListenersBehind(l) ==
  \A i \in DOMAIN l : l[i].what = "call" =>
    /\ l[i].n \in DOMAIN made
    /\ l[i].ok => running[made[l[i].n].proc] \/ \E j \in DOMAIN l : j > i /\ l[j] = Listener

Ghost == selection # 0 => running[selection] \/ \E i \in DOMAIN loop : loop[i] = Listener

IInv ==
  /\ TypeOK
  /\ \A k \in Procs : Unspawned(k) /\ Owned(k) /\ InOnePlace(k) /\ Framed(k) /\ Awaited(k)
  /\ \A n \in DOMAIN made : Outcome(n)
  /\ ListenersBehind(loop)
  /\ Ghost

-----------------------------------------------------------------------------
LEMMA InitIInv == Init => IInv
<1> SUFFICES ASSUME Init PROVE IInv
  OBVIOUS
<1> USE DEF Init
<1>1. TypeOK
  BY DEF TypeOK
<1>2. ASSUME NEW k \in Procs
      PROVE  Unspawned(k) /\ Owned(k) /\ InOnePlace(k) /\ Framed(k) /\ Awaited(k)
  <2>1. DOMAIN callbacks[k] = {} /\ DOMAIN stdin[k] = {} /\ pipe(k) = <<>> /\ DOMAIN pipe(k) = {}
    BY DEF pipe
  <2> QED BY <2>1 DEF Unspawned, Owned, InOnePlace, Framed, Awaited
<1>3. DOMAIN made = {} /\ DOMAIN loop = {}
  OBVIOUS
<1> QED BY <1>1, <1>2, <1>3 DEF IInv, ListenersBehind, Ghost

\* What the plugin and the pipes hold, which is all that the invariant speaks of but nodes.
held == <<running, callbacks, buffer, loop, made, selection, stdin, work, stdout>>

\* A process whose part of the state stays has its part of the invariant, though other
\* requests are made or called back.
LEMMA Aside ==
  ASSUME IInv, NEW k \in Procs, requestsOf(k)' = requestsOf(k),
         \A n \in DOMAIN made : made'[n].proc = made[n].proc,
         running'[k] = running[k], callbacks'[k] = callbacks[k],
         buffer'[k] = buffer[k], stdout'[k] = stdout[k], stdin'[k] = stdin[k], work'[k] = work[k],
         node'[k] = "none" => node[k] = "none"
  PROVE  (Unspawned(k) /\ Owned(k) /\ InOnePlace(k) /\ Framed(k) /\ Awaited(k))'
<1>1. pipe(k)' = pipe(k) /\ issued(k)' = issued(k)
  BY DEF pipe, issued
<1>2. Unspawned(k) /\ Owned(k) /\ InOnePlace(k) /\ Framed(k) /\ Awaited(k)
  BY DEF IInv
<1>3. Unspawned(k)'
  BY <1>1, <1>2 DEF Unspawned
<1>4. Owned(k)'
  <2>1. \A id \in DOMAIN callbacks[k] : callbacks[k][id] \in DOMAIN made
    BY DEF IInv, TypeOK
  <2> QED BY <1>1, <1>2, <2>1 DEF Owned
<1>5. InOnePlace(k)'
  BY <1>1, <1>2 DEF InOnePlace
<1>6. Framed(k)' /\ Awaited(k)'
  BY <1>1, <1>2 DEF Framed, Awaited
<1> QED BY <1>3, <1>4, <1>5, <1>6

LEMMA Untouched ==
  ASSUME IInv, NEW k \in Procs, made' = made, running'[k] = running[k], callbacks'[k] = callbacks[k],
         buffer'[k] = buffer[k], stdout'[k] = stdout[k], stdin'[k] = stdin[k], work'[k] = work[k],
         node'[k] = "none" => node[k] = "none"
  PROVE  (Unspawned(k) /\ Owned(k) /\ InOnePlace(k) /\ Framed(k) /\ Awaited(k))'
<1>1. requestsOf(k)' = requestsOf(k)
  BY DEF requestsOf
<1> QED BY <1>1, Aside

\* A step that changes none of these, nor spawns, keeps the invariant.
LEMMA QuietStep ==
  ASSUME IInv, UNCHANGED held, TypeOK', \A k \in Procs : node'[k] = "none" => node[k] = "none"
  PROVE  IInv'
<1> USE DEF held
<1>1. ASSUME NEW k \in Procs
      PROVE  (Unspawned(k) /\ Owned(k) /\ InOnePlace(k) /\ Framed(k) /\ Awaited(k))'
  BY Untouched
<1>2. \A n \in DOMAIN made' : Outcome(n)'
  BY DEF IInv, Outcome, waits, queued, once, never
<1>3. ListenersBehind(loop)' /\ Ghost'
  BY DEF IInv, ListenersBehind, Ghost
<1> QED BY <1>1, <1>2, <1>3 DEF IInv

\* What exit does to the process it is of.
LEMMA ExitFacts ==
  ASSUME TypeOK, NEW k, exit(k)
  PROVE  /\ node' \in [Procs -> {"none", "run", "exiting", "gone", "wedged"}]
         /\ close' \in [Procs -> {"open", "pending", "ended"}]
         /\ \A j \in Procs : node'[j] = "none" => node[j] = "none"
BY DEF TypeOK, exit

LEMMA CloseEndsStep == ASSUME IInv, NEW k \in Procs, CloseEnds(k) PROVE IInv'
<1>1. TypeOK' /\ \A j \in Procs : node'[j] = "none" => node[j] = "none"
  BY DEF IInv, TypeOK, CloseEnds, Alive, plugin, sessions
<1> QED BY <1>1, QuietStep DEF CloseEnds, held, plugin, sessions

LEMMA ExitTimerStep == ASSUME IInv, NEW k \in Procs, ExitTimer(k) PROVE IInv'
<1>1. TypeOK' /\ \A j \in Procs : node'[j] = "none" => node[j] = "none"
  BY DEF IInv, TypeOK, ExitTimer, plugin, sessions
<1> QED BY <1>1, QuietStep DEF ExitTimer, held, plugin, sessions

LEMMA HangUpStep == ASSUME IInv, NEW k \in Procs, HangUp(k) PROVE IInv'
<1>1. TypeOK' /\ \A j \in Procs : node'[j] = "none" => node[j] = "none"
  BY ExitFacts DEF IInv, TypeOK, HangUp, plugin, sessions
<1> QED BY <1>1, QuietStep DEF HangUp, held, plugin, sessions

LEMMA NodeFailsStep == ASSUME IInv, NEW k \in Procs, NodeFails(k) PROVE IInv'
<1>1. TypeOK' /\ \A j \in Procs : node'[j] = "none" => node[j] = "none"
  <2>1. /\ node' \in [Procs -> {"none", "run", "exiting", "gone", "wedged"}]
        /\ close' \in [Procs -> {"open", "pending", "ended"}]
        /\ \A j \in Procs : node'[j] = "none" => node[j] = "none"
    BY ExitFacts DEF IInv, TypeOK, NodeFails, Alive
  <2>2. TypeOK'
    <3>1. /\ UNCHANGED <<plugin, loop, sessions, stdin, work, stdout>>
          /\ failures' = failures + 1 /\ TypeOK
      BY DEF NodeFails, IInv
    <3> QED BY <2>1, <3>1, SMTT(30) DEF TypeOK, plugin, sessions
  <2> QED BY <2>1, <2>2
<1> QED BY <1>1, QuietStep DEF NodeFails, held, plugin, sessions

LEMMA KillTimerStep == ASSUME IInv, NEW k \in Procs, KillTimer(k) PROVE IInv'
<1>1. TypeOK' /\ \A j \in Procs : node'[j] = "none" => node[j] = "none"
  <2>1. /\ node' \in [Procs -> {"none", "run", "exiting", "gone", "wedged"}]
        /\ close' \in [Procs -> {"open", "pending", "ended"}]
        /\ \A j \in Procs : node'[j] = "none" => node[j] = "none"
    BY ExitFacts DEF IInv, TypeOK, KillTimer
  <2> QED BY <2>1 DEF IInv, TypeOK, KillTimer, sessions
<1> QED BY <1>1, QuietStep DEF KillTimer, held, sessions

LEMMA LeaveOnStep == ASSUME IInv, LeaveOn PROVE IInv'
<1>1. /\ node' \in [Procs -> {"none", "run", "exiting", "gone", "wedged"}]
      /\ close' \in [Procs -> {"open", "pending", "ended"}]
      /\ \A j \in Procs : node'[j] = "none" => node[j] = "none"
      /\ leaving' \in {"term", "left"}
  <2>1. CASE leaving = "wait" /\ running[leaver] /\ exit(leaver) /\ leaving' = "term"
    BY <2>1, ExitFacts DEF IInv
  <2>2. CASE /\ leaving = "term" /\ running[leaver] /\ leaving' = "left"
             /\ node' = [node EXCEPT ![leaver] = "gone"] /\ UNCHANGED close
    BY <2>2 DEF IInv, TypeOK
  <2>3. CASE leaving' = "left" /\ UNCHANGED <<node, close>>
    BY <2>3 DEF IInv, TypeOK
  <2> QED BY <2>1, <2>2, <2>3 DEF LeaveOn
<1>2. TypeOK'
  BY <1>1 DEF IInv, TypeOK, LeaveOn, sessions
<1> QED BY <1>1, <1>2, QuietStep DEF LeaveOn, held, sessions

LEMMA NeovimDiesStep == ASSUME IInv, NeovimDies PROVE IInv'
<1>1. TypeOK'
  BY SMTT(30) DEF IInv, TypeOK, NeovimDies, sessions, child
<1> QED BY <1>1, QuietStep DEF NeovimDies, held, sessions, child

-----------------------------------------------------------------------------
\* Stopping sends a process two lines that are no requests.
LEMMA StopStep ==
  ASSUME IInv, stop, TypeOK', UNCHANGED <<running, callbacks, buffer, loop, made, node, work, stdout>>
  PROVE  IInv'
<1>1. ASSUME NEW k \in Procs
      PROVE  (Unspawned(k) /\ Owned(k) /\ InOnePlace(k) /\ Framed(k) /\ Awaited(k))'
  <2>1. pipe(k)' = pipe(k) /\ issued(k)' = issued(k)
    BY DEF pipe, issued, requestsOf
  <2>2. Unspawned(k) /\ Owned(k) /\ InOnePlace(k) /\ Framed(k) /\ Awaited(k)
    BY DEF IInv
  <2>3. stdin[k] \in Seq(Input)
    BY DEF IInv, TypeOK
  <2>4. \/ stdin'[k] = stdin[k]
        \/ running[k] /\ stdin'[k] = stdin[k] \o <<Shutdown, End>>
    BY DEF stop
  <2>5. /\ \A i \in DOMAIN stdin[k] : i \in DOMAIN stdin'[k] /\ stdin'[k][i] = stdin[k][i]
        /\ \A i \in DOMAIN stdin'[k] : \/ i \in DOMAIN stdin[k] /\ stdin'[k][i] = stdin[k][i]
                                      \/ stdin'[k][i] \in {Shutdown, End}
    <3>1. CASE stdin'[k] = stdin[k]
      BY <3>1
    <3>2. CASE stdin'[k] = stdin[k] \o <<Shutdown, End>>
      BY <3>2, <2>3, SMTT(30) DEF Input
    <3> QED BY <2>4, <3>1, <3>2
  <2>6. \A id : Line(id).what = "request" /\ Shutdown.what # "request" /\ End.what # "request"
    BY DEF Line, Shutdown, End
  <2>7. Unspawned(k)' /\ Owned(k)' /\ Framed(k)'
    BY <2>1, <2>2, <2>4 DEF Unspawned, Owned, Framed
  <2>8. InOnePlace(k)'
    <3>1. /\ \A i \in DOMAIN stdin'[k] : stdin'[k][i].what = "request" =>
               i \in DOMAIN stdin[k] /\ stdin'[k][i] = stdin[k][i]
          /\ \A id : \A i \in DOMAIN stdin'[k] : stdin'[k][i] = Line(id) => 
               i \in DOMAIN stdin[k] /\ stdin'[k][i] = stdin[k][i]
      BY <2>5, <2>6
    <3>2. \A id : (\A i \in DOMAIN stdin[k] : stdin[k][i] # Line(id)) =>
                  (\A i \in DOMAIN stdin'[k] : stdin'[k][i] # Line(id))
      BY <3>1
    <3> QED BY <2>1, <2>2, <3>1, <3>2 DEF InOnePlace
  <2>9. Awaited(k)'
    <3>1. \A id : (\E i \in DOMAIN stdin[k] : stdin[k][i] = Line(id)) =>
                  (\E i \in DOMAIN stdin'[k] : stdin'[k][i] = Line(id))
      BY <2>5
    <3> QED BY <2>1, <2>2, <3>1 DEF Awaited
  <2> QED BY <2>7, <2>8, <2>9
<1>2. \A n \in DOMAIN made' : Outcome(n)'
  BY DEF IInv, Outcome, waits, queued, once, never
<1>3. ListenersBehind(loop)' /\ Ghost'
  BY DEF IInv, ListenersBehind, Ghost, stop
<1> QED BY <1>1, <1>2, <1>3 DEF IInv

\* The pipes after stop.
LEMMA StopTypes ==
  ASSUME IInv, stop
  PROVE  /\ instance' \in Procs \cup {0} /\ selection' \in Procs \cup {0} /\ session' \in Nat
         /\ stdin' \in [Procs -> Seq(Input)]
<1>1. \A k \in Procs : stdin[k] \o <<Shutdown, End>> \in Seq(Input)
  <2> SUFFICES ASSUME NEW k \in Procs PROVE stdin[k] \o <<Shutdown, End>> \in Seq(Input)
    OBVIOUS
  <2>1. stdin[k] \in Seq(Input)
    BY DEF IInv, TypeOK
  <2>2. Shutdown \in Input /\ End \in Input
    BY DEF Input
  <2>3. <<Shutdown, End>> \in Seq(Input)
    BY <2>2
  <2> QED BY <2>1, <2>3, ConcatProperties
<1>2. instance' \in Procs \cup {0} /\ selection' \in Procs \cup {0} /\ session' \in Nat
  <2>1. session \in Nat
    BY DEF IInv, TypeOK
  <2>2. instance' = 0 /\ selection' = 0 /\ session' = session + 1
    BY DEF stop
  <2> QED BY <2>1, <2>2
<1>3. stdin \in [Procs -> Seq(Input)]
  BY DEF IInv, TypeOK
<1>4. stdin' = [k \in Procs |-> IF k = instance /\ running[k]
                               THEN stdin[k] \o <<Shutdown, End>> ELSE stdin[k]]
  BY DEF stop
<1>5. stdin' \in [Procs -> Seq(Input)]
  BY <1>1, <1>3, <1>4
<1> QED BY <1>2, <1>5

LEMMA CloseStep == ASSUME IInv, Close PROVE IInv'
<1>1. TypeOK'
  BY StopTypes DEF IInv, TypeOK, Close
<1> QED BY <1>1, StopStep DEF Close

LEMMA LeaveStep == ASSUME IInv, Leave PROVE IInv'
<1>1. TypeOK'
  BY StopTypes DEF IInv, TypeOK, Leave
<1> QED BY <1>1, StopStep DEF Leave

-----------------------------------------------------------------------------
(* The child reads and answers. *)

\* Requests are lines of their own.
LEMMA LineFacts ==
  /\ \A id : Line(id).what = "request" /\ Line(id).id = id
  /\ \A x \in Input : x.what = "request" => x = Line(x.id) /\ x.id \in Nat
  /\ Shutdown.what # "request" /\ End.what # "request"
BY DEF Line, Shutdown, End, Input

\* The rest of a sequence, place by place.
LEMMA TailFacts ==
  ASSUME NEW S, NEW t \in Seq(S), t # <<>>
  PROVE  /\ Tail(t) \in Seq(S) /\ Head(t) = t[1] /\ Head(t) \in S
         /\ DOMAIN t = 1 .. Len(t) /\ 1 \in DOMAIN t
         /\ \A i \in DOMAIN Tail(t) : i + 1 \in DOMAIN t /\ Tail(t)[i] = t[i + 1] /\ i + 1 # 1
         /\ \A i \in DOMAIN t : i = 1 \/ (i - 1 \in DOMAIN Tail(t) /\ Tail(t)[i - 1] = t[i])
<1>1. Len(t) \in Nat \ {0} /\ DOMAIN t = 1 .. Len(t)
  OBVIOUS
<1>2. /\ Tail(t) \in Seq(S) /\ DOMAIN Tail(t) = 1 .. Len(t) - 1
      /\ \A i \in 1 .. Len(t) - 1 : Tail(t)[i] = t[i + 1]
  BY <1>1
<1> QED BY <1>1, <1>2

LEMMA NodeReadsStep == ASSUME IInv, NEW k \in Procs, NodeReads(k) PROVE IInv'
<1> DEFINE t == stdin[k]
           id == Head(t).id
<1>1. /\ UNCHANGED <<plugin, loop, sessions, stdout, failures>>
      /\ stdin' = [stdin EXCEPT ![k] = Tail(t)] /\ node[k] # "none"
  BY DEF NodeReads, Alive
<1> USE DEF plugin, sessions
<1>2. /\ t \in Seq(Input) /\ t # <<>> /\ Tail(t) \in Seq(Input) /\ Head(t) = t[1] /\ Head(t) \in Input
      /\ DOMAIN t = 1 .. Len(t) /\ 1 \in DOMAIN t
      /\ \A i \in DOMAIN Tail(t) : i + 1 \in DOMAIN t /\ Tail(t)[i] = t[i + 1] /\ i + 1 # 1
      /\ \A i \in DOMAIN t : i = 1 \/ (i - 1 \in DOMAIN Tail(t) /\ Tail(t)[i - 1] = t[i])
  <2>1. t \in Seq(Input) /\ t # <<>>
    BY DEF IInv, TypeOK, NodeReads
  <2> HIDE DEF t
  <2> QED BY <2>1, TailFacts
<1>3. stdin'[k] = Tail(t) /\ \A j \in Procs \ {k} : stdin'[j] = stdin[j]
  BY <1>1 DEF IInv, TypeOK
<1>4. /\ node' \in [Procs -> {"none", "run", "exiting", "gone", "wedged"}]
      /\ close' \in [Procs -> {"open", "pending", "ended"}]
      /\ \A j \in Procs : node'[j] = "none" => node[j] = "none"
  BY ExitFacts DEF IInv, TypeOK, NodeReads
<1>5. \/ Head(t).what = "request" /\ work' = [work EXCEPT ![k] = @ \cup {id}]
      \/ Head(t).what # "request" /\ work' = work
  BY LineFacts DEF NodeReads
<1>6. work' \in [Procs -> SUBSET Nat] /\ \A j \in Procs \ {k} : work'[j] = work[j]
  <2>1. Head(t).what = "request" => id \in Nat
    BY <1>2, LineFacts
  <2>2. work \in [Procs -> SUBSET Nat]
    BY DEF IInv, TypeOK
  <2>3. CASE Head(t).what = "request" /\ work' = [work EXCEPT ![k] = work[k] \cup {id}]
    <3> HIDE DEF t, id
    <3> QED BY <2>1, <2>2, <2>3
  <2>4. CASE work' = work
    BY <2>2, <2>4
  <2> QED BY <1>5, <2>3, <2>4
<1>7. TypeOK'
  BY <1>1, <1>2, <1>4, <1>6 DEF IInv, TypeOK
<1>8. ASSUME NEW j \in Procs \ {k}
      PROVE  (Unspawned(j) /\ Owned(j) /\ InOnePlace(j) /\ Framed(j) /\ Awaited(j))'
  BY <1>1, <1>3, <1>4, <1>6, Untouched
<1>9. (Unspawned(k) /\ Owned(k) /\ InOnePlace(k) /\ Framed(k) /\ Awaited(k))'
  <2>1. pipe(k)' = pipe(k) /\ issued(k)' = issued(k)
    BY <1>1 DEF pipe, issued, requestsOf
  <2>2. Unspawned(k) /\ Owned(k) /\ InOnePlace(k) /\ Framed(k) /\ Awaited(k)
    BY DEF IInv
  <2>3. Unspawned(k)' /\ Owned(k)' /\ Framed(k)'
    BY <1>1, <1>4, <2>1, <2>2 DEF Unspawned, Owned, Framed
  <2>4. \/ /\ Head(t).what = "request" /\ Head(t) = Line(id)
           /\ work'[k] = work[k] \cup {id} /\ id \in issued(k) \ work[k]
        \/ Head(t).what # "request" /\ work'[k] = work[k]
    BY <1>2, <1>5, <2>2, LineFacts, SMTT(30) DEF InOnePlace, IInv, TypeOK
  <2> HIDE DEF t, id
  <2> DEFINE u == Tail(t)
  <2>5. stdin[k] = t /\ stdin'[k] = u
    BY <1>3 DEF t
  <2>6. InOnePlace(k)'
    <3>1. \A i \in DOMAIN u : u[i].what = "request" => u[i].id \in issued(k) \ work'[k]
      <4> SUFFICES ASSUME NEW i \in DOMAIN u, u[i].what = "request"
                   PROVE  u[i].id \in issued(k) \ work'[k]
        OBVIOUS
      <4>1. i + 1 \in DOMAIN t /\ u[i] = t[i + 1] /\ i + 1 # 1 /\ u[i] \in Input
        BY <1>2
      <4>2. u[i].id \in issued(k) \ work[k]
        BY <2>2, <2>5, <4>1 DEF InOnePlace
      <4>3. CASE Head(t).what = "request"
        <5>1. u[i].id # id
          BY <1>2, <2>2, <2>4, <2>5, <4>1, <4>3, LineFacts DEF InOnePlace
        <5> QED BY <2>4, <4>2, <4>3, <5>1
      <4>4. CASE Head(t).what # "request"
        BY <2>4, <4>2, <4>4
      <4> QED BY <4>3, <4>4
    <3>2. \A i, j \in DOMAIN u : u[i].what = "request" /\ u[i] = u[j] => i = j
      <4> SUFFICES ASSUME NEW i \in DOMAIN u, NEW j \in DOMAIN u, u[i].what = "request", u[i] = u[j]
                   PROVE  i = j
        OBVIOUS
      <4>1. i \in Int /\ j \in Int
        BY <1>2
      <4>2. i + 1 = j + 1
        BY <1>2, <2>2, <2>5 DEF InOnePlace
      <4> QED BY <4>1, <4>2
    <3>3. work'[k] \subseteq issued(k)
      BY <2>2, <2>4 DEF InOnePlace
    <3>4. \A i \in DOMAIN pipe(k) : /\ pipe(k)[i].id \in issued(k) \ work'[k]
                                    /\ \A j \in DOMAIN u : u[j] # Line(pipe(k)[i].id)
      <4> SUFFICES ASSUME NEW i \in DOMAIN pipe(k)
                   PROVE  /\ pipe(k)[i].id \in issued(k) \ work'[k]
                          /\ \A j \in DOMAIN u : u[j] # Line(pipe(k)[i].id)
        OBVIOUS
      <4>1. /\ pipe(k)[i].id \in issued(k) \ work[k]
            /\ \A j \in DOMAIN t : t[j] # Line(pipe(k)[i].id)
        BY <2>2, <2>5 DEF InOnePlace
      <4> QED BY <1>2, <2>4, <4>1
    <3> QED BY <2>1, <2>2, <2>5, <3>1, <3>2, <3>3, <3>4 DEF InOnePlace
  <2>7. Awaited(k)'
    <3> SUFFICES ASSUME NEW c \in DOMAIN callbacks[k]
                 PROVE  \/ c \in work'[k]
                        \/ \E i \in DOMAIN u : u[i] = Line(c)
                        \/ \E i \in DOMAIN pipe(k) : pipe(k)[i] = head(c)
      BY <1>1, <2>1, <2>5 DEF Awaited
    <3>1. CASE c \in work[k] \/ \E i \in DOMAIN pipe(k) : pipe(k)[i] = head(c)
      BY <2>4, <3>1
    <3>2. CASE \E i \in DOMAIN t : t[i] = Line(c)
      <4>1. PICK i \in DOMAIN t : t[i] = Line(c)
        BY <3>2
      <4>2. CASE i = 1
        <5>1. Head(t) = Line(c)
          BY <1>2, <4>1, <4>2
        <5>2. Head(t).what = "request" /\ Head(t).id = c
          BY <5>1, LineFacts
        <5> QED BY <2>4, <5>2 DEF id
      <4>3. CASE i # 1
        BY <1>2, <4>1, <4>3
      <4> QED BY <4>2, <4>3
    <3> QED BY <2>2, <2>5, <3>1, <3>2 DEF Awaited
  <2> QED BY <2>3, <2>6, <2>7
<1>10. \A n \in DOMAIN made' : Outcome(n)'
  BY <1>1 DEF IInv, Outcome, waits, queued, once, never
<1>11. ListenersBehind(loop)' /\ Ghost'
  BY <1>1 DEF IInv, ListenersBehind, Ghost
<1> QED BY <1>7, <1>8, <1>9, <1>10, <1>11 DEF IInv

\* Two sequences one behind the other, place by place.
LEMMA ConcatFacts ==
  ASSUME NEW S, NEW t \in Seq(S), NEW u \in Seq(S)
  PROVE  /\ t \o u \in Seq(S) /\ Len(t) \in Nat /\ Len(u) \in Nat /\ Len(t \o u) = Len(t) + Len(u)
         /\ DOMAIN t = 1 .. Len(t) /\ DOMAIN u = 1 .. Len(u) /\ DOMAIN (t \o u) = 1 .. Len(t) + Len(u)
         /\ \A i \in DOMAIN t : i \in DOMAIN (t \o u) /\ (t \o u)[i] = t[i]
         /\ \A i \in DOMAIN u : Len(t) + i \in DOMAIN (t \o u) /\ (t \o u)[Len(t) + i] = u[i]
         /\ \A i \in DOMAIN (t \o u) : \/ i \in DOMAIN t
                                       \/ i > Len(t) /\ i - Len(t) \in DOMAIN u
<1>1. Len(t) \in Nat /\ Len(u) \in Nat
  OBVIOUS
<1>2. /\ t \o u \in Seq(S) /\ Len(t \o u) = Len(t) + Len(u)
      /\ \A i \in 1 .. Len(t) + Len(u) : (t \o u)[i] = IF i <= Len(t) THEN t[i] ELSE u[i - Len(t)]
  BY ConcatProperties
<1>3. DOMAIN t = 1 .. Len(t) /\ DOMAIN u = 1 .. Len(u) /\ DOMAIN (t \o u) = 1 .. Len(t) + Len(u)
  BY <1>2
<1> DEFINE w == t \o u
<1> HIDE DEF w
<1>4. /\ \A i \in 1 .. Len(t) + Len(u) : w[i] = IF i <= Len(t) THEN t[i] ELSE u[i - Len(t)]
      /\ DOMAIN w = 1 .. Len(t) + Len(u)
  BY <1>2, <1>3 DEF w
<1>5. \A i \in DOMAIN u : Len(t) + i \in DOMAIN w /\ w[Len(t) + i] = u[i]
  <2> SUFFICES ASSUME NEW i \in 1 .. Len(u) PROVE Len(t) + i \in DOMAIN w /\ w[Len(t) + i] = u[i]
    BY <1>3
  <2>1. Len(t) + i \in 1 .. Len(t) + Len(u) /\ ~(Len(t) + i <= Len(t)) /\ (Len(t) + i) - Len(t) = i
    BY <1>1
  <2> QED BY <1>4, <2>1
<1>6. \A i \in DOMAIN t : i \in DOMAIN w /\ w[i] = t[i]
  BY <1>1, <1>3, <1>4
<1>7. \A i \in DOMAIN w : i \in DOMAIN t \/ (i > Len(t) /\ i - Len(t) \in DOMAIN u)
  BY <1>1, <1>3, <1>4
<1> QED BY <1>1, <1>2, <1>3, <1>5, <1>6, <1>7 DEF w

\* What is written goes to the end of the pipe.
LEMMA PipeFacts ==
  ASSUME TypeOK, NEW k \in Procs, NEW u \in Seq(Part)
  PROVE  pipe(k) \in Seq(Part) /\ buffer[k] \o (stdout[k] \o u) = pipe(k) \o u
<1>1. buffer[k] \in Seq(Part) /\ stdout[k] \in Seq(Part)
  BY DEF TypeOK
<1>2. buffer[k] \o stdout[k] \in Seq(Part)
  BY <1>1, ConcatProperties
<1>3. (buffer[k] \o stdout[k]) \o u = buffer[k] \o (stdout[k] \o u)
  <2>1. \A t, v, w \in Seq(Part) : (t \o v) \o w = t \o (v \o w)
    BY ConcatAssociative
  <2> QED BY <1>1, <2>1, Zenon
<1> QED BY <1>2, <1>3 DEF pipe

\* One line at the end of a pipe that has no part of it.
LEMMA LineAdded ==
  ASSUME NEW p \in Seq(Part), NEW id \in Nat, \A i \in DOMAIN p : p[i].id # id
  PROVE  /\ send(id) \in Seq(Part)
         /\ \A i \in DOMAIN p : i \in DOMAIN (p \o send(id)) /\ (p \o send(id))[i] = p[i]
         /\ Len(p) + 1 \in DOMAIN (p \o send(id)) /\ (p \o send(id))[Len(p) + 1] = head(id)
         /\ Len(p) + 2 \in DOMAIN (p \o send(id)) /\ (p \o send(id))[Len(p) + 2] = tail(id)
         /\ \A i \in DOMAIN (p \o send(id)) : i \in DOMAIN p \/ i = Len(p) + 1 \/ i = Len(p) + 2
         /\ \A i, j \in DOMAIN (p \o send(id)) :
              (p \o send(id))[i] = (p \o send(id))[j] => i = j \/ (i \in DOMAIN p /\ j \in DOMAIN p)
<1> DEFINE u == send(id)
           w == p \o u
<1>1. /\ u \in Seq(Part) /\ Len(u) = 2 /\ u[1] = head(id) /\ u[2] = tail(id)
  BY DEF send, head, tail, Part
<1>2. head(id) # tail(id) /\ head(id).id = id /\ tail(id).id = id
  BY DEF head, tail
<1> HIDE DEF u
<1>3. DOMAIN u = 1 .. 2
  BY <1>1
<1>4. /\ Len(p) \in Nat /\ DOMAIN p = 1 .. Len(p) /\ DOMAIN w = 1 .. Len(p) + 2
      /\ \A i \in DOMAIN p : i \in DOMAIN w /\ w[i] = p[i]
      /\ \A i \in DOMAIN u : Len(p) + i \in DOMAIN w /\ w[Len(p) + i] = u[i]
  <2>1. /\ Len(p) \in Nat /\ DOMAIN p = 1 .. Len(p) /\ DOMAIN w = 1 .. Len(p) + Len(u)
    <3>1. w \in Seq(Part) /\ Len(w) = Len(p) + Len(u)
      BY <1>1, ConcatProperties
    <3> QED BY <1>1, <3>1
  <2>2. \A i \in DOMAIN p : i \in DOMAIN w /\ w[i] = p[i]
    BY <1>1, ConcatFacts
  <2>3. \A i \in DOMAIN u : Len(p) + i \in DOMAIN w /\ w[Len(p) + i] = u[i]
    BY <1>1, ConcatFacts
  <2> QED BY <1>1, <2>1, <2>2, <2>3
<1>5. /\ Len(p) + 1 \in DOMAIN w /\ w[Len(p) + 1] = head(id)
      /\ Len(p) + 2 \in DOMAIN w /\ w[Len(p) + 2] = tail(id)
  BY <1>1, <1>3, <1>4
<1> HIDE DEF w
<1>6. \A i \in DOMAIN w : i \in DOMAIN p \/ i = Len(p) + 1 \/ i = Len(p) + 2
  BY <1>4
<1>7. \A i, j \in DOMAIN w : w[i] = w[j] => i = j \/ (i \in DOMAIN p /\ j \in DOMAIN p)
  <2> SUFFICES ASSUME NEW i \in DOMAIN w, NEW j \in DOMAIN w, w[i] = w[j]
               PROVE  i = j \/ (i \in DOMAIN p /\ j \in DOMAIN p)
    OBVIOUS
  <2>1. \A m \in DOMAIN p : w[m].id # id
    BY <1>4
  <2> QED BY <1>2, <1>5, <1>6, <2>1
<1> QED BY <1>1, <1>4, <1>5, <1>6, <1>7 DEF u, w

LEMMA AnswersStep == ASSUME IInv, NEW k \in Procs, Answers(k) PROVE IInv'
<1>1. UNCHANGED <<plugin, loop, sessions, node, stdin, close, failures>> /\ node[k] # "none"
  BY DEF Answers, Alive
<1> USE DEF plugin, sessions
<1>2. PICK id \in work[k] : /\ work' = [work EXCEPT ![k] = @ \ {id}]
                            /\ stdout' = [stdout EXCEPT ![k] = @ \o send(id)]
  BY DEF Answers
<1>3. Unspawned(k) /\ Owned(k) /\ InOnePlace(k) /\ Framed(k) /\ Awaited(k) /\ TypeOK
  BY DEF IInv
<1>4. id \in Nat /\ work \in [Procs -> SUBSET Nat] /\ stdout \in [Procs -> Seq(Part)]
  BY <1>3 DEF TypeOK
<1> DEFINE p == pipe(k)
           w == p \o send(id)
<1>5. \A i \in DOMAIN p : p[i].id # id
  BY <1>3 DEF InOnePlace
<1>6. send(id) \in Seq(Part)
  BY <1>4 DEF send, head, tail, Part
<1>7. p \in Seq(Part) /\ pipe(k)' = w
  BY <1>1, <1>2, <1>3, <1>4, <1>6, PipeFacts DEF pipe
<1>8. issued(k)' = issued(k) /\ work'[k] = work[k] \ {id} /\ stdin'[k] = stdin[k]
  BY <1>1, <1>2, <1>4 DEF issued, requestsOf
<1>9. TypeOK'
  <2>1. work' \in [Procs -> SUBSET Nat]
    BY <1>2, <1>4
  <2>2. stdout' \in [Procs -> Seq(Part)]
    BY <1>2, <1>4, <1>6, ConcatProperties
  <2> QED BY <1>1, <1>3, <2>1, <2>2 DEF TypeOK
<1>10. ASSUME NEW j \in Procs \ {k}
       PROVE  (Unspawned(j) /\ Owned(j) /\ InOnePlace(j) /\ Framed(j) /\ Awaited(j))'
  BY <1>1, <1>2, <1>4, Untouched
<1>11. Unspawned(k)' /\ Owned(k)'
  BY <1>1, <1>3, <1>8 DEF Unspawned, Owned
<1> HIDE DEF p
<1>12. /\ DOMAIN p = 1 .. Len(p) /\ Len(p) \in Nat
       /\ \A i \in DOMAIN p : i \in DOMAIN w /\ w[i] = p[i]
       /\ Len(p) + 1 \in DOMAIN w /\ w[Len(p) + 1] = head(id)
       /\ Len(p) + 2 \in DOMAIN w /\ w[Len(p) + 2] = tail(id)
       /\ \A i \in DOMAIN w : i \in DOMAIN p \/ i = Len(p) + 1 \/ i = Len(p) + 2
       /\ \A i, j \in DOMAIN w : w[i] = w[j] => i = j \/ (i \in DOMAIN p /\ j \in DOMAIN p)
  BY <1>4, <1>5, <1>7, LineAdded, SMTT(30)
<1> HIDE DEF w
<1>13. /\ head(id).id = id /\ tail(id).id = id /\ head(id).part = "head" /\ tail(id).part = "tail"
  BY DEF head, tail
<1>14. InOnePlace(k)'
  <2>1. \A i \in DOMAIN w : /\ w[i].id \in issued(k) \ work'[k]
                            /\ \A j \in DOMAIN stdin[k] : stdin[k][j] # Line(w[i].id)
    <3> SUFFICES ASSUME NEW i \in DOMAIN w
                 PROVE  /\ w[i].id \in issued(k) \ work'[k]
                        /\ \A j \in DOMAIN stdin[k] : stdin[k][j] # Line(w[i].id)
      OBVIOUS
    <3>1. CASE i \in DOMAIN p
      BY <1>3, <1>8, <1>12, <3>1 DEF InOnePlace, p
    <3>2. CASE w[i].id = id
      BY <1>3, <1>8, <3>2, LineFacts DEF InOnePlace
    <3> QED BY <1>12, <1>13, <3>1, <3>2
  <2>2. \A i, j \in DOMAIN w : w[i] = w[j] => i = j
    BY <1>3, <1>12 DEF InOnePlace, p
  <2> QED BY <1>3, <1>7, <1>8, <2>1, <2>2 DEF InOnePlace
<1>15. Framed(k)'
  <2> SUFFICES ASSUME running[k], NEW i \in DOMAIN w
               PROVE  /\ w[i].part = "head" => i + 1 \in DOMAIN w /\ w[i + 1] = tail(w[i].id)
                      /\ w[i].part = "tail" => i - 1 \in DOMAIN w /\ w[i - 1] = head(w[i].id)
    BY <1>1, <1>7 DEF Framed
  <2>1. CASE i \in DOMAIN p
    BY <1>3, <1>12, <2>1 DEF Framed, p
  <2>2. CASE i = Len(p) + 1
    BY <1>12, <1>13, <2>2
  <2>3. CASE i = Len(p) + 2
    BY <1>12, <1>13, <2>3
  <2> QED BY <1>12, <2>1, <2>2, <2>3
<1>16. Awaited(k)'
  <2> SUFFICES ASSUME NEW c \in DOMAIN callbacks[k]
               PROVE  \/ c \in work'[k]
                      \/ \E i \in DOMAIN stdin[k] : stdin[k][i] = Line(c)
                      \/ \E i \in DOMAIN w : w[i] = head(c)
    BY <1>1, <1>7, <1>8 DEF Awaited
  <2>1. CASE c = id
    BY <1>12, <2>1
  <2>2. CASE c # id
    BY <1>3, <1>8, <1>12, <2>2 DEF Awaited, p
  <2> QED BY <2>1, <2>2
<1>17. \A n \in DOMAIN made' : Outcome(n)'
  BY <1>1 DEF IInv, Outcome, waits, queued, once, never
<1>18. ListenersBehind(loop)' /\ Ghost'
  BY <1>1 DEF IInv, ListenersBehind, Ghost
<1> QED BY <1>9, <1>10, <1>11, <1>14, <1>15, <1>16, <1>17, <1>18 DEF IInv

-----------------------------------------------------------------------------
(* The queue of the main loop. *)

\* The callbacks m are scheduled behind those of l.
LEMMA QueuedConcat ==
  ASSUME NEW l \in Seq(Item), NEW m \in Seq(Item), NEW n
  PROVE  /\ never(n, m) => /\ never(n, l) => never(n, l \o m)
                           /\ once(n, l) => once(n, l \o m)
         /\ never(n, l) /\ once(n, m) => once(n, l \o m)
<1> DEFINE u == l \o m
<1>1. /\ Len(l) \in Nat /\ DOMAIN l = 1 .. Len(l)
      /\ \A i \in DOMAIN l : i \in DOMAIN u /\ u[i] = l[i]
      /\ \A i \in DOMAIN m : Len(l) + i \in DOMAIN u /\ u[Len(l) + i] = m[i]
      /\ \A i \in DOMAIN u : i \in DOMAIN l \/ (i > Len(l) /\ i - Len(l) \in DOMAIN m)
      /\ DOMAIN u \subseteq Int
  <2>1. \A t, v \in Seq(Item) :
          /\ Len(t) \in Nat /\ DOMAIN t = 1 .. Len(t) /\ DOMAIN (t \o v) \subseteq Int
          /\ \A i \in DOMAIN t : i \in DOMAIN (t \o v) /\ (t \o v)[i] = t[i]
          /\ \A i \in DOMAIN v : Len(t) + i \in DOMAIN (t \o v) /\ (t \o v)[Len(t) + i] = v[i]
          /\ \A i \in DOMAIN (t \o v) : i \in DOMAIN t \/ (i > Len(t) /\ i - Len(t) \in DOMAIN v)
    <3> SUFFICES ASSUME NEW t \in Seq(Item), NEW v \in Seq(Item)
                 PROVE  /\ Len(t) \in Nat /\ DOMAIN t = 1 .. Len(t) /\ DOMAIN (t \o v) \subseteq Int
                        /\ \A i \in DOMAIN t : i \in DOMAIN (t \o v) /\ (t \o v)[i] = t[i]
                        /\ \A i \in DOMAIN v : Len(t) + i \in DOMAIN (t \o v) /\ (t \o v)[Len(t) + i] = v[i]
                        /\ \A i \in DOMAIN (t \o v) : i \in DOMAIN t \/ (i > Len(t) /\ i - Len(t) \in DOMAIN v)
      OBVIOUS
    <3>1. \A i \in DOMAIN (t \o v) : i \in DOMAIN t \/ (i > Len(t) /\ i - Len(t) \in DOMAIN v)
      BY ConcatFacts
    <3>2. \A i \in DOMAIN t : i \in DOMAIN (t \o v) /\ (t \o v)[i] = t[i]
      BY ConcatFacts
    <3>3. \A i \in DOMAIN v : Len(t) + i \in DOMAIN (t \o v) /\ (t \o v)[Len(t) + i] = v[i]
      BY ConcatFacts
    <3>4. t \o v \in Seq(Item)
      BY ConcatProperties
    <3>5. DOMAIN (t \o v) \subseteq Int /\ Len(t) \in Nat /\ DOMAIN t = 1 .. Len(t)
      BY <3>4
    <3> QED BY <3>1, <3>2, <3>3, <3>5
  <2> QED BY <2>1 DEF u
<1> HIDE DEF u
<1>2. ASSUME queued(n, m) = {} PROVE queued(n, u) = queued(n, l)
  <2>1. \A i \in queued(n, u) : i \in queued(n, l)
    <3> SUFFICES ASSUME NEW i \in queued(n, u) PROVE i \in queued(n, l)
      OBVIOUS
    <3>1. i \in DOMAIN u /\ u[i].what = "call" /\ u[i].n = n
      BY DEF queued
    <3>2. CASE i \in DOMAIN l
      BY <1>1, <3>1, <3>2 DEF queued
    <3>3. CASE i > Len(l) /\ i - Len(l) \in DOMAIN m
      <4>1. Len(l) + (i - Len(l)) = i
        BY <1>1, <3>1
      <4>2. i - Len(l) \in queued(n, m)
        BY <1>1, <3>1, <3>3, <4>1 DEF queued
      <4> QED BY <1>2, <4>2
    <3> QED BY <1>1, <3>1, <3>2, <3>3
  <2>2. \A i \in queued(n, l) : i \in queued(n, u)
    BY <1>1 DEF queued
  <2> QED BY <2>1, <2>2
<1>3. ASSUME queued(n, l) = {}, NEW i \in DOMAIN m, queued(n, m) = {i}
      PROVE  queued(n, u) = {Len(l) + i}
  <2>1. i \in DOMAIN m /\ m[i].what = "call" /\ m[i].n = n
    BY <1>3 DEF queued
  <2>2. Len(l) + i \in queued(n, u)
    BY <1>1, <2>1 DEF queued
  <2>3. \A j \in queued(n, u) : j = Len(l) + i
    <3> SUFFICES ASSUME NEW j \in queued(n, u) PROVE j = Len(l) + i
      OBVIOUS
    <3>1. j \in DOMAIN u /\ u[j].what = "call" /\ u[j].n = n /\ j \in Int
      BY <1>1 DEF queued
    <3>2. j \notin DOMAIN l
      BY <1>1, <1>3, <3>1 DEF queued
    <3>3. j - Len(l) \in DOMAIN m /\ Len(l) + (j - Len(l)) = j
      BY <1>1, <3>1, <3>2
    <3>4. j - Len(l) \in queued(n, m)
      BY <1>1, <3>1, <3>3 DEF queued
    <3>5. j - Len(l) = i
      BY <1>3, <3>4
    <3> QED BY <3>3, <3>5
  <2> QED BY <2>2, <2>3
<1>4. \A i \in DOMAIN m : Len(l) + i \in DOMAIN u
  BY <1>1
<1>5. DOMAIN l \subseteq DOMAIN u
  BY <1>1
<1> QED BY <1>2, <1>3, <1>4, <1>5 DEF u, once, never

\* The oldest callback is taken.
LEMMA QueuedTail ==
  ASSUME NEW l \in Seq(Item), l # <<>>, NEW n
  PROVE  /\ never(n, l) => never(n, Tail(l))
         /\ ~(Head(l).what = "call" /\ Head(l).n = n) => (once(n, l) => once(n, Tail(l)))
         /\ Head(l).what = "call" /\ Head(l).n = n => ~never(n, l) /\ (once(n, l) => never(n, Tail(l)))
<1> DEFINE u == Tail(l)
<1>1. /\ Head(l) = l[1] /\ DOMAIN l = 1 .. Len(l) /\ 1 \in DOMAIN l
      /\ \A i \in DOMAIN u : i + 1 \in DOMAIN l /\ u[i] = l[i + 1] /\ i + 1 # 1
      /\ \A i \in DOMAIN l : i = 1 \/ (i - 1 \in DOMAIN u /\ u[i - 1] = l[i])
  BY TailFacts
<1>2. DOMAIN u \subseteq Int /\ DOMAIN l \subseteq Int
  <2>1. u \in Seq(Item)
    BY TailFacts
  <2> QED BY <2>1
<1> HIDE DEF u
<1>3. \A i \in queued(n, u) : i \in Int /\ i + 1 \in queued(n, l) /\ i + 1 # 1
  BY <1>1, <1>2 DEF queued
<1>4. \A i \in queued(n, l) : i \in Int /\ (i = 1 \/ i - 1 \in queued(n, u))
  BY <1>1, <1>2 DEF queued
<1>5. Head(l).what = "call" /\ Head(l).n = n <=> 1 \in queued(n, l)
  BY <1>1 DEF queued
<1>6. ASSUME NEW i, queued(n, l) = {i}, 1 \notin queued(n, l)
      PROVE  queued(n, u) = {i - 1} /\ i - 1 \in DOMAIN u
  <2>1. i \in Int /\ i # 1 /\ i - 1 \in queued(n, u)
    BY <1>4, <1>6
  <2>2. \A j \in queued(n, u) : j = i - 1
    <3> SUFFICES ASSUME NEW j \in queued(n, u) PROVE j = i - 1
      OBVIOUS
    <3>1. j \in Int /\ j + 1 = i
      BY <1>3, <1>6
    <3> QED BY <3>1
  <2> QED BY <2>1, <2>2 DEF queued
<1>7. ASSUME NEW i, queued(n, l) = {i}, 1 \in queued(n, l) PROVE queued(n, u) = {}
  BY <1>3, <1>7
<1>8. never(n, l) => never(n, u)
  BY <1>3 DEF never
<1>9. ASSUME once(n, l), 1 \notin queued(n, l) PROVE once(n, u)
  BY <1>6, <1>9 DEF once
<1>10. ASSUME once(n, l), 1 \in queued(n, l) PROVE never(n, u)
  BY <1>7, <1>10 DEF once, never
<1> QED BY <1>5, <1>8, <1>9, <1>10 DEF u, never

\* Behind the callbacks already scheduled there come others, with listeners behind them
\* if a process exits.
LEMMA BehindConcat ==
  ASSUME IInv, NEW m \in Seq(Item), loop' = loop \o m, made' = made,
         running' = running \/ \E j \in DOMAIN m : m[j] = Listener,
         \A i \in DOMAIN m : m[i].what = "call" =>
            /\ m[i].n \in DOMAIN made
            /\ m[i].ok => running'[made[m[i].n].proc] \/ \E j \in DOMAIN m : j > i /\ m[j] = Listener
  PROVE  ListenersBehind(loop)'
<1> DEFINE u == loop \o m
<1>1. loop \in Seq(Item) /\ ListenersBehind(loop)
  BY DEF IInv, TypeOK
<1>2. /\ Len(loop) \in Nat /\ DOMAIN loop = 1 .. Len(loop)
      /\ \A i \in DOMAIN loop : i \in DOMAIN u /\ u[i] = loop[i]
      /\ \A i \in DOMAIN m : Len(loop) + i \in DOMAIN u /\ u[Len(loop) + i] = m[i]
      /\ \A i \in DOMAIN u : i \in DOMAIN loop \/ (i > Len(loop) /\ i - Len(loop) \in DOMAIN m)
  <2>1. \A i \in DOMAIN u : i \in DOMAIN loop \/ (i > Len(loop) /\ i - Len(loop) \in DOMAIN m)
    BY <1>1, ConcatFacts
  <2>2. \A i \in DOMAIN loop : i \in DOMAIN u /\ u[i] = loop[i]
    BY <1>1, ConcatFacts
  <2>3. \A i \in DOMAIN m : Len(loop) + i \in DOMAIN u /\ u[Len(loop) + i] = m[i]
    BY <1>1, ConcatFacts
  <2> QED BY <1>1, <2>1, <2>2, <2>3
<1>3. DOMAIN u \subseteq Int /\ DOMAIN m \subseteq Int
  <2>1. u \in Seq(Item)
    BY <1>1, ConcatProperties
  <2> QED BY <2>1
<1> HIDE DEF u
<1> SUFFICES ASSUME NEW i \in DOMAIN u, u[i].what = "call"
             PROVE  /\ u[i].n \in DOMAIN made
                    /\ u[i].ok => running'[made[u[i].n].proc] \/ \E j \in DOMAIN u : j > i /\ u[j] = Listener
  BY DEF ListenersBehind, u
<1>4. CASE i \in DOMAIN loop
  <2>1. /\ u[i].n \in DOMAIN made
        /\ u[i].ok => running[made[u[i].n].proc] \/ \E j \in DOMAIN loop : j > i /\ loop[j] = Listener
    BY <1>1, <1>2, <1>4 DEF ListenersBehind
  <2>2. CASE running' = running
    BY <1>2, <2>1, <2>2
  <2>3. CASE \E j \in DOMAIN m : m[j] = Listener
    <3>1. PICK j \in DOMAIN m : m[j] = Listener
      BY <2>3
    <3>2. Len(loop) + j \in DOMAIN u /\ u[Len(loop) + j] = Listener
      BY <1>2, <3>1
    <3>3. j \in 1 .. Len(m)
      OBVIOUS
    <3>4. Len(loop) + j > i
      BY <1>2, <1>4, <3>3
    <3> QED BY <2>1, <3>2, <3>4
  <2> QED BY <2>2, <2>3
<1>5. CASE i > Len(loop) /\ i - Len(loop) \in DOMAIN m
  <2> DEFINE h == i - Len(loop)
  <2>1. h \in DOMAIN m /\ h \in Int /\ i \in Int /\ Len(loop) + h = i
    BY <1>2, <1>3, <1>5
  <2> HIDE DEF h
  <2>2. u[i] = m[h]
    BY <1>2, <2>1
  <2>3. /\ u[i].n \in DOMAIN made
        /\ u[i].ok => running'[made[u[i].n].proc] \/ \E j \in DOMAIN m : j > h /\ m[j] = Listener
    BY <2>1, <2>2
  <2>4. ASSUME NEW j \in DOMAIN m, j > h, m[j] = Listener
        PROVE  \E g \in DOMAIN u : g > i /\ u[g] = Listener
    <3>1. Len(loop) + j \in DOMAIN u /\ u[Len(loop) + j] = Listener
      BY <1>2, <2>4
    <3>2. Len(loop) + j > i
      BY <1>2, <1>3, <2>1, <2>4
    <3> QED BY <3>1, <3>2
  <2> QED BY <2>3, <2>4
<1> QED BY <1>2, <1>4, <1>5

\* Some callbacks leave their process for the queue, each once.
LEMMA CallsMoved ==
  ASSUME IInv, NEW k \in Procs, NEW gone \in SUBSET DOMAIN callbacks[k], NEW m \in Seq(Item),
         loop' = loop \o m, made' = made,
         \A j \in Procs \ {k} : callbacks'[j] = callbacks[j],
         DOMAIN callbacks'[k] = DOMAIN callbacks[k] \ gone,
         \A id \in DOMAIN callbacks'[k] : callbacks'[k][id] = callbacks[k][id],
         \A id \in gone : once(callbacks[k][id], m),
         \A n : (\A id \in gone : callbacks[k][id] # n) => never(n, m)
  PROVE  \A n \in DOMAIN made' : Outcome(n)'
<1> SUFFICES ASSUME NEW n \in DOMAIN made PROVE Outcome(n)'
  OBVIOUS
<1>1. Outcome(n) /\ Owned(k) /\ loop \in Seq(Item) /\ made \in Seq(Ask)
  BY DEF IInv, TypeOK
<1>2. made[n].proc \in Procs
  <2>1. made[n] \in Ask
    BY <1>1
  <2> QED BY <2>1 DEF Ask
<1>3. CASE \E id \in gone : callbacks[k][id] = n
  <2>1. PICK id \in gone : callbacks[k][id] = n
    BY <1>3
  <2>2. made[n].proc = k
    BY <1>1, <2>1 DEF Owned
  <2>3. waits(n) /\ never(n, loop) /\ made[n].calls = 0
    BY <1>1, <2>1, <2>2 DEF Outcome, waits
  <2>4. ~waits(n)'
    <3>1. \A other \in DOMAIN callbacks'[k] : callbacks'[k][other] # n
      BY <1>1, <2>1 DEF Owned
    <3> QED BY <2>2, <3>1 DEF waits
  <2>5. once(n, loop \o m)
    BY <1>1, <2>1, <2>3, QueuedConcat
  <2>6. once(n, loop)'
    BY <2>5 DEF once, queued
  <2> QED BY <2>3, <2>4, <2>6 DEF Outcome
<1>4. CASE \A id \in gone : callbacks[k][id] # n
  <2>1. (never(n, loop) => never(n, loop \o m)) /\ (once(n, loop) => once(n, loop \o m))
    BY <1>1, <1>4, QueuedConcat
  <2>2. waits(n)' <=> waits(n)
    <3>1. CASE made[n].proc = k
      <4>1. (\E id \in DOMAIN callbacks'[k] : callbacks'[k][id] = n)
              <=> (\E id \in DOMAIN callbacks[k] : callbacks[k][id] = n)
        BY <1>4
      <4> QED BY <3>1, <4>1 DEF waits
    <3>2. CASE made[n].proc # k
      BY <1>2, <3>2 DEF waits
    <3> QED BY <3>1, <3>2
  <2>3. (never(n, loop)' <=> never(n, loop \o m)) /\ (once(n, loop)' <=> once(n, loop \o m))
    BY DEF never, once, queued
  <2> QED BY <1>1, <2>1, <2>2, <2>3 DEF Outcome
<1> QED BY <1>3, <1>4

LEMMA ScheduledStep == ASSUME IInv, Scheduled PROVE IInv'
<1> DEFINE e == Head(loop)
           u == Tail(loop)
<1>1. UNCHANGED <<plugin, session, child, failures>> /\ loop' = u /\ loop # <<>>
  BY DEF Scheduled
<1> USE DEF plugin, child
<1>2. loop \in Seq(Item) /\ made \in Seq(Ask) /\ TypeOK /\ ListenersBehind(loop) /\ Ghost
  BY DEF IInv, TypeOK
<1>3. /\ u \in Seq(Item) /\ e = loop[1] /\ e \in Item
      /\ DOMAIN loop = 1 .. Len(loop) /\ 1 \in DOMAIN loop
      /\ \A i \in DOMAIN u : i + 1 \in DOMAIN loop /\ u[i] = loop[i + 1] /\ i + 1 # 1
      /\ \A i \in DOMAIN loop : i = 1 \/ (i - 1 \in DOMAIN u /\ u[i - 1] = loop[i])
  BY <1>1, <1>2, TailFacts
<1>4. \/ e.what = "listener" /\ selection' = 0 /\ made' = made
      \/ /\ e.what = "call" /\ e.n \in DOMAIN made
         /\ made' = [made EXCEPT ![e.n].calls = @ + 1]
         /\ selection' = IF e.ok /\ made[e.n].session = session THEN made[e.n].proc ELSE selection
  BY <1>2, <1>3 DEF Scheduled, ListenersBehind
<1>5. \A n \in DOMAIN made : made[n] \in Ask
  BY <1>2
<1>6. /\ made' \in Seq(Ask) /\ DOMAIN made' = DOMAIN made
      /\ \A n \in DOMAIN made :
           /\ made'[n].proc = made[n].proc
           /\ made'[n].calls = IF e.what = "call" /\ n = e.n THEN made[n].calls + 1 ELSE made[n].calls
  <2>1. CASE made' = made /\ e.what = "listener"
    BY <1>2, <2>1
  <2>2. CASE e.what = "call" /\ e.n \in DOMAIN made /\ made' = [made EXCEPT ![e.n].calls = @ + 1]
    <3>1. made[e.n] \in Ask
      BY <1>5, <2>2
    <3>2. [made[e.n] EXCEPT !.calls = @ + 1] \in Ask
      BY <3>1 DEF Ask
    <3>3. made' = [made EXCEPT ![e.n] = [made[e.n] EXCEPT !.calls = @ + 1]]
      BY <2>2
    <3>4. made' \in Seq(Ask) /\ DOMAIN made' = DOMAIN made
      BY <1>2, <2>2, <3>2, <3>3
    <3>5. \A n \in DOMAIN made : made'[n] = IF n = e.n THEN [made[n] EXCEPT !.calls = @ + 1] ELSE made[n]
      BY <1>2, <2>2, <3>3
    <3> QED BY <1>5, <2>2, <3>4, <3>5 DEF Ask
  <2> QED BY <1>4, <2>1, <2>2
<1>7. selection' \in Procs \cup {0}
  <2>1. \A n \in DOMAIN made : made[n].proc \in Procs
    BY <1>5 DEF Ask
  <2> HIDE DEF e
  <2> QED BY <1>2, <1>4, <2>1 DEF TypeOK
<1>8. TypeOK'
  BY <1>1, <1>2, <1>3, <1>6, <1>7 DEF TypeOK
<1>9. ASSUME NEW k \in Procs
      PROVE  (Unspawned(k) /\ Owned(k) /\ InOnePlace(k) /\ Framed(k) /\ Awaited(k))'
  <2>1. requestsOf(k)' = requestsOf(k)
    BY <1>6 DEF requestsOf
  <2> QED BY <1>1, <1>6, <2>1, Aside
<1>10. \A n \in DOMAIN made' : Outcome(n)'
  <2> SUFFICES ASSUME NEW n \in DOMAIN made PROVE Outcome(n)'
    BY <1>6
  <2>1. Outcome(n)
    BY DEF IInv
  <2>2. waits(n)' <=> waits(n)
    BY <1>1, <1>6 DEF waits
  <2>3. PICK l \in Seq(Item) : l = loop
    BY <1>2
  <2>4. /\ never(n, loop)' <=> never(n, Tail(l))
        /\ once(n, loop)' <=> once(n, Tail(l))
        /\ never(n, loop) <=> never(n, l)
        /\ once(n, loop) <=> once(n, l)
    BY <1>1, <2>3 DEF never, once, queued
  <2>5. CASE e.what = "call" /\ e.n = n
    <3>1. ~never(n, l) /\ (once(n, l) => never(n, Tail(l)))
      BY <1>1, <2>3, <2>5, QueuedTail
    <3> QED BY <1>6, <2>1, <2>2, <2>4, <2>5, <3>1 DEF Outcome
  <2>6. CASE ~(e.what = "call" /\ e.n = n)
    <3>1. (never(n, l) => never(n, Tail(l))) /\ (once(n, l) => once(n, Tail(l)))
      BY <1>1, <2>3, <2>6, QueuedTail
    <3>2. made'[n].calls = made[n].calls
      BY <1>6, <2>6
    <3> QED BY <2>1, <2>2, <2>4, <3>1, <3>2 DEF Outcome
  <2> QED BY <2>5, <2>6
<1> HIDE DEF u, e
<1>11. DOMAIN loop \subseteq Int /\ DOMAIN u \subseteq Int
  BY <1>2, <1>3
<1>12. \A i \in DOMAIN loop : (\E j \in DOMAIN loop : j > i /\ loop[j] = Listener)
                               => \E j \in DOMAIN u : j > i - 1 /\ u[j] = Listener
  <2> SUFFICES ASSUME NEW i \in DOMAIN loop, NEW j \in DOMAIN loop, j > i, loop[j] = Listener
               PROVE  \E h \in DOMAIN u : h > i - 1 /\ u[h] = Listener
    OBVIOUS
  <2>1. i >= 1 /\ j # 1
    BY <1>3, <1>11
  <2>2. j - 1 \in DOMAIN u /\ u[j - 1] = Listener /\ j - 1 > i - 1
    BY <1>3, <1>11, <2>1
  <2> QED BY <2>2
<1>13. ListenersBehind(loop)'
  <2> SUFFICES ASSUME NEW i \in DOMAIN u, u[i].what = "call"
               PROVE  /\ u[i].n \in DOMAIN made
                      /\ u[i].ok => \/ running[made'[u[i].n].proc]
                                    \/ \E j \in DOMAIN u : j > i /\ u[j] = Listener
    BY <1>1, <1>6 DEF ListenersBehind
  <2>1. i + 1 \in DOMAIN loop /\ u[i] = loop[i + 1] /\ i \in Int /\ (i + 1) - 1 = i
    BY <1>3, <1>11
  <2>2. /\ u[i].n \in DOMAIN made
        /\ u[i].ok => running[made[u[i].n].proc] \/ \E j \in DOMAIN loop : j > i + 1 /\ loop[j] = Listener
    BY <1>2, <2>1 DEF ListenersBehind
  <2>3. (\E j \in DOMAIN loop : j > i + 1 /\ loop[j] = Listener)
          => \E j \in DOMAIN u : j > i /\ u[j] = Listener
    BY <1>12, <2>1
  <2> QED BY <1>6, <2>2, <2>3
<1>14. Ghost'
  <2>1. CASE selection' = 0
    BY <2>1 DEF Ghost
  <2>2. CASE e.what = "call" /\ selection' = selection
    <3>1. \A i \in DOMAIN loop : loop[i] = Listener => i # 1
      BY <1>3, <2>2 DEF Listener
    <3>2. (\E i \in DOMAIN loop : loop[i] = Listener) => \E i \in DOMAIN u : u[i] = Listener
      BY <1>3, <3>1
    <3> QED BY <1>1, <1>2, <2>2, <3>2 DEF Ghost
  <2>3. CASE e.what = "call" /\ e.n \in DOMAIN made /\ e.ok /\ selection' = made[e.n].proc
    <3>1. running[made[e.n].proc] \/ \E j \in DOMAIN loop : j > 1 /\ loop[j] = Listener
      BY <1>2, <1>3, <2>3 DEF ListenersBehind
    <3>2. (\E j \in DOMAIN loop : j > 1 /\ loop[j] = Listener) => \E i \in DOMAIN u : u[i] = Listener
      BY <1>3, <1>12
    <3> QED BY <1>1, <2>3, <3>1, <3>2 DEF Ghost
  <2> QED BY <1>4, <2>1, <2>2, <2>3
<1> QED BY <1>8, <1>9, <1>10, <1>13, <1>14 DEF IInv

-----------------------------------------------------------------------------
(* Callbacks go to the queue: a failed write, an exit. *)

\* Where the process keeps its pipes, what is left of its callbacks is still in order.
LEMMA CallbacksLeft ==
  ASSUME IInv, NEW k \in Procs, made' = made, DOMAIN callbacks'[k] \subseteq DOMAIN callbacks[k],
         \A id \in DOMAIN callbacks'[k] : callbacks'[k][id] = callbacks[k][id],
         running'[k] \/ callbacks'[k] = <<>>
  PROVE  Owned(k)'
<1>1. Owned(k) /\ issued(k)' = issued(k)
  BY DEF IInv, issued, requestsOf
<1> QED BY <1>1 DEF Owned

\* A callback of a request that is waited for is one.
LEMMA CallIsItem ==
  ASSUME IInv, NEW k \in Procs, NEW id \in DOMAIN callbacks[k], NEW ok \in BOOLEAN
  PROVE  /\ Call(callbacks[k][id], ok) \in Item
         /\ callbacks[k][id] \in DOMAIN made /\ callbacks[k][id] \in Nat
<1>1. callbacks[k] \in [DOMAIN callbacks[k] -> DOMAIN made] /\ made \in Seq(Ask)
  BY DEF IInv, TypeOK
<1>2. DOMAIN made \subseteq Nat
  BY <1>1
<1>3. callbacks[k][id] \in DOMAIN made /\ callbacks[k][id] \in Nat
  BY <1>1, <1>2
<1> QED BY <1>3 DEF Call, Item

LEMMA WriteFailsStep == ASSUME IInv, NEW k \in Procs, WriteFails(k) PROVE IInv'
<1>1. /\ UNCHANGED <<instance, running, buffer, timer, leaving, leaver, sessions, child, failures>>
      /\ running[k]
  BY DEF WriteFails
<1> USE DEF sessions, child
<1>2. PICK id \in DOMAIN callbacks[k] :
        /\ callbacks' = [callbacks EXCEPT ![k] = Restrict(@, DOMAIN @ \ {id})]
        /\ loop' = Append(loop, Call(callbacks[k][id], FALSE))
  BY DEF WriteFails
<1>3. Unspawned(k) /\ Owned(k) /\ InOnePlace(k) /\ Framed(k) /\ Awaited(k) /\ TypeOK
  BY DEF IInv
<1> DEFINE n == callbacks[k][id]
           m == <<Call(n, FALSE)>>
<1>4. /\ n \in DOMAIN made /\ n \in Nat /\ Call(n, FALSE) \in Item
      /\ loop \in Seq(Item)
  <2>1. loop \in Seq(Item)
    BY <1>3 DEF TypeOK
  <2> QED BY <2>1, CallIsItem
<1>5. m \in Seq(Item) /\ DOMAIN m = {1} /\ m[1] = Call(n, FALSE) /\ Call(n, FALSE) \in Item
  BY <1>4 DEF Call, Item
<1>6. loop' = loop \o m
  <2>1. \A l \in Seq(Item) : \A x \in Item : Append(l, x) = l \o <<x>>
    BY AppendIsConcat
  <2> QED BY <1>2, <1>4, <1>5, <2>1
<1>7. /\ DOMAIN callbacks' = Procs
      /\ \A j \in Procs \ {k} : callbacks'[j] = callbacks[j]
      /\ callbacks'[k] = [i \in DOMAIN callbacks[k] \ {id} |-> callbacks[k][i]]
  BY <1>2, <1>3 DEF TypeOK, Restrict
<1>8. /\ DOMAIN callbacks'[k] = DOMAIN callbacks[k] \ {id}
      /\ \A i \in DOMAIN callbacks'[k] : callbacks'[k][i] = callbacks[k][i]
  BY <1>7
<1>9. TypeOK'
  <2>1. \A j \in Procs : /\ callbacks'[j] \in [DOMAIN callbacks'[j] -> DOMAIN made]
                         /\ DOMAIN callbacks'[j] \subseteq Nat
    <3> SUFFICES ASSUME NEW j \in Procs
                 PROVE  /\ callbacks'[j] \in [DOMAIN callbacks'[j] -> DOMAIN made]
                        /\ DOMAIN callbacks'[j] \subseteq Nat
      OBVIOUS
    <3>0. callbacks[j] \in [DOMAIN callbacks[j] -> DOMAIN made] /\ DOMAIN callbacks[j] \subseteq Nat
      BY <1>3 DEF TypeOK
    <3>1. CASE j = k
      BY <1>7, <3>0, <3>1
    <3>2. CASE j # k
      BY <1>7, <3>0, <3>2
    <3> QED BY <3>1, <3>2
  <2>2. loop' \in Seq(Item)
    BY <1>4, <1>5, <1>6, ConcatProperties
  <2> HIDE DEF m, n
  <2> QED BY <1>1, <1>3, <1>7, <2>1, <2>2 DEF TypeOK
<1>10. ASSUME NEW j \in Procs \ {k}
       PROVE  (Unspawned(j) /\ Owned(j) /\ InOnePlace(j) /\ Framed(j) /\ Awaited(j))'
  BY <1>1, <1>7, Untouched
<1>11. (Unspawned(k) /\ Owned(k) /\ InOnePlace(k) /\ Framed(k) /\ Awaited(k))'
  <2>1. pipe(k)' = pipe(k) /\ issued(k)' = issued(k)
    BY <1>1 DEF pipe, issued, requestsOf
  <2>2. Owned(k)'
    BY <1>1, <1>8, CallbacksLeft
  <2>3. Unspawned(k)'
    BY <1>1, <1>3 DEF Unspawned
  <2>4. InOnePlace(k)' /\ Framed(k)'
    BY <1>1, <1>3, <2>1 DEF InOnePlace, Framed
  <2>5. Awaited(k)'
    BY <1>1, <1>3, <1>8, <2>1 DEF Awaited
  <2> QED BY <2>2, <2>3, <2>4, <2>5
<1>12. \A x \in DOMAIN made' : Outcome(x)'
  <2>1. once(n, m)
    BY <1>5 DEF queued, once, Call
  <2>2. \A x : n # x => never(x, m)
    BY <1>5 DEF queued, never, Call
  <2> DEFINE gone == {id}
  <2>6. /\ gone \in SUBSET DOMAIN callbacks[k] /\ DOMAIN callbacks'[k] = DOMAIN callbacks[k] \ gone
        /\ \A c \in gone : once(callbacks[k][c], m)
        /\ \A x : (\A c \in gone : callbacks[k][c] # x) => never(x, m)
    BY <1>8, <2>1, <2>2
  <2>7. /\ made' = made /\ m \in Seq(Item)
        /\ \A j \in Procs \ {k} : callbacks'[j] = callbacks[j]
        /\ \A c \in DOMAIN callbacks'[k] : callbacks'[k][c] = callbacks[k][c]
    BY <1>1, <1>5, <1>7, <1>8
  <2> HIDE DEF m, n, gone
  <2> QED BY <1>6, <2>6, <2>7, CallsMoved
<1>13. ListenersBehind(loop)'
  <2>2. Call(n, FALSE).n = n /\ Call(n, FALSE).ok = FALSE
    BY DEF Call
  <2> HIDE DEF m, n
  <2>1. \A i \in DOMAIN m : m[i] = Call(n, FALSE)
    BY <1>5
  <2> QED BY <1>1, <1>4, <1>5, <1>6, <2>1, <2>2, BehindConcat
<1>14. Ghost'
  <2>1. \A i \in DOMAIN loop : i \in DOMAIN (loop \o m) /\ (loop \o m)[i] = loop[i]
    BY <1>4, <1>5, ConcatFacts
  <2> HIDE DEF m, n
  <2> QED BY <1>1, <1>6, <2>1 DEF IInv, Ghost
<1> QED BY <1>9, <1>10, <1>11, <1>12, <1>13, <1>14 DEF IInv

\* The queue m has a callback of each of the ids gone, as ids has them.
CallsOf(k, gone, ids, m, ok) ==
  /\ gone \subseteq DOMAIN callbacks[k] /\ m \in Seq(Item)
  /\ \A j \in DOMAIN m : ids[j] \in gone /\ m[j] = Call(callbacks[k][ids[j]], ok)
  /\ \A i, j \in DOMAIN m : ids[i] = ids[j] => i = j
  /\ \A id \in gone : \E j \in DOMAIN m : ids[j] = id

\* Each is of a request of the process.
LEMMA CallsFacts ==
  ASSUME IInv, NEW k \in Procs, NEW gone, NEW ids, NEW m, NEW ok, CallsOf(k, gone, ids, m, ok),
         NEW i \in DOMAIN m
  PROVE  /\ m[i].what = "call" /\ m[i].n = callbacks[k][ids[i]] /\ ids[i] \in gone
         /\ m[i].n \in DOMAIN made /\ made[m[i].n].proc = k
<1>1. Owned(k)
  BY DEF IInv
<1>2. ids[i] \in DOMAIN callbacks[k] /\ ids[i] \in gone /\ m[i] = Call(callbacks[k][ids[i]], ok)
  BY DEF CallsOf
<1>3. callbacks[k][ids[i]] \in DOMAIN made
  BY <1>2, CallIsItem
<1>4. m[i].what = "call" /\ m[i].n = callbacks[k][ids[i]]
  BY <1>2 DEF Call
<1> QED BY <1>1, <1>2, <1>3, <1>4 DEF Owned

\* Each of these requests has one, and no other has any.
LEMMA CallsOnce ==
  ASSUME IInv, NEW k \in Procs, NEW gone, NEW ids, NEW m, NEW ok, CallsOf(k, gone, ids, m, ok),
         NEW id \in gone
  PROVE  once(callbacks[k][id], m)
<1>1. PICK j \in DOMAIN m : ids[j] = id
  BY DEF CallsOf
<1>2. \A i \in DOMAIN m : m[i].what = "call" /\ m[i].n = callbacks[k][ids[i]] /\ ids[i] \in gone
  BY CallsFacts
<1>3. j \in queued(callbacks[k][id], m)
  BY <1>1, <1>2 DEF queued
<1>4. \A i \in queued(callbacks[k][id], m) : i = j
  <2> SUFFICES ASSUME NEW i \in DOMAIN m, callbacks[k][ids[i]] = callbacks[k][id] PROVE i = j
    BY <1>2 DEF queued
  <2>1. ids[i] = id
    BY <1>2 DEF IInv, Owned, CallsOf
  <2> QED BY <1>1, <2>1 DEF CallsOf
<1>5. queued(callbacks[k][id], m) = {j}
  BY <1>3, <1>4
<1> QED BY <1>5 DEF once

LEMMA CallsNever ==
  ASSUME IInv, NEW k \in Procs, NEW gone, NEW ids, NEW m, NEW ok, CallsOf(k, gone, ids, m, ok),
         NEW n, \A id \in gone : callbacks[k][id] # n
  PROVE  never(n, m)
<1>1. \A i \in DOMAIN m : m[i].n = callbacks[k][ids[i]] /\ ids[i] \in gone
  BY CallsFacts
<1> QED BY <1>1 DEF never, queued

\* The members of a finite set in some order, each once.
LEMMA ListOfSet ==
  ASSUME NEW S, IsFiniteSet(S)
  PROVE  /\ SetToSeq(S) \in [1 .. Cardinality(S) -> S] /\ Cardinality(S) \in Nat
         /\ \A i, j \in 1 .. Cardinality(S) : SetToSeq(S)[i] = SetToSeq(S)[j] => i = j
         /\ \A x \in S : \E i \in 1 .. Cardinality(S) : SetToSeq(S)[i] = x
<1> DEFINE n == Cardinality(S)
           f == SetToSeq(S)
<1>1. n \in Nat /\ ExistsBijection(1 .. n, S)
  BY FS_CardinalityType
<1>2. PICK g \in Bijection(1 .. n, S) : TRUE
  BY <1>1 DEF ExistsBijection
<1>3. g \in [1 .. n -> S] /\ \A a, b \in 1 .. n : g[a] = g[b] => a = b
  BY <1>2 DEF Bijection, Injection, Surjection, IsInjective
<1>4. IsInjective(g)
  BY <1>3 DEF IsInjective
<1>5. f \in [1 .. n -> S] /\ IsInjective(f)
  BY <1>3, <1>4 DEF SetToSeq
<1> HIDE DEF f
<1>6. f \in Injection(1 .. n, S)
  BY <1>5 DEF Injection, IsInjective
<1>7. IsFiniteSet(1 .. n) /\ Cardinality(1 .. n) = n
  BY <1>1, FS_Interval
<1>8. f \in Surjection(1 .. n, S)
  BY <1>1, <1>6, <1>7, FS_Injection
<1>9. \A x \in S : \E i \in 1 .. n : f[i] = x
  BY <1>8 DEF Surjection
<1> QED BY <1>1, <1>5, <1>9 DEF f, IsInjective

\* The ids a process waits for are few.
LEMMA FewCallbacks ==
  ASSUME IInv, NEW k \in Procs
  PROVE  /\ IsFiniteSet(requestsOf(k)) /\ Cardinality(requestsOf(k)) \in Nat
         /\ IsFiniteSet(DOMAIN callbacks[k])
<1>1. made \in Seq(Ask) /\ Owned(k)
  BY DEF IInv, TypeOK
<1>2. IsFiniteSet(DOMAIN made)
  <2>1. Len(made) \in Nat /\ DOMAIN made = 1 .. Len(made)
    BY <1>1
  <2> QED BY <2>1, FS_Interval
<1>3. IsFiniteSet(requestsOf(k)) /\ Cardinality(requestsOf(k)) \in Nat
  BY <1>2, FS_Subset, FS_CardinalityType DEF requestsOf
<1>4. IsFiniteSet(issued(k))
  BY <1>3, FS_Interval DEF issued
<1>5. DOMAIN callbacks[k] \subseteq issued(k)
  BY <1>1 DEF Owned
<1> QED BY <1>3, <1>4, <1>5, FS_Subset

LEMMA ExitedStep == ASSUME IInv, NEW k \in Procs, Exited(k) PROVE IInv'
<1>1. /\ UNCHANGED <<instance, buffer, timer, leaving, leaver, sessions, node, stdin, work, close, failures>>
      /\ running' = [running EXCEPT ![k] = FALSE] /\ stdout' = [stdout EXCEPT ![k] = <<>>]
      /\ callbacks' = [callbacks EXCEPT ![k] = <<>>]
      /\ running[k] /\ node[k] = "gone"
  BY DEF Exited, deliver_error
<1> USE DEF sessions
<1>2. Unspawned(k) /\ Owned(k) /\ InOnePlace(k) /\ Framed(k) /\ Awaited(k) /\ TypeOK
  BY DEF IInv
<1> DEFINE gone == DOMAIN callbacks[k]
           ids  == SetToSeq(gone)
           c    == Cardinality(gone)
           m    == [j \in 1 .. c |-> Call(callbacks[k][ids[j]], FALSE)]
           q    == m \o <<Listener>>
<1>3. /\ IsFiniteSet(gone) /\ c \in Nat /\ ids \in [1 .. c -> gone]
      /\ \A i, j \in 1 .. c : ids[i] = ids[j] => i = j
      /\ \A x \in gone : \E i \in 1 .. c : ids[i] = x
  <2>1. IsFiniteSet(gone)
    BY FewCallbacks
  <2> HIDE DEF gone
  <2> QED BY <2>1, ListOfSet
<1>4. loop' = loop \o m \o <<Listener>>
  <2>1. DOMAIN ids = 1 .. c
    BY <1>3
  <2> QED BY <2>1 DEF Exited, deliver_error
<1> HIDE DEF ids, c
<1>5. /\ m \in Seq(Item)
      /\ \A i \in DOMAIN m : m[i].what = "call" /\ m[i].ok = FALSE /\ m[i].n \in DOMAIN made
      /\ \A id \in gone : once(callbacks[k][id], m)
      /\ \A n : (\A id \in gone : callbacks[k][id] # n) => never(n, m)
  <2>1. DOMAIN m = 1 .. c /\ \A j \in 1 .. c : m[j] = Call(callbacks[k][ids[j]], FALSE)
    OBVIOUS
  <2>2. m \in [1 .. c -> Item]
    <3>1. \A j \in 1 .. c : ids[j] \in DOMAIN callbacks[k]
      BY <1>3
    <3>2. \A j \in 1 .. c : Call(callbacks[k][ids[j]], FALSE) \in Item
      BY <3>1, CallIsItem
    <3> QED BY <3>2
  <2> HIDE DEF gone, m
  <2>3. m \in Seq(Item)
    BY <1>3, <2>2
  <2>4. gone \subseteq DOMAIN callbacks[k]
    BY DEF gone
  <2>5. CallsOf(k, gone, ids, m, FALSE)
    BY <1>3, <2>1, <2>3, <2>4 DEF CallsOf
  <2>6. \A i \in DOMAIN m : m[i].what = "call" /\ m[i].ok = FALSE /\ m[i].n \in DOMAIN made
    <3> SUFFICES ASSUME NEW i \in DOMAIN m
                 PROVE  m[i].what = "call" /\ m[i].ok = FALSE /\ m[i].n \in DOMAIN made
      OBVIOUS
    <3>1. m[i].what = "call" /\ m[i].ok = FALSE
      BY <2>1 DEF Call
    <3>2. m[i].n \in DOMAIN made
      BY <2>5, CallsFacts
    <3> QED BY <3>1, <3>2
  <2>7. \A id \in gone : once(callbacks[k][id], m)
    BY <2>5, CallsOnce
  <2>8. ASSUME NEW n, \A id \in gone : callbacks[k][id] # n PROVE never(n, m)
    BY <2>5, <2>8, CallsNever
  <2> QED BY <2>3, <2>6, <2>7, <2>8
<1> HIDE DEF m
<1>6. /\ loop \in Seq(Item) /\ <<Listener>> \in Seq(Item) /\ Listener \in Item
      /\ DOMAIN <<Listener>> = {1} /\ <<Listener>>[1] = Listener /\ Listener.what # "call"
  BY <1>2 DEF TypeOK, Item, Listener
<1>7. /\ q \in Seq(Item) /\ loop' = loop \o q
  <2>1. \A t, v, w \in Seq(Item) : (t \o v) \o w = t \o (v \o w)
    BY ConcatAssociative
  <2>2. q \in Seq(Item)
    BY <1>5, <1>6, ConcatProperties
  <2> QED BY <1>4, <1>5, <1>6, <2>1, <2>2
<1>8. /\ DOMAIN callbacks' = Procs
      /\ \A j \in Procs \ {k} : callbacks'[j] = callbacks[j]
      /\ callbacks'[k] = <<>> /\ DOMAIN callbacks'[k] = {}
      /\ running'[k] = FALSE /\ \A j \in Procs \ {k} : running'[j] = running[j]
      /\ stdout'[k] = <<>> /\ \A j \in Procs \ {k} : stdout'[j] = stdout[j]
  BY <1>1, <1>2 DEF TypeOK
<1>9. TypeOK'
  <2>1. \A j \in Procs : /\ callbacks'[j] \in [DOMAIN callbacks'[j] -> DOMAIN made]
                         /\ DOMAIN callbacks'[j] \subseteq Nat
    <3> SUFFICES ASSUME NEW j \in Procs
                 PROVE  /\ callbacks'[j] \in [DOMAIN callbacks'[j] -> DOMAIN made]
                        /\ DOMAIN callbacks'[j] \subseteq Nat
      OBVIOUS
    <3>1. CASE j = k
      BY <1>8, <3>1
    <3>2. CASE j # k
      BY <1>2, <1>8, <3>2 DEF TypeOK
    <3> QED BY <3>1, <3>2
  <2>2. loop' \in Seq(Item)
    BY <1>6, <1>7, ConcatProperties
  <2>3. running' \in [Procs -> BOOLEAN] /\ stdout' \in [Procs -> Seq(Part)]
    BY <1>1, <1>2 DEF TypeOK
  <2> HIDE DEF q, gone
  <2> QED BY <1>1, <1>2, <1>8, <2>1, <2>2, <2>3 DEF TypeOK
<1>10. ASSUME NEW j \in Procs \ {k}
       PROVE  (Unspawned(j) /\ Owned(j) /\ InOnePlace(j) /\ Framed(j) /\ Awaited(j))'
  BY <1>1, <1>8, Untouched
<1>11. (Unspawned(k) /\ Owned(k) /\ InOnePlace(k) /\ Framed(k) /\ Awaited(k))'
  <2>1. pipe(k)' = buffer[k] /\ issued(k)' = issued(k)
    <3>1. buffer[k] \in Seq(Part)
      BY <1>2 DEF TypeOK
    <3>2. buffer[k] \o <<>> = buffer[k]
      BY <3>1, ConcatEmptySeq
    <3>3. buffer'[k] = buffer[k]
      BY <1>1
    <3> QED BY <1>1, <1>8, <3>2, <3>3 DEF pipe, issued, requestsOf
  <2>2. \A i \in DOMAIN buffer[k] : i \in DOMAIN pipe(k) /\ pipe(k)[i] = buffer[k][i]
    <3>1. buffer[k] \in Seq(Part) /\ stdout[k] \in Seq(Part)
      BY <1>2 DEF TypeOK
    <3>2. \A t, v \in Seq(Part) : \A i \in DOMAIN t : i \in DOMAIN (t \o v) /\ (t \o v)[i] = t[i]
      <4> SUFFICES ASSUME NEW t \in Seq(Part), NEW v \in Seq(Part)
                   PROVE  \A i \in DOMAIN t : i \in DOMAIN (t \o v) /\ (t \o v)[i] = t[i]
        OBVIOUS
      <4> QED BY ConcatFacts
    <3> QED BY <3>1, <3>2 DEF pipe
  <2>3. InOnePlace(k)'
    BY <1>1, <1>2, <2>1, <2>2 DEF InOnePlace
  <2> QED BY <1>1, <1>8, <2>3 DEF Unspawned, Owned, Framed, Awaited
<1>12. \A i \in DOMAIN m : i \in DOMAIN q /\ q[i] = m[i]
  BY <1>5, <1>6, ConcatFacts
<1>13. Len(m) \in Nat /\ DOMAIN m = 1 .. Len(m) /\ Len(m) + 1 \in DOMAIN q /\ q[Len(m) + 1] = Listener
  <2>1. \A i \in DOMAIN <<Listener>> : Len(m) + i \in DOMAIN q /\ q[Len(m) + i] = <<Listener>>[i]
    BY <1>5, <1>6, ConcatFacts
  <2> QED BY <1>5, <1>6, <2>1
<1>14. \A i \in DOMAIN q : i \in DOMAIN m \/ i = Len(m) + 1
  <2>1. \A i \in DOMAIN q : i \in DOMAIN m \/ (i > Len(m) /\ i - Len(m) \in DOMAIN <<Listener>>)
    BY <1>5, <1>6, ConcatFacts
  <2>2. DOMAIN q \subseteq Int
    BY <1>7
  <2> HIDE DEF q
  <2> QED BY <1>6, <1>13, <2>1, <2>2
<1>15. \A x \in DOMAIN made' : Outcome(x)'
  <2>1. \A n : never(n, <<Listener>>)
    BY <1>6 DEF never, queued
  <2>2. \A id \in gone : once(callbacks[k][id], q)
    BY <1>5, <1>6, <2>1, QueuedConcat
  <2>3. ASSUME NEW n, \A id \in gone : callbacks[k][id] # n PROVE never(n, q)
    <3>1. never(n, m) /\ never(n, <<Listener>>)
      BY <1>5, <2>1, <2>3
    <3> QED BY <1>5, <1>6, <3>1, QueuedConcat
  <2>4. /\ gone \in SUBSET DOMAIN callbacks[k] /\ DOMAIN callbacks'[k] = DOMAIN callbacks[k] \ gone
        /\ \A j \in DOMAIN callbacks'[k] : callbacks'[k][j] = callbacks[k][j]
        /\ made' = made
    BY <1>1, <1>8
  <2> HIDE DEF q, gone
  <2> QED BY <1>7, <1>8, <2>2, <2>3, <2>4, CallsMoved
<1> HIDE DEF q
<1>16. ListenersBehind(loop)'
  <2>1. \A i \in DOMAIN q : q[i].what = "call" => q[i].n \in DOMAIN made /\ q[i].ok = FALSE
    BY <1>5, <1>6, <1>12, <1>13, <1>14
  <2>2. \E j \in DOMAIN q : q[j] = Listener
    BY <1>13
  <2> QED BY <1>1, <1>7, <2>1, <2>2, BehindConcat
<1>17. Ghost'
  <2>1. \A i \in DOMAIN q : Len(loop) + i \in DOMAIN (loop \o q) /\ (loop \o q)[Len(loop) + i] = q[i]
    BY <1>6, <1>7, ConcatFacts
  <2>2. \E i \in DOMAIN loop' : loop'[i] = Listener
    BY <1>7, <1>13, <2>1
  <2> QED BY <2>2 DEF Ghost
<1> QED BY <1>9, <1>10, <1>11, <1>15, <1>16, <1>17 DEF IInv

-----------------------------------------------------------------------------
(* A request. *)

LEMMA ProcsFacts == Procs \subseteq Nat \ {0}
<1>1. Cardinality(Procs) \in Nat
  BY ProcsAssumption, FS_CardinalityType
<1> QED BY <1>1, ProcsAssumption

\* A request finds the process that runs, or one that was not spawned yet.
LEMMA StartFacts ==
  ASSUME IInv, (instance # 0 /\ running[instance]) \/ \E k \in Procs : node[k] = "none"
  PROVE  /\ start \in Procs
         /\ node[start] # "none" => running[start]
<1>1. CASE instance # 0 /\ running[instance]
  BY <1>1 DEF IInv, TypeOK, start
<1>2. CASE ~(instance # 0 /\ running[instance])
  <2> DEFINE fresh == {k \in Procs : node[k] = "none"}
  <2>1. fresh # {} /\ fresh \subseteq Nat
    BY <1>2, ProcsFacts
  <2>2. \E k \in fresh : \A j \in fresh : ~(<<j, k>> \in OpToRel(<, Nat))
    <3> HIDE DEF fresh
    <3> QED BY <2>1, NatLessThanWellFounded, WFMin
  <2>3. \E k \in Procs : node[k] = "none" /\ \A j \in Procs : j < k => node[j] # "none"
    <3>1. PICK k \in fresh : \A j \in fresh : ~(<<j, k>> \in OpToRel(<, Nat))
      BY <2>2
    <3>2. \A j \in fresh : ~(j < k)
      BY <2>1, <3>1 DEF OpToRel
    <3> QED BY <3>2
  <2>4. start = CHOOSE k \in Procs : node[k] = "none" /\ \A j \in Procs : j < k => node[j] # "none"
    BY <1>2 DEF start
  <2> QED BY <2>3, <2>4
<1> QED BY <1>1, <1>2

\* One more at the end.
LEMMA AppendFacts ==
  ASSUME NEW S, NEW t \in Seq(S), NEW x \in S
  PROVE  /\ Append(t, x) \in Seq(S) /\ Len(t) \in Nat
         /\ DOMAIN t = 1 .. Len(t) /\ Len(t) + 1 \notin DOMAIN t
         /\ DOMAIN Append(t, x) = DOMAIN t \cup {Len(t) + 1}
         /\ Append(t, x)[Len(t) + 1] = x
         /\ \A i \in DOMAIN t : Append(t, x)[i] = t[i]
<1>1. Len(t) \in Nat /\ DOMAIN t = 1 .. Len(t)
  OBVIOUS
<1>2. /\ Append(t, x) \in Seq(S) /\ Len(Append(t, x)) = Len(t) + 1
      /\ \A i \in 1 .. Len(t) : Append(t, x)[i] = t[i]
      /\ Append(t, x)[Len(t) + 1] = x
  BY AppendProperties
<1>3. DOMAIN Append(t, x) = 1 .. Len(t) + 1
  BY <1>2
<1> QED BY <1>1, <1>2, <1>3

LEMMA RequestStep == ASSUME IInv, Request PROVE IInv'
<1>2. PICK k \in Procs : k = start /\ (node[k] # "none" => running[k])
  <2>1. (instance # 0 /\ running[instance]) \/ \E j \in Procs : node[j] = "none"
    BY DEF Request
  <2> QED BY <2>1, StartFacts
<1>3. PICK id \in Nat \ {0} : id = 1 + Cardinality(requestsOf(k)) /\ issued(k) = 1 .. id - 1
  <2>1. Cardinality(requestsOf(k)) \in Nat
    BY FewCallbacks
  <2> QED BY <2>1 DEF issued
<1>0. PICK N : N = Len(made) + 1
  OBVIOUS
<1> DEFINE r  == [proc |-> k, session |-> session, calls |-> 0]
<1>1. /\ instance' = k
      /\ node' = [node EXCEPT ![k] = IF @ = "none" THEN "run" ELSE @]
      /\ running' = [running EXCEPT ![k] = IF node[k] = "none" THEN TRUE ELSE @]
      /\ made' = Append(made, r)
      /\ callbacks' = [callbacks EXCEPT ![k] =
                         [i \in DOMAIN @ \cup {id} |-> IF i = id THEN N ELSE @[i]]]
      /\ stdin' = [stdin EXCEPT ![k] = Append(@, Line(id))]
      /\ UNCHANGED <<buffer, timer, leaving, leaver, loop, session, selection, work, close, stdout, failures>>
  BY <1>0, <1>2, <1>3 DEF Request, requestsOf
<1>4. Unspawned(k) /\ Owned(k) /\ InOnePlace(k) /\ Framed(k) /\ Awaited(k) /\ TypeOK
  BY <1>2 DEF IInv
<1>5. /\ made' \in Seq(Ask) /\ Len(made) \in Nat /\ DOMAIN made = 1 .. Len(made)
      /\ N \notin DOMAIN made /\ DOMAIN made' = DOMAIN made \cup {N}
      /\ made'[N] = r /\ \A n \in DOMAIN made : made'[n] = made[n]
  <2>1. made \in Seq(Ask) /\ r \in Ask
    BY <1>2, <1>4 DEF TypeOK, Ask
  <2> HIDE DEF r
  <2> QED BY <1>0, <1>1, <2>1, AppendFacts
<1>6. N \in Nat
  BY <1>0, <1>5
<1>7. requestsOf(k)' = requestsOf(k) \cup {N} /\ N \notin requestsOf(k)
  BY <1>5 DEF requestsOf
<1>8. \A j \in Procs \ {k} : requestsOf(j)' = requestsOf(j)
  BY <1>5 DEF requestsOf
<1>9. issued(k)' = issued(k) \cup {id} /\ id \notin issued(k)
  <2>1. Cardinality(requestsOf(k)') = id
    <3>1. IsFiniteSet(requestsOf(k)) /\ Cardinality(requestsOf(k)) \in Nat
      BY FewCallbacks
    <3>2. Cardinality(requestsOf(k) \cup {N}) = Cardinality(requestsOf(k)) + 1
      BY <1>7, <3>1, FS_AddElement
    <3> QED BY <1>3, <1>7, <3>1, <3>2
  <2>2. issued(k)' = 1 .. id
    BY <2>1 DEF issued
  <2> QED BY <1>3, <2>2
<1>10. /\ DOMAIN callbacks' = Procs /\ DOMAIN callbacks'[k] = DOMAIN callbacks[k] \cup {id}
       /\ callbacks'[k][id] = N
       /\ \A i \in DOMAIN callbacks[k] : i # id /\ callbacks'[k][i] = callbacks[k][i]
       /\ \A j \in Procs \ {k} : callbacks'[j] = callbacks[j]
  <2>1. callbacks'[k] = [i \in DOMAIN callbacks[k] \cup {id} |-> IF i = id THEN N ELSE callbacks[k][i]]
    BY <1>1, <1>2, <1>4 DEF TypeOK
  <2>2. DOMAIN callbacks' = Procs /\ \A j \in Procs \ {k} : callbacks'[j] = callbacks[j]
    BY <1>1, <1>2, <1>4 DEF TypeOK
  <2>3. id \notin DOMAIN callbacks[k]
    BY <1>4, <1>9 DEF Owned
  <2> QED BY <2>1, <2>2, <2>3
<1>11. \A j \in Procs : \A i \in DOMAIN callbacks[j] : callbacks[j][i] \in DOMAIN made
  <2> SUFFICES ASSUME NEW j \in Procs, NEW i \in DOMAIN callbacks[j] PROVE callbacks[j][i] \in DOMAIN made
    OBVIOUS
  <2>1. callbacks[j] \in [DOMAIN callbacks[j] -> DOMAIN made]
    BY <1>4 DEF TypeOK
  <2> QED BY <2>1
<1>12. /\ stdin[k] \in Seq(Input) /\ stdin'[k] \in Seq(Input)
       /\ DOMAIN stdin'[k] = DOMAIN stdin[k] \cup {Len(stdin[k]) + 1}
       /\ stdin'[k][Len(stdin[k]) + 1] = Line(id)
       /\ \A i \in DOMAIN stdin[k] : stdin'[k][i] = stdin[k][i]
  <2>1. stdin'[k] = Append(stdin[k], Line(id))
    BY <1>1, <1>2, <1>4 DEF TypeOK
  <2>2. stdin[k] \in Seq(Input) /\ Line(id) \in Input
    BY <1>2, <1>3, <1>4 DEF TypeOK, Input, Line
  <2> QED BY <2>1, <2>2, AppendFacts
<1>13. \A j \in Procs \ {k} : stdin'[j] = stdin[j] /\ running'[j] = running[j] /\ node'[j] = node[j]
  BY <1>1, <1>4 DEF TypeOK
<1>14. running'[k] = TRUE /\ node'[k] # "none"
  BY <1>1, <1>2, <1>4 DEF TypeOK
<1>15. TypeOK'
  <2>1. \A j \in Procs : /\ callbacks'[j] \in [DOMAIN callbacks'[j] -> DOMAIN made']
                         /\ DOMAIN callbacks'[j] \subseteq Nat
    <3> SUFFICES ASSUME NEW j \in Procs
                 PROVE  /\ callbacks'[j] \in [DOMAIN callbacks'[j] -> DOMAIN made']
                        /\ DOMAIN callbacks'[j] \subseteq Nat
      OBVIOUS
    <3>1. callbacks[j] \in [DOMAIN callbacks[j] -> DOMAIN made] /\ DOMAIN callbacks[j] \subseteq Nat
      BY <1>4 DEF TypeOK
    <3>2. CASE j = k
      <4>1. callbacks'[k] = [i \in DOMAIN callbacks'[k] |-> callbacks'[k][i]]
        BY <1>1, <1>2, <1>4 DEF TypeOK
      <4>2. \A i \in DOMAIN callbacks'[k] : callbacks'[k][i] \in DOMAIN made' /\ i \in Nat
        BY <1>3, <1>5, <1>10, <3>1, <3>2
      <4> QED BY <3>2, <4>1, <4>2
    <3>3. CASE j # k
      BY <1>5, <1>10, <3>1, <3>3
    <3> QED BY <3>2, <3>3
  <2>2. stdin' \in [Procs -> Seq(Input)]
    BY <1>1, <1>12, <1>4 DEF TypeOK
  <2>3. /\ running' \in [Procs -> BOOLEAN]
        /\ node' \in [Procs -> {"none", "run", "exiting", "gone", "wedged"}]
    BY <1>1, <1>4 DEF TypeOK
  <2> HIDE DEF r
  <2> QED BY <1>1, <1>2, <1>4, <1>5, <1>10, <2>1, <2>2, <2>3 DEF TypeOK
<1>16. ASSUME NEW j \in Procs \ {k}
       PROVE  (Unspawned(j) /\ Owned(j) /\ InOnePlace(j) /\ Framed(j) /\ Awaited(j))'
  <2>1. \A n \in DOMAIN made : made'[n].proc = made[n].proc
    BY <1>5
  <2>2. requestsOf(j)' = requestsOf(j) /\ callbacks'[j] = callbacks[j]
    BY <1>8, <1>10
  <2>3. /\ stdin'[j] = stdin[j] /\ running'[j] = running[j] /\ node'[j] = node[j]
        /\ buffer'[j] = buffer[j] /\ stdout'[j] = stdout[j] /\ work'[j] = work[j]
    BY <1>1, <1>13
  <2> QED BY <2>1, <2>2, <2>3, Aside
<1>17. pipe(k)' = pipe(k) /\ work'[k] = work[k]
  BY <1>1 DEF pipe
<1>18. Owned(k)'
  <2>1. \A i \in DOMAIN callbacks'[k] : i \in issued(k)' /\ made'[callbacks'[k][i]].proc = k
    BY <1>4, <1>5, <1>2, <1>9, <1>10, <1>11 DEF Owned
  <2>2. \A i, o \in DOMAIN callbacks'[k] : callbacks'[k][i] = callbacks'[k][o] => i = o
    <3> SUFFICES ASSUME NEW i \in DOMAIN callbacks'[k], NEW o \in DOMAIN callbacks'[k],
                        callbacks'[k][i] = callbacks'[k][o]
                 PROVE  i = o
      OBVIOUS
    <3>1. \A c \in DOMAIN callbacks[k] : callbacks'[k][c] \in DOMAIN made
      BY <1>2, <1>10, <1>11
    <3>2. CASE i = id \/ o = id
      BY <1>5, <1>10, <3>1, <3>2
    <3>3. CASE i # id /\ o # id
      BY <1>4, <1>10, <3>3 DEF Owned
    <3> QED BY <3>2, <3>3
  <2> QED BY <1>14, <2>1, <2>2 DEF Owned
<1>19. InOnePlace(k)'
  <2> DEFINE t == stdin[k]
             u == stdin'[k]
             z == Len(stdin[k]) + 1
  <2>1. /\ DOMAIN u = DOMAIN t \cup {z} /\ u[z] = Line(id) /\ \A i \in DOMAIN t : u[i] = t[i]
        /\ \A i \in DOMAIN t : t[i] \in Input
    BY <1>12
  <2> HIDE DEF z, u
  <2>2. \A i \in DOMAIN t : t[i].what = "request" => t[i].id \in issued(k) \ work[k]
    BY <1>4 DEF InOnePlace
  <2> HIDE DEF t
  <2>3. \A i \in DOMAIN t : t[i] # Line(id)
    BY <1>9, <2>2, LineFacts
  <2>4. work[k] \subseteq issued(k)
    BY <1>4 DEF InOnePlace
  <2>5. \A i \in DOMAIN u : u[i].what = "request" => u[i].id \in issued(k)' \ work[k]
    BY <1>9, <2>1, <2>2, <2>4, LineFacts
  <2>6. \A i, j \in DOMAIN u : u[i].what = "request" /\ u[i] = u[j] => i = j
    <3> SUFFICES ASSUME NEW i \in DOMAIN u, NEW j \in DOMAIN u, u[i].what = "request", u[i] = u[j]
                 PROVE  i = j
      OBVIOUS
    <3>1. CASE i = z \/ j = z
      BY <2>1, <2>3, <3>1
    <3>2. CASE i # z /\ j # z
      BY <1>4, <2>1, <3>2 DEF InOnePlace, t
    <3> QED BY <3>1, <3>2
  <2>7. \A i \in DOMAIN pipe(k) : /\ pipe(k)[i].id \in issued(k)' \ work[k]
                                  /\ \A j \in DOMAIN u : u[j] # Line(pipe(k)[i].id)
    <3> SUFFICES ASSUME NEW i \in DOMAIN pipe(k)
                 PROVE  /\ pipe(k)[i].id \in issued(k)' \ work[k]
                        /\ \A j \in DOMAIN u : u[j] # Line(pipe(k)[i].id)
      OBVIOUS
    <3>1. /\ pipe(k)[i].id \in issued(k) \ work[k]
          /\ \A j \in DOMAIN t : t[j] # Line(pipe(k)[i].id)
      BY <1>4 DEF InOnePlace, t
    <3>2. Line(id) # Line(pipe(k)[i].id)
      BY <1>9, <3>1, LineFacts
    <3> QED BY <1>9, <2>1, <3>1, <3>2
  <2>8. \A i, j \in DOMAIN pipe(k) : pipe(k)[i] = pipe(k)[j] => i = j
    BY <1>4 DEF InOnePlace
  <2> QED BY <1>9, <1>17, <2>4, <2>5, <2>6, <2>7, <2>8 DEF InOnePlace, u
<1>20. Framed(k)'
  <2>1. CASE node[k] = "none"
    <3>1. pipe(k) = <<>> /\ DOMAIN pipe(k) = {}
      <4>1. buffer[k] = <<>> /\ stdout[k] = <<>>
        BY <1>4, <2>1 DEF Unspawned
      <4>2. <<>> \in Seq(Part) /\ <<>> \o <<>> = <<>>
        BY ConcatEmptySeq
      <4> QED BY <4>1, <4>2 DEF pipe
    <3> QED BY <1>17, <3>1 DEF Framed
  <2>2. CASE node[k] # "none"
    BY <1>2, <1>4, <1>17, <2>2 DEF Framed
  <2> QED BY <2>1, <2>2
<1>21. Awaited(k)'
  <2> SUFFICES ASSUME NEW c \in DOMAIN callbacks'[k]
               PROVE  \/ c \in work[k]
                      \/ \E i \in DOMAIN stdin'[k] : stdin'[k][i] = Line(c)
                      \/ \E i \in DOMAIN pipe(k) : pipe(k)[i] = head(c)
    BY <1>17 DEF Awaited
  <2>1. CASE c = id
    BY <1>12, <2>1
  <2>2. CASE c # id
    BY <1>4, <1>10, <1>12, <2>2 DEF Awaited
  <2> QED BY <2>1, <2>2
<1>22. Unspawned(k)'
  BY <1>14 DEF Unspawned
<1>23. \A n \in DOMAIN made' : Outcome(n)'
  <2>1. ASSUME NEW n \in DOMAIN made PROVE Outcome(n)'
    <3>1. made[n].proc \in Procs /\ made'[n] = made[n] /\ n # N
      <4>1. made[n] \in Ask
        BY <1>4 DEF TypeOK
      <4> QED BY <1>5, <4>1 DEF Ask
    <3>2. waits(n)' <=> waits(n)
      <4>1. CASE made[n].proc = k
        <5>1. (\E i \in DOMAIN callbacks'[k] : callbacks'[k][i] = n)
                <=> (\E i \in DOMAIN callbacks[k] : callbacks[k][i] = n)
          BY <1>10, <3>1
        <5> QED BY <3>1, <4>1, <5>1 DEF waits
      <4>2. CASE made[n].proc # k
        BY <1>10, <3>1, <4>2 DEF waits
      <4> QED BY <4>1, <4>2
    <3>3. (never(n, loop)' <=> never(n, loop)) /\ (once(n, loop)' <=> once(n, loop))
      BY <1>1 DEF never, once, queued
    <3>4. Outcome(n)
      BY DEF IInv
    <3> QED BY <3>1, <3>2, <3>3, <3>4 DEF Outcome
  <2>2. Outcome(N)'
    <3>1. made'[N].proc = k /\ made'[N].calls = 0
      BY <1>5 DEF r
    <3>2. waits(N)'
      BY <1>10, <3>1 DEF waits
    <3>3. \A i \in DOMAIN loop : loop[i].what = "call" => loop[i].n # N
      BY <1>5 DEF IInv, ListenersBehind
    <3>4. never(N, loop)'
      BY <1>1, <3>3 DEF never, queued
    <3> QED BY <3>1, <3>2, <3>4 DEF Outcome
  <2> QED BY <1>5, <2>1, <2>2
<1>24. \A j \in Procs : running[j] => running'[j]
  BY <1>13, <1>14
<1>25. ListenersBehind(loop)'
  <2> SUFFICES ASSUME NEW i \in DOMAIN loop, loop[i].what = "call"
               PROVE  /\ loop[i].n \in DOMAIN made'
                      /\ loop[i].ok => \/ running'[made'[loop[i].n].proc]
                                       \/ \E j \in DOMAIN loop : j > i /\ loop[j] = Listener
    BY <1>1 DEF ListenersBehind
  <2>1. /\ loop[i].n \in DOMAIN made
        /\ loop[i].ok => running[made[loop[i].n].proc] \/ \E j \in DOMAIN loop : j > i /\ loop[j] = Listener
    BY DEF IInv, ListenersBehind
  <2>2. made[loop[i].n] \in Ask
    BY <1>4, <2>1 DEF TypeOK
  <2>3. made[loop[i].n].proc \in Procs
    BY <2>2 DEF Ask
  <2> QED BY <1>5, <1>24, <2>1, <2>3
<1>26. Ghost'
  BY <1>1, <1>4, <1>24 DEF IInv, Ghost, TypeOK
<1> QED BY <1>15, <1>16, <1>18, <1>19, <1>20, <1>21, <1>22, <1>23, <1>25, <1>26 DEF IInv

-----------------------------------------------------------------------------
(* A read. *)

\* A sequence from its a'th place to its b'th.
LEMMA CutFacts ==
  ASSUME NEW S, NEW t \in Seq(S), NEW a \in Nat, NEW b \in Nat, a <= b, b <= Len(t)
  PROVE  /\ SubSeq(t, a + 1, b) \in Seq(S) /\ Len(SubSeq(t, a + 1, b)) = b - a
         /\ \A i \in 1 .. b - a : SubSeq(t, a + 1, b)[i] = t[a + i] /\ a + i \in DOMAIN t
<1> DEFINE u == SubSeq(t, a + 1, b)
<1>1. Len(t) \in Nat /\ DOMAIN t = 1 .. Len(t) /\ \A i \in DOMAIN t : t[i] \in S
  OBVIOUS
<1>2. \A i \in (a + 1) .. b : t[i] \in S
  BY <1>1
<1>3. /\ u \in Seq(S) /\ Len(u) = IF a + 1 <= b THEN b - (a + 1) + 1 ELSE 0
      /\ \A i \in 1 .. b - (a + 1) + 1 : u[i] = t[(a + 1) + i - 1]
  <2>1. a + 1 \in Int /\ b \in Int
    OBVIOUS
  <2> QED BY <1>2, <2>1, SubSeqProperties
<1> HIDE DEF u
<1>4. \A i \in 1 .. b - a : u[i] = t[a + i] /\ a + i \in DOMAIN t
  <2> SUFFICES ASSUME NEW i \in 1 .. b - a PROVE u[i] = t[a + i] /\ a + i \in DOMAIN t
    OBVIOUS
  <2>1. (a + 1) + i - 1 = a + i /\ i \in 1 .. b - (a + 1) + 1
    OBVIOUS
  <2> QED BY <1>1, <1>3, <2>1
<1>5. Len(u) = b - a
  BY <1>3
<1> QED BY <1>3, <1>4, <1>5 DEF u

\* The last of some places.
LEMMA LastOf ==
  ASSUME NEW L \in Nat, NEW S \in SUBSET (0 .. L), S # {}
  PROVE  Max(S) \in S /\ \A i \in S : i <= Max(S)
<1> DEFINE T == {L - i : i \in S}
<1>1. T \subseteq Nat /\ T # {}
  <2>1. \A i \in S : i \in 0 .. L
    OBVIOUS
  <2>2. \A i \in S : L - i \in Nat
    BY <2>1
  <2> QED BY <2>2
<1>2. \E x \in T : \A y \in T : ~(<<y, x>> \in OpToRel(<, Nat))
  <2> HIDE DEF T
  <2> QED BY <1>1, NatLessThanWellFounded, WFMin
<1>3. PICK x \in T : \A y \in T : ~(<<y, x>> \in OpToRel(<, Nat))
  BY <1>2
<1>4. \A y \in T : x <= y
  <2> SUFFICES ASSUME NEW y \in T PROVE x <= y
    OBVIOUS
  <2>1. ~(y < x)
    BY <1>1, <1>3 DEF OpToRel
  <2> QED BY <1>1, <2>1
<1>5. PICK a \in S : x = L - a
  OBVIOUS
<1>6. \A i \in S : a >= i
  <2> SUFFICES ASSUME NEW i \in S PROVE a >= i
    OBVIOUS
  <2>1. L - i \in T
    OBVIOUS
  <2>2. L - a <= L - i
    BY <1>4, <1>5, <2>1
  <2>3. a \in Int /\ i \in Int
    OBVIOUS
  <2> QED BY <2>2, <2>3
<1>7. Max(S) \in S /\ \A i \in S : Max(S) >= i
  BY <1>6 DEF Max
<1>8. \A i \in S : i \in Int
  OBVIOUS
<1> QED BY <1>7, <1>8

\* Places in order: each of them once.
LEMMA InOrderFacts ==
  ASSUME NEW S \in SUBSET Nat, IsFiniteSet(S)
  PROVE  /\ Cardinality(S) \in Nat
         /\ \A j \in 1 .. Cardinality(S) : inOrder(S)[j] \in S
         /\ \A i, j \in 1 .. Cardinality(S) : inOrder(S)[i] = inOrder(S)[j] => i = j
         /\ \A x \in S : \E j \in 1 .. Cardinality(S) : inOrder(S)[j] = x
<1> DEFINE c == Cardinality(S)
           upTo(i) == {x \in S : x <= i}
           rank == [i \in S |-> Cardinality(upTo(i))]
<1>1. c \in Nat
  BY FS_CardinalityType
<1>2. \A i \in S : /\ IsFiniteSet(upTo(i)) /\ Cardinality(upTo(i)) \in Nat
                   /\ Cardinality(upTo(i)) <= c /\ Cardinality(upTo(i)) # 0
  <2> SUFFICES ASSUME NEW i \in S
               PROVE  /\ IsFiniteSet(upTo(i)) /\ Cardinality(upTo(i)) \in Nat
                      /\ Cardinality(upTo(i)) <= c /\ Cardinality(upTo(i)) # 0
    OBVIOUS
  <2>1. upTo(i) \in SUBSET S /\ i \in upTo(i)
    OBVIOUS
  <2>2. IsFiniteSet(upTo(i)) /\ Cardinality(upTo(i)) <= c
    BY <2>1, FS_Subset
  <2>3. Cardinality(upTo(i)) \in Nat
    BY <2>2, FS_CardinalityType
  <2>4. Cardinality(upTo(i)) # 0
    BY <2>1, <2>2, FS_EmptySet
  <2> QED BY <2>2, <2>3, <2>4
<1>3. \A i, j \in S : i < j => Cardinality(upTo(i)) # Cardinality(upTo(j))
  <2> SUFFICES ASSUME NEW i \in S, NEW j \in S, i < j,
                      Cardinality(upTo(i)) = Cardinality(upTo(j))
               PROVE  FALSE
    OBVIOUS
  <2>1. i \in Nat /\ j \in Nat
    OBVIOUS
  <2>2. upTo(i) \in SUBSET upTo(j) /\ j \in upTo(j) /\ j \notin upTo(i)
    <3>1. \A x \in S : x \in Nat /\ (x <= i => x <= j)
      BY <2>1
    <3>2. j <= j /\ ~(j <= i)
      BY <2>1
    <3> QED BY <3>1, <3>2
  <2>3. IsFiniteSet(upTo(j))
    BY <1>2
  <2> HIDE DEF upTo
  <2>4. upTo(i) = upTo(j)
    BY <2>2, <2>3, FS_Subset
  <2> QED BY <2>2, <2>4
<1>4. rank \in [S -> 1 .. c]
  BY <1>1, <1>2
<1>5. \A i \in S : rank[i] = Cardinality(upTo(i))
  OBVIOUS
<1> HIDE DEF rank, upTo
<1>6. \A i, j \in S : rank[i] = rank[j] => i = j
  <2> SUFFICES ASSUME NEW i \in S, NEW j \in S, rank[i] = rank[j] PROVE i = j
    OBVIOUS
  <2>1. ~(i < j) /\ ~(j < i)
    BY <1>3, <1>5
  <2>2. i \in Nat /\ j \in Nat
    OBVIOUS
  <2> QED BY <2>1, <2>2
<1> HIDE DEF c
<1>7. rank \in Injection(S, 1 .. c)
  BY <1>4, <1>6 DEF Injection, IsInjective
<1>8. IsFiniteSet(1 .. c) /\ Cardinality(1 .. c) = c
  BY <1>1, FS_Interval
<1>9. rank \in Surjection(S, 1 .. c)
  BY <1>7, <1>8, FS_Injection DEF c
<1>10. \A j \in 1 .. c : \E i \in S : rank[i] = j
  BY <1>9 DEF Surjection
<1>11. \A j \in 1 .. c : inOrder(S)[j] = CHOOSE i \in S : Cardinality(upTo(i)) = j
  BY DEF inOrder, upTo, c
<1>12. \A j \in 1 .. c : inOrder(S)[j] \in S /\ rank[inOrder(S)[j]] = j
  <2> SUFFICES ASSUME NEW j \in 1 .. c PROVE inOrder(S)[j] \in S /\ rank[inOrder(S)[j]] = j
    OBVIOUS
  <2>1. \E i \in S : Cardinality(upTo(i)) = j
    BY <1>5, <1>10
  <2>2. inOrder(S)[j] \in S /\ Cardinality(upTo(inOrder(S)[j])) = j
    BY <1>11, <2>1
  <2> QED BY <1>5, <2>2
<1>13. \A x \in S : \E j \in 1 .. c : inOrder(S)[j] = x
  <2> SUFFICES ASSUME NEW x \in S PROVE \E j \in 1 .. c : inOrder(S)[j] = x
    OBVIOUS
  <2>1. rank[x] \in 1 .. c
    BY <1>4
  <2> QED BY <1>6, <1>12, <2>1
<1>14. \A i, j \in 1 .. c : inOrder(S)[i] = inOrder(S)[j] => i = j
  BY <1>12
<1> QED BY <1>1, <1>12, <1>13, <1>14 DEF c

\* p begins with read.
Begins(read, p) ==
  /\ read \in Seq(Part) /\ p \in Seq(Part) /\ Len(read) \in Nat /\ Len(p) \in Nat
  /\ DOMAIN read = 1 .. Len(read) /\ DOMAIN p = 1 .. Len(p) /\ Len(read) <= Len(p)
  /\ \A i \in DOMAIN read : i \in DOMAIN p /\ read[i] = p[i]

\* What is read of a pipe is how it begins.
LEMMA ReadFacts ==
  ASSUME NEW b \in Seq(Part), NEW o \in Seq(Part), NEW n \in 1 .. Len(o)
  PROVE  /\ Begins(b \o SubSeq(o, 1, n), b \o o)
         /\ Len(b \o SubSeq(o, 1, n)) = Len(b) + n
<1> DEFINE d == SubSeq(o, 1, n)
           read == b \o d
           p == b \o o
<1>1. Len(o) \in Nat /\ n \in Nat /\ Len(b) \in Nat /\ DOMAIN o = 1 .. Len(o) /\ DOMAIN b = 1 .. Len(b)
  OBVIOUS
<1>2. d \in Seq(Part) /\ Len(d) = n /\ \A i \in 1 .. n : d[i] = o[i]
  <2>1. /\ SubSeq(o, 0 + 1, n) \in Seq(Part) /\ Len(SubSeq(o, 0 + 1, n)) = n - 0
        /\ \A i \in 1 .. n - 0 : SubSeq(o, 0 + 1, n)[i] = o[0 + i]
    <3>1. 0 \in Nat /\ 0 <= n /\ n <= Len(o)
      BY <1>1
    <3> QED BY <1>1, <3>1, CutFacts
  <2>2. 0 + 1 = 1 /\ n - 0 = n /\ \A i \in 1 .. n : 0 + i = i
    BY <1>1
  <2> QED BY <2>1, <2>2
<1> HIDE DEF d
<1>3. /\ read \in Seq(Part) /\ Len(read) = Len(b) + n
      /\ \A i \in 1 .. Len(b) + n : read[i] = IF i <= Len(b) THEN b[i] ELSE d[i - Len(b)]
  BY <1>2, ConcatProperties
<1>4. /\ p \in Seq(Part) /\ Len(p) = Len(b) + Len(o)
      /\ \A i \in 1 .. Len(b) + Len(o) : p[i] = IF i <= Len(b) THEN b[i] ELSE o[i - Len(b)]
  BY ConcatProperties
<1>5. DOMAIN read = 1 .. Len(read) /\ DOMAIN p = 1 .. Len(p)
  BY <1>3, <1>4
<1> HIDE DEF read, p
<1>6. \A i \in DOMAIN read : i \in DOMAIN p /\ read[i] = p[i]
  <2> SUFFICES ASSUME NEW i \in 1 .. Len(b) + n PROVE i \in 1 .. Len(b) + Len(o) /\ read[i] = p[i]
    BY <1>3, <1>4, <1>5
  <2>1. i \in 1 .. Len(b) + Len(o)
    BY <1>1
  <2>2. CASE i <= Len(b)
    BY <1>3, <1>4, <2>1, <2>2
  <2>3. CASE ~(i <= Len(b))
    <3>1. i - Len(b) \in 1 .. n
      BY <1>1, <2>3
    <3> QED BY <1>2, <1>3, <1>4, <2>1, <2>3, <3>1
  <2> QED BY <2>1, <2>2, <2>3
<1>7. Begins(read, p)
  BY <1>1, <1>3, <1>4, <1>5, <1>6 DEF Begins
<1> QED BY <1>3, <1>7 DEF read, p, d

\* w is p from the place after last.
Rest(w, p, last) ==
  /\ w \in Seq(Part) /\ Len(w) \in Nat /\ DOMAIN w = 1 .. Len(w) /\ Len(w) = Len(p) - last
  /\ \A i \in DOMAIN w : last + i \in DOMAIN p /\ w[i] = p[last + i]

\* What is left of a pipe, part in the buffer and part not read.
LEMMA LeftFacts ==
  ASSUME NEW b \in Seq(Part), NEW o \in Seq(Part), NEW n \in 1 .. Len(o),
         NEW read, Begins(read, b \o o), Len(read) = Len(b) + n, NEW last \in 0 .. Len(read)
  PROVE  /\ SubSeq(read, last + 1, Len(read)) \in Seq(Part) /\ SubSeq(o, n + 1, Len(o)) \in Seq(Part)
         /\ Rest(SubSeq(read, last + 1, Len(read)) \o SubSeq(o, n + 1, Len(o)), b \o o, last)
<1> DEFINE x == SubSeq(read, last + 1, Len(read))
           y == SubSeq(o, n + 1, Len(o))
           p == b \o o
           w == x \o y
<1>1. /\ read \in Seq(Part) /\ p \in Seq(Part) /\ Len(read) \in Nat /\ Len(p) \in Nat
      /\ DOMAIN read = 1 .. Len(read) /\ DOMAIN p = 1 .. Len(p) /\ Len(read) <= Len(p)
      /\ \A i \in DOMAIN read : i \in DOMAIN p /\ read[i] = p[i]
  BY DEF Begins
<1>2. Len(o) \in Nat /\ n \in Nat /\ n <= Len(o) /\ Len(b) \in Nat /\ last \in Nat /\ last <= Len(read)
  BY <1>1
<1>3. /\ x \in Seq(Part) /\ Len(x) = Len(read) - last
      /\ \A i \in 1 .. Len(read) - last : x[i] = read[last + i] /\ last + i \in DOMAIN read
  <2>1. Len(read) <= Len(read)
    BY <1>1
  <2> QED BY <1>1, <1>2, <2>1, CutFacts
<1>4. /\ y \in Seq(Part) /\ Len(y) = Len(o) - n
      /\ \A i \in 1 .. Len(o) - n : y[i] = o[n + i] /\ n + i \in DOMAIN o
  <2>1. Len(o) <= Len(o)
    BY <1>2
  <2> QED BY <1>2, <2>1, CutFacts
<1> HIDE DEF x, y
<1>5. Len(p) = Len(b) + Len(o)
  BY ConcatProperties
<1>6. /\ w \in Seq(Part) /\ Len(w) = Len(x) + Len(y)
      /\ \A i \in 1 .. Len(x) + Len(y) : w[i] = IF i <= Len(x) THEN x[i] ELSE y[i - Len(x)]
  BY <1>3, <1>4, ConcatProperties
<1>8. \A i \in 1 .. Len(o) : p[Len(b) + i] = o[i]
  <2>1. \A i \in DOMAIN o : Len(b) + i \in DOMAIN (b \o o) /\ (b \o o)[Len(b) + i] = o[i]
    BY ConcatFacts
  <2> QED BY <2>1
<1> HIDE DEF w, p
<1>7. Len(w) = Len(p) - last /\ Len(w) \in Nat /\ DOMAIN w = 1 .. Len(w)
  BY <1>1, <1>2, <1>3, <1>4, <1>5, <1>6, SMTT(30)
<1>9. \A i \in DOMAIN w : last + i \in DOMAIN p /\ w[i] = p[last + i]
  <2> SUFFICES ASSUME NEW i \in DOMAIN w PROVE last + i \in DOMAIN p /\ w[i] = p[last + i]
    OBVIOUS
  <2>1. i \in 1 .. Len(p) - last /\ last + i \in DOMAIN p
    BY <1>1, <1>2, <1>7
  <2>2. CASE i <= Len(x)
    <3>1. w[i] = x[i]
      BY <1>6, <1>7, <2>2
    <3>2. i \in 1 .. Len(read) - last
      BY <1>1, <1>2, <1>3, <2>1, <2>2
    <3> QED BY <1>1, <1>3, <2>1, <3>1, <3>2
  <2>3. CASE ~(i <= Len(x))
    <3> DEFINE h == i - Len(x)
    <3>0. /\ Len(x) = Len(b) + n - last /\ i \in Int /\ i <= Len(b) + Len(o) - last /\ i > Len(x)
          /\ Len(x) \in Int
      BY <1>1, <1>2, <1>3, <1>5, <2>1, <2>3
    <3>1. h \in 1 .. Len(o) - n /\ n + h \in 1 .. Len(o) /\ Len(b) + (n + h) = last + i
      <4>1. Len(o) \in Int /\ Len(b) \in Int /\ n \in Int /\ n >= 1 /\ last \in Int
        BY <1>2
      <4>2. PICK a \in Int, c \in Int, z \in Int, g \in Int, e \in Int, j \in Int :
              a = Len(b) /\ c = n /\ z = Len(o) /\ g = Len(x) /\ e = last /\ j = i
        BY <3>0, <4>1
      <4>3. g = a + c - e /\ j <= a + z - e /\ j > g /\ c >= 1
        BY <3>0, <4>1, <4>2
      <4>4. j - g \in 1 .. z - c /\ c + (j - g) \in 1 .. z /\ a + (c + (j - g)) = e + j
        BY <4>3
      <4> QED BY <4>2, <4>4
    <3>2. w[i] = y[h]
      BY <1>6, <1>7, <2>3
    <3> HIDE DEF h
    <3>3. y[h] = o[n + h] /\ p[Len(b) + (n + h)] = o[n + h]
      BY <1>4, <1>8, <3>1
    <3> QED BY <2>1, <3>1, <3>2, <3>3
  <2> QED BY <2>2, <2>3
<1>10. Rest(w, p, last)
  BY <1>6, <1>7, <1>9 DEF Rest
<1> QED BY <1>3, <1>4, <1>10 DEF x, y, w, p

\* The places of text t where a line ends.
endsOf(t) == {i \in DOMAIN t : t[i].part = "tail"}

\* The whole lines of what was read whose requests wait, by where each ends.
answersIn(k, t) == {i \in endsOf(t) : t[i].id \in DOMAIN callbacks[k]}
answerIds(k, t) ==
  [j \in 1 .. Cardinality(answersIn(k, t)) |-> t[inOrder(answersIn(k, t))[j]].id]

\* The text of a read.
readOf(k, data) == buffer[k] \o data

\* Everything that ends in what was read is a whole line.
LEMMA WholeFacts ==
  ASSUME IInv, NEW k \in Procs, running[k], NEW t, Begins(t, pipe(k)), NEW i \in endsOf(t)
  PROVE  i > 1 /\ t[i - 1] = head(t[i].id) /\ i - 2 \in endsOf(t) \cup {0}
<1>1. /\ DOMAIN t = 1 .. Len(t) /\ Len(t) \in Nat /\ DOMAIN pipe(k) = 1 .. Len(pipe(k)) /\ Len(pipe(k)) \in Nat
      /\ pipe(k) \in Seq(Part) /\ \A j \in DOMAIN t : j \in DOMAIN pipe(k) /\ t[j] = pipe(k)[j]
  BY DEF Begins
<1>2. i \in 1 .. Len(t) /\ t[i].part = "tail" /\ i \in DOMAIN pipe(k) /\ t[i] = pipe(k)[i]
  BY <1>1 DEF endsOf
<1>3. Framed(k)
  BY DEF IInv
<1>4. i - 1 \in DOMAIN pipe(k) /\ pipe(k)[i - 1] = head(t[i].id)
  BY <1>2, <1>3 DEF Framed
<1>5. i > 1 /\ i - 1 \in DOMAIN t /\ t[i - 1] = head(t[i].id)
  BY <1>1, <1>2, <1>4
<1>6. CASE i - 2 # 0
  <2> DEFINE j == i - 2
  <2>1. j \in DOMAIN t /\ j + 1 = i - 1 /\ j \in DOMAIN pipe(k)
    BY <1>1, <1>2, <1>5, <1>6
  <2> HIDE DEF j
  <2>2. pipe(k)[j].part # "head"
    <3>1. \A id : head(id).part = "head" /\ tail(id).part = "tail"
      BY DEF head, tail
    <3>2. pipe(k)[j + 1].part = "head"
      BY <1>4, <2>1, <3>1
    <3> QED BY <1>3, <2>1, <3>1, <3>2 DEF Framed
  <2>3. pipe(k)[j] \in Part
    BY <1>1, <2>1
  <2>4. t[j].part = "tail"
    BY <1>1, <2>1, <2>2, <2>3 DEF Part
  <2> QED BY <1>5, <2>1, <2>4 DEF endsOf, j
<1>7. CASE i - 2 = 0
  BY <1>5, <1>7
<1> QED BY <1>6, <1>7

\* What consume makes of a text.
LEMMA ConsumeFacts ==
  ASSUME IInv, NEW k \in Procs, running[k], NEW data, Begins(readOf(k, data), pipe(k)), consume(k, data)
  PROVE  LET t == readOf(k, data)
             ids == answerIds(k, t)
         IN  /\ buffer' = [buffer EXCEPT ![k] = kept(t, Max(endsOf(t) \cup {0}))]
             /\ callbacks' = [callbacks EXCEPT ![k] = Restrict(@, DOMAIN @ \ ToSet(ids))]
             /\ loop' = loop \o [j \in DOMAIN ids |-> Call(callbacks[k][ids[j]], TRUE)]
<1> DEFINE t == readOf(k, data)
           ends == {i \in DOMAIN t : t[i].part = "tail"}
           whole(i) == /\ i \in ends /\ i > 1 /\ t[i - 1] = head(t[i].id)
                       /\ i - 2 \in ends \cup {0}
           answers == {i \in DOMAIN t : whole(i) /\ t[i].id \in DOMAIN callbacks[k]}
           ids == [j \in 1 .. Cardinality(answers) |-> t[inOrder(answers)[j]].id]
<1>1. /\ buffer' = [buffer EXCEPT ![k] = kept(t, Max(ends \cup {0}))]
      /\ callbacks' = [callbacks EXCEPT ![k] = Restrict(@, DOMAIN @ \ ToSet(ids))]
      /\ loop' = loop \o [j \in DOMAIN ids |-> Call(callbacks[k][ids[j]], TRUE)]
  BY DEF consume, readOf
<1>2. ends = endsOf(t)
  BY DEF endsOf
<1>3. answers = answersIn(k, t)
  <2>1. ASSUME NEW i \in endsOf(t)
        PROVE  i > 1 /\ t[i - 1] = head(t[i].id) /\ i - 2 \in endsOf(t) \cup {0}
    BY WholeFacts
  <2>2. \A i \in DOMAIN t : whole(i) <=> i \in endsOf(t)
    BY <1>2, <2>1
  <2> HIDE DEF ends, whole
  <2> QED BY <2>2 DEF answersIn, endsOf
<1>4. ids = answerIds(k, t)
  <2> HIDE DEF answers
  <2> QED BY <1>3 DEF answerIds
<1> HIDE DEF ends, whole, answers, ids
<1> QED BY <1>1, <1>2, <1>4

\* The ids of the answers, in order: each once.
LEMMA AnswerIds ==
  ASSUME IInv, NEW k \in Procs, NEW t, Begins(t, pipe(k))
  PROVE  /\ Cardinality(answersIn(k, t)) \in Nat
         /\ answerIds(k, t) \in [1 .. Cardinality(answersIn(k, t)) -> DOMAIN callbacks[k]]
         /\ \A i, j \in DOMAIN answerIds(k, t) : answerIds(k, t)[i] = answerIds(k, t)[j] => i = j
         /\ \A i \in answersIn(k, t) : \E j \in DOMAIN answerIds(k, t) : answerIds(k, t)[j] = t[i].id
<1> DEFINE S == answersIn(k, t)
           ids == answerIds(k, t)
           c == Cardinality(S)
           f == inOrder(S)
<1>1. /\ DOMAIN t = 1 .. Len(t) /\ Len(t) \in Nat
      /\ pipe(k) \in Seq(Part) /\ \A j \in DOMAIN t : j \in DOMAIN pipe(k) /\ t[j] = pipe(k)[j]
  BY DEF Begins
<1>2. \A i \in S : i \in DOMAIN t /\ t[i].part = "tail" /\ t[i].id \in DOMAIN callbacks[k]
  BY DEF answersIn, endsOf
<1>5. DOMAIN ids = 1 .. c /\ \A j \in 1 .. c : ids[j] = t[f[j]].id
  BY DEF answerIds
<1>9. ids = [j \in 1 .. c |-> ids[j]]
  BY DEF answerIds
<1> HIDE DEF S, ids
<1>3. S \in SUBSET Nat /\ IsFiniteSet(S)
  <2>1. S \in SUBSET (1 .. Len(t))
    BY <1>1, <1>2
  <2>2. IsFiniteSet(1 .. Len(t))
    <3>1. 1 \in Int /\ Len(t) \in Int
      BY <1>1
    <3> QED BY <3>1, FS_Interval
  <2>3. IsFiniteSet(S)
    BY <2>1, <2>2, FS_Subset
  <2>4. 1 .. Len(t) \subseteq Nat
    BY <1>1
  <2> QED BY <2>1, <2>3, <2>4
<1>4. /\ c \in Nat /\ \A j \in 1 .. c : f[j] \in S
      /\ \A i, j \in 1 .. c : f[i] = f[j] => i = j
      /\ \A x \in S : \E j \in 1 .. c : f[j] = x
  BY <1>3, InOrderFacts
<1> HIDE DEF c, f
<1>6. \A i, j \in S : t[i].id = t[j].id => i = j
  <2> SUFFICES ASSUME NEW i \in S, NEW j \in S, t[i].id = t[j].id PROVE i = j
    OBVIOUS
  <2>1. /\ i \in DOMAIN pipe(k) /\ j \in DOMAIN pipe(k) /\ t[i] = pipe(k)[i] /\ t[j] = pipe(k)[j]
        /\ t[i].part = "tail" /\ t[j].part = "tail"
    BY <1>1, <1>2
  <2>2. t[i] \in Part /\ t[j] \in Part
    BY <1>1, <2>1
  <2>3. t[i] = t[j]
    BY <2>1, <2>2 DEF Part
  <2> QED BY <2>1, <2>3 DEF IInv, InOnePlace
<1>7. \A i, j \in 1 .. c : ids[i] = ids[j] => i = j
  BY <1>4, <1>5, <1>6
<1>8. \A i \in S : \E j \in 1 .. c : ids[j] = t[i].id
  BY <1>4, <1>5
<1>10. ids \in [1 .. c -> DOMAIN callbacks[k]]
  <2>1. \A j \in 1 .. c : ids[j] \in DOMAIN callbacks[k]
    BY <1>2, <1>4, <1>5
  <2> QED BY <1>9, <2>1
<1> QED BY <1>4, <1>5, <1>7, <1>8, <1>10 DEF c, S, ids

LEMMA ReadsStep == ASSUME IInv, NEW k \in Procs, Reads(k) PROVE IInv'
<1>1. PICK n \in 1 .. Len(stdout[k]) :
        /\ consume(k, SubSeq(stdout[k], 1, n))
        /\ stdout' = [stdout EXCEPT ![k] = SubSeq(@, n + 1, Len(@))]
  BY DEF Reads
<1>2. /\ UNCHANGED <<instance, running, timer, leaving, leaver, sessions, node, stdin, work, close, failures>>
      /\ running[k]
  BY DEF Reads
<1> USE DEF sessions
<1>3. Unspawned(k) /\ Owned(k) /\ InOnePlace(k) /\ Framed(k) /\ Awaited(k) /\ TypeOK
  BY DEF IInv
<1>4. buffer[k] \in Seq(Part) /\ stdout[k] \in Seq(Part) /\ loop \in Seq(Item)
  BY <1>3 DEF TypeOK
<1>0. PICK data : data = SubSeq(stdout[k], 1, n)
  OBVIOUS
<1>5. PICK t : t = readOf(k, data)
  OBVIOUS
<1>6. PICK p : p = pipe(k)
  OBVIOUS
<1>7. Begins(t, p) /\ Len(t) = Len(buffer[k]) + n
  <2>1. \A b, o \in Seq(Part) : \A a \in 1 .. Len(o) :
          Begins(b \o SubSeq(o, 1, a), b \o o) /\ Len(b \o SubSeq(o, 1, a)) = Len(b) + a
    BY ReadFacts
  <2> QED BY <1>0, <1>4, <1>5, <1>6, <2>1 DEF pipe, readOf
<1>8. /\ t \in Seq(Part) /\ p \in Seq(Part) /\ Len(t) \in Nat /\ Len(p) \in Nat
      /\ DOMAIN t = 1 .. Len(t) /\ DOMAIN p = 1 .. Len(p) /\ Len(t) <= Len(p)
      /\ \A i \in DOMAIN t : i \in DOMAIN p /\ t[i] = p[i]
  BY <1>7 DEF Begins
<1>9. PICK last : last = Max(endsOf(t) \cup {0})
  OBVIOUS
<1>10. last \in 0 .. Len(t) /\ (last = 0 \/ last \in endsOf(t)) /\ \A i \in endsOf(t) : i <= last
  <2>1. endsOf(t) \cup {0} \in SUBSET (0 .. Len(t)) /\ endsOf(t) \cup {0} # {}
    BY <1>8 DEF endsOf
  <2>2. last \in endsOf(t) \cup {0} /\ \A i \in endsOf(t) \cup {0} : i <= last
    BY <1>8, <1>9, <2>1, LastOf
  <2> QED BY <2>1, <2>2
<1>11. PICK S : S = answersIn(k, t)
  OBVIOUS
<1>12. PICK ids : ids = answerIds(k, t)
  OBVIOUS
<1>13. /\ buffer' = [buffer EXCEPT ![k] = SubSeq(t, last + 1, Len(t))]
       /\ callbacks' = [callbacks EXCEPT ![k] = Restrict(@, DOMAIN @ \ ToSet(ids))]
       /\ loop' = loop \o [j \in DOMAIN ids |-> Call(callbacks[k][ids[j]], TRUE)]
  <2>1. Begins(readOf(k, data), pipe(k)) /\ consume(k, data)
    BY <1>0, <1>1, <1>5, <1>6, <1>7
  <2>2. LET u == readOf(k, data)
            v == answerIds(k, u)
        IN  /\ buffer' = [buffer EXCEPT ![k] = kept(u, Max(endsOf(u) \cup {0}))]
            /\ callbacks' = [callbacks EXCEPT ![k] = Restrict(@, DOMAIN @ \ ToSet(v))]
            /\ loop' = loop \o [j \in DOMAIN v |-> Call(callbacks[k][v[j]], TRUE)]
    BY <1>2, <2>1, ConsumeFacts
  <2> QED BY <1>5, <1>9, <1>12, <2>2 DEF kept
<1>14. /\ Cardinality(S) \in Nat /\ DOMAIN ids = 1 .. Cardinality(S)
       /\ \A j \in DOMAIN ids : ids[j] \in DOMAIN callbacks[k]
       /\ \A i, j \in DOMAIN ids : ids[i] = ids[j] => i = j
       /\ \A i \in S : \E j \in DOMAIN ids : ids[j] = t[i].id
  <2>1. Begins(t, pipe(k))
    BY <1>6, <1>7
  <2>2. /\ Cardinality(answersIn(k, t)) \in Nat
        /\ answerIds(k, t) \in [1 .. Cardinality(answersIn(k, t)) -> DOMAIN callbacks[k]]
    BY <2>1, AnswerIds
  <2>3. \A i, j \in DOMAIN answerIds(k, t) : answerIds(k, t)[i] = answerIds(k, t)[j] => i = j
    BY <2>1, AnswerIds
  <2>4. \A i \in answersIn(k, t) : \E j \in DOMAIN answerIds(k, t) : answerIds(k, t)[j] = t[i].id
    BY <2>1, AnswerIds
  <2> QED BY <1>11, <1>12, <2>2, <2>3, <2>4
<1>15. PICK gone : gone = ToSet(ids)
  OBVIOUS
<1>16. /\ gone \subseteq DOMAIN callbacks[k]
       /\ \A j \in DOMAIN ids : ids[j] \in gone
       /\ \A id \in gone : \E j \in DOMAIN ids : ids[j] = id
  BY <1>14, <1>15 DEF ToSet
<1>17. PICK m : m = [j \in DOMAIN ids |-> Call(callbacks[k][ids[j]], TRUE)]
  OBVIOUS
<1>18. DOMAIN m = DOMAIN ids /\ \A j \in DOMAIN m : m[j] = Call(callbacks[k][ids[j]], TRUE)
  BY <1>17
<1>19. m \in Seq(Item)
  <2>1. \A j \in DOMAIN ids : Call(callbacks[k][ids[j]], TRUE) \in Item
    BY <1>14, CallIsItem
  <2>2. m \in [1 .. Cardinality(S) -> Item]
    BY <1>14, <1>17, <2>1
  <2> QED BY <1>14, <2>2
<1>20. CallsOf(k, gone, ids, m, TRUE)
  BY <1>14, <1>16, <1>18, <1>19 DEF CallsOf
<1>21. /\ DOMAIN callbacks' = Procs
       /\ \A j \in Procs \ {k} : callbacks'[j] = callbacks[j]
       /\ callbacks'[k] = [i \in DOMAIN callbacks[k] \ gone |-> callbacks[k][i]]
  BY <1>3, <1>13, <1>15 DEF TypeOK, Restrict
<1>22. /\ DOMAIN callbacks'[k] = DOMAIN callbacks[k] \ gone
       /\ \A i \in DOMAIN callbacks'[k] : callbacks'[k][i] = callbacks[k][i]
  BY <1>21
<1>23. PICK w : w = SubSeq(t, last + 1, Len(t)) \o SubSeq(stdout[k], n + 1, Len(stdout[k]))
  OBVIOUS
<1>24. /\ SubSeq(t, last + 1, Len(t)) \in Seq(Part)
       /\ SubSeq(stdout[k], n + 1, Len(stdout[k])) \in Seq(Part)
       /\ Rest(w, p, last)
  <2>1. PICK b \in Seq(Part) : b = buffer[k]
    BY <1>4
  <2>2. PICK o \in Seq(Part) : o = stdout[k]
    BY <1>4
  <2>3. n \in 1 .. Len(o) /\ Begins(t, b \o o) /\ Len(t) = Len(b) + n
    BY <1>6, <1>7, <2>1, <2>2 DEF pipe
  <2>4. /\ SubSeq(t, last + 1, Len(t)) \in Seq(Part) /\ SubSeq(o, n + 1, Len(o)) \in Seq(Part)
        /\ Rest(SubSeq(t, last + 1, Len(t)) \o SubSeq(o, n + 1, Len(o)), b \o o, last)
    BY <1>10, <2>3, LeftFacts
  <2> QED BY <1>6, <1>23, <2>1, <2>2, <2>4 DEF pipe
<1>25. /\ Len(w) \in Nat /\ DOMAIN w = 1 .. Len(w) /\ Len(w) = Len(p) - last
       /\ \A i \in DOMAIN w : last + i \in DOMAIN p /\ w[i] = p[last + i]
  BY <1>24 DEF Rest
<1>26. /\ pipe(k)' = w /\ issued(k)' = issued(k)
       /\ stdin'[k] = stdin[k] /\ work'[k] = work[k]
       /\ \A j \in Procs \ {k} : buffer'[j] = buffer[j] /\ stdout'[j] = stdout[j]
  BY <1>1, <1>2, <1>3, <1>13, <1>23 DEF pipe, issued, requestsOf, TypeOK
<1>27. TypeOK'
  <2>1. \A j \in Procs : /\ callbacks'[j] \in [DOMAIN callbacks'[j] -> DOMAIN made]
                         /\ DOMAIN callbacks'[j] \subseteq Nat
    <3> SUFFICES ASSUME NEW j \in Procs
                 PROVE  /\ callbacks'[j] \in [DOMAIN callbacks'[j] -> DOMAIN made]
                        /\ DOMAIN callbacks'[j] \subseteq Nat
      OBVIOUS
    <3>1. CASE j = k
      BY <1>3, <1>21, <3>1 DEF TypeOK
    <3>2. CASE j # k
      BY <1>3, <1>21, <3>2 DEF TypeOK
    <3> QED BY <3>1, <3>2
  <2>2. loop' \in Seq(Item)
    BY <1>4, <1>13, <1>17, <1>19, ConcatProperties
  <2>3. buffer' \in [Procs -> Seq(Part)] /\ stdout' \in [Procs -> Seq(Part)]
    BY <1>1, <1>3, <1>13, <1>24 DEF TypeOK
  <2> QED BY <1>2, <1>3, <1>21, <2>1, <2>2, <2>3 DEF TypeOK
<1>28. ASSUME NEW j \in Procs \ {k}
       PROVE  (Unspawned(j) /\ Owned(j) /\ InOnePlace(j) /\ Framed(j) /\ Awaited(j))'
  BY <1>2, <1>21, <1>26, Untouched
<1>29. Owned(k)' /\ Unspawned(k)'
  <2>1. Owned(k)'
    BY <1>2, <1>22, CallbacksLeft
  <2>2. Unspawned(k)'
    BY <1>2, <1>3 DEF Unspawned
  <2> QED BY <2>1, <2>2
<1>30. InOnePlace(k)'
  <2>1. \A i \in DOMAIN w : /\ w[i].id \in issued(k) \ work[k]
                            /\ \A j \in DOMAIN stdin[k] : stdin[k][j] # Line(w[i].id)
    BY <1>3, <1>6, <1>25 DEF InOnePlace
  <2>2. \A i, j \in DOMAIN w : w[i] = w[j] => i = j
    <3> SUFFICES ASSUME NEW i \in DOMAIN w, NEW j \in DOMAIN w, w[i] = w[j] PROVE i = j
      OBVIOUS
    <3>1. last + i = last + j
      BY <1>3, <1>6, <1>25 DEF InOnePlace
    <3>2. i \in Int /\ j \in Int /\ last \in Int
      BY <1>10, <1>25
    <3> QED BY <3>1, <3>2
  <2> QED BY <1>3, <1>26, <2>1, <2>2 DEF InOnePlace
<1>31. last \in Nat /\ last <= Len(t) /\ last <= Len(p)
  BY <1>8, <1>10
<1>32. last # 0 => last \in DOMAIN p /\ p[last].part = "tail"
  BY <1>8, <1>10 DEF endsOf
<1>33. Framed(k)'
  <2> SUFFICES ASSUME NEW i \in DOMAIN w
               PROVE  /\ w[i].part = "head" => i + 1 \in DOMAIN w /\ w[i + 1] = tail(w[i].id)
                      /\ w[i].part = "tail" => i - 1 \in DOMAIN w /\ w[i - 1] = head(w[i].id)
    BY <1>26 DEF Framed
  <2> DEFINE g == last + i
  <2>1. g \in DOMAIN p /\ w[i] = p[g] /\ g \in Nat /\ i \in Nat /\ i >= 1
    BY <1>8, <1>25, <1>31
  <2>2. /\ p[g].part = "head" => g + 1 \in DOMAIN p /\ p[g + 1] = tail(p[g].id)
        /\ p[g].part = "tail" => g - 1 \in DOMAIN p /\ p[g - 1] = head(p[g].id)
    BY <1>2, <1>3, <1>6, <2>1 DEF Framed
  <2>3. CASE w[i].part = "head"
    <3>1. g + 1 \in DOMAIN p /\ p[g + 1] = tail(w[i].id)
      BY <2>1, <2>2, <2>3
    <3>2. i + 1 \in DOMAIN w /\ last + (i + 1) = g + 1
      BY <1>8, <1>25, <1>31, <2>1, <3>1
    <3>3. w[i + 1] = p[g + 1]
      BY <1>25, <3>2
    <3> QED BY <2>3, <3>1, <3>2, <3>3
  <2>4. CASE w[i].part = "tail"
    <3>1. g - 1 \in DOMAIN p /\ p[g - 1] = head(w[i].id)
      BY <2>1, <2>2, <2>4
    <3>2. p[g - 1].part = "head"
      BY <3>1 DEF head
    <3>3. g - 1 # last
      BY <1>8, <1>32, <3>1, <3>2
    <3>4. i - 1 \in DOMAIN w /\ last + (i - 1) = g - 1
      BY <1>25, <1>31, <2>1, <3>3
    <3>5. w[i - 1] = p[g - 1]
      BY <1>25, <3>4
    <3> QED BY <2>4, <3>1, <3>4, <3>5
  <2> QED BY <2>3, <2>4
<1>34. Awaited(k)'
  <2> SUFFICES ASSUME NEW id \in DOMAIN callbacks[k], id \notin gone, id \notin work[k],
                      \A i \in DOMAIN stdin[k] : stdin[k][i] # Line(id)
               PROVE  \E i \in DOMAIN w : w[i] = head(id)
    BY <1>22, <1>26 DEF Awaited
  <2>1. PICK i \in DOMAIN p : p[i] = head(id)
    BY <1>3, <1>6 DEF Awaited
  <2>2. head(id).part = "head" /\ head(id).id = id /\ tail(id).part = "tail" /\ tail(id).id = id
    BY DEF head, tail
  <2>3. i + 1 \in DOMAIN p /\ p[i + 1] = tail(id)
    BY <1>2, <1>3, <1>6, <2>1, <2>2 DEF Framed
  <2>4. i > last
    <3> SUFFICES ASSUME ~(i > last) PROVE FALSE
      OBVIOUS
    <3>1. i \in Nat /\ i >= 1 /\ i # last
      BY <1>8, <1>32, <2>1, <2>2
    <3>2. i + 1 <= last /\ i + 1 \in DOMAIN t
      BY <1>8, <1>31, <3>1
    <3>3. t[i + 1] = tail(id)
      BY <1>8, <2>3, <3>2
    <3>4. i + 1 \in S
      BY <1>11, <2>2, <3>2, <3>3 DEF answersIn, endsOf
    <3>5. id \in gone
      BY <1>14, <1>16, <2>2, <3>3, <3>4
    <3> QED BY <3>5
  <2>5. i - last \in DOMAIN w /\ last + (i - last) = i
    BY <1>8, <1>25, <1>31, <2>1, <2>4
  <2>6. w[i - last] = p[i]
    BY <1>25, <2>5
  <2> QED BY <2>1, <2>5, <2>6
<1>35. \A x \in DOMAIN made' : Outcome(x)'
  <2>1. \A id \in gone : once(callbacks[k][id], m)
    BY <1>20, CallsOnce
  <2>2. ASSUME NEW x, \A id \in gone : callbacks[k][id] # x PROVE never(x, m)
    BY <1>20, <2>2, CallsNever
  <2>3. made' = made /\ loop' = loop \o m
    BY <1>2, <1>13, <1>17
  <2>4. gone \in SUBSET DOMAIN callbacks[k]
    BY <1>16
  <2> QED BY <1>19, <1>21, <1>22, <2>1, <2>2, <2>3, <2>4, CallsMoved
<1>36. ListenersBehind(loop)'
  <2>1. ASSUME NEW i \in DOMAIN m
        PROVE  m[i].n \in DOMAIN made /\ running'[made[m[i].n].proc]
    <3>1. m[i].n \in DOMAIN made
      BY <1>20, CallsFacts
    <3>2. m[i].n = callbacks[k][ids[i]] /\ ids[i] \in DOMAIN callbacks[k]
      BY <1>14, <1>18 DEF Call
    <3>3. made[m[i].n].proc = k
      BY <1>3, <3>2 DEF Owned
    <3> QED BY <1>2, <3>1, <3>3
  <2>2. made' = made /\ loop' = loop \o m /\ running' = running
    BY <1>2, <1>13, <1>17
  <2> QED BY <1>19, <2>1, <2>2, BehindConcat
<1>37. Ghost'
  <2>1. \A i \in DOMAIN loop : i \in DOMAIN (loop \o m) /\ (loop \o m)[i] = loop[i]
    BY <1>4, <1>19, ConcatFacts
  <2> QED BY <1>2, <1>13, <1>17, <2>1 DEF IInv, Ghost
<1> QED BY <1>27, <1>28, <1>29, <1>30, <1>33, <1>34, <1>35, <1>36, <1>37 DEF IInv

-----------------------------------------------------------------------------
(* The theorems. *)

LEMMA NextIInv == ASSUME IInv, [Next]_vars PROVE IInv'
<1>1. CASE Request
  BY <1>1, RequestStep
<1>2. CASE Close
  BY <1>2, CloseStep
<1>3. CASE Leave
  BY <1>3, LeaveStep
<1>4. CASE LeaveOn
  BY <1>4, LeaveOnStep
<1>5. CASE NeovimDies
  BY <1>5, NeovimDiesStep
<1>6. CASE Scheduled
  BY <1>6, ScheduledStep
<1>7. ASSUME NEW k \in Procs,
             NodeReads(k) \/ Answers(k) \/ CloseEnds(k) \/ ExitTimer(k) \/ HangUp(k) \/ NodeFails(k)
      PROVE  IInv'
  BY <1>7, NodeReadsStep, AnswersStep, CloseEndsStep, ExitTimerStep, HangUpStep, NodeFailsStep
<1>8. ASSUME NEW k \in Procs, Reads(k) \/ WriteFails(k) \/ Exited(k) \/ KillTimer(k)
      PROVE  IInv'
  BY <1>8, ReadsStep, WriteFailsStep, ExitedStep, KillTimerStep
<1>9. CASE UNCHANGED vars
  <2>1. UNCHANGED held /\ node' = node /\ TypeOK'
    BY <1>9 DEF vars, held, plugin, sessions, child, IInv, TypeOK
  <2> QED BY <2>1, QuietStep
<1> QED BY <1>1, <1>2, <1>3, <1>4, <1>5, <1>6, <1>7, <1>8, <1>9 DEF Next

LEMMA SpecIInv == Spec => []IInv
<1>1. Init => IInv
  BY InitIInv
<1>2. IInv /\ [Next]_vars => IInv'
  BY NextIInv
<1> QED BY <1>1, <1>2, PTL DEF Spec

\* The number of callbacks scheduled.
LEMMA QueuedCount ==
  ASSUME NEW n, NEW l
  PROVE  /\ never(n, l) => Cardinality(queued(n, l)) = 0
         /\ once(n, l) => Cardinality(queued(n, l)) = 1
<1>1. ASSUME never(n, l) PROVE Cardinality(queued(n, l)) = 0
  BY <1>1, FS_EmptySet DEF never
<1>2. ASSUME once(n, l) PROVE Cardinality(queued(n, l)) = 1
  BY <1>2, FS_Singleton DEF once
<1> QED BY <1>1, <1>2

LEMMA OutcomeFollows == ASSUME IInv PROVE OneOutcome
<1> SUFFICES ASSUME NEW n \in DOMAIN made
             PROVE  (IF waits(n) THEN 1 ELSE 0) + Cardinality(queued(n, loop)) + made[n].calls = 1
  BY DEF OneOutcome, waits, queued
<1>1. Outcome(n)
  BY DEF IInv
<1>2. /\ never(n, loop) => Cardinality(queued(n, loop)) = 0
      /\ once(n, loop) => Cardinality(queued(n, loop)) = 1
  BY QueuedCount
<1> QED BY <1>1, <1>2 DEF Outcome

LEMMA ReplyFollows == ASSUME IInv PROVE NoReplyLost
<1> SUFFICES ASSUME NEW k \in Procs, NEW id \in DOMAIN callbacks[k],
                    id \notin work[k], Line(id) \notin ToSet(stdin[k])
             PROVE  \E i \in 1 .. Len(pipe(k)) - 1 : SubSeq(pipe(k), i, i + 1) = send(id)
  BY DEF NoReplyLost, pipe
<1>1. Owned(k) /\ Framed(k) /\ Awaited(k) /\ TypeOK
  BY DEF IInv
<1>2. PICK i \in DOMAIN pipe(k) : pipe(k)[i] = head(id)
  BY <1>1 DEF Awaited, ToSet
<1>3. running[k]
  <2>1. DOMAIN <<>> = {}
    OBVIOUS
  <2> QED BY <1>1, <2>1 DEF Owned
<1>4. i + 1 \in DOMAIN pipe(k) /\ pipe(k)[i + 1] = tail(id)
  BY <1>1, <1>2, <1>3 DEF Framed, head
<1>5. PICK p \in Seq(Part) : p = pipe(k)
  <2>1. buffer[k] \in Seq(Part) /\ stdout[k] \in Seq(Part)
    BY <1>1 DEF TypeOK
  <2> QED BY <2>1, ConcatProperties DEF pipe
<1>6. Len(p) \in Nat /\ DOMAIN p = 1 .. Len(p) /\ i \in DOMAIN p /\ i + 1 \in DOMAIN p
  BY <1>2, <1>4, <1>5
<1>7. i \in 1 .. Len(p) - 1
  BY <1>6
<1>8. SubSeq(p, i, i + 1) = <<p[i], p[i + 1]>>
  <2> DEFINE q == SubSeq(p, i, i + 1)
  <2>1. i \in Int /\ i + 1 \in Int /\ \A j \in i .. i + 1 : p[j] \in Part
    BY <1>6
  <2>2. /\ q \in Seq(Part) /\ Len(q) = IF i <= i + 1 THEN (i + 1) - i + 1 ELSE 0
        /\ \A j \in 1 .. (i + 1) - i + 1 : q[j] = p[i + j - 1]
    BY <2>1, SubSeqProperties
  <2> HIDE DEF q
  <2>3. Len(q) = 2 /\ q[1] = p[i] /\ q[2] = p[i + 1]
    BY <2>1, <2>2
  <2>4. q = <<q[1], q[2]>>
    BY <2>2, <2>3
  <2> QED BY <2>3, <2>4 DEF q
<1> QED BY <1>2, <1>4, <1>5, <1>7, <1>8 DEF send

\* Each request is called back once, whichever of its reply, a failed write and the
\* exit come, in whatever order, and its reply is not lost wherever the reads cut it
\* (process.lua consume, deliver_error, request_stdio).
THEOREM EachCalledBackOnce == Spec => []CalledBackOnce
<1>1. IInv => CalledBackOnce
  <2> SUFFICES ASSUME IInv PROVE CalledBackOnce
    OBVIOUS
  <2>1. OneOutcome /\ NoReplyLost
    BY OutcomeFollows, ReplyFollows
  <2>2. \A k \in Procs : running[k] \/ callbacks[k] = <<>>
    BY DEF IInv, Owned
  <2> QED BY <2>1, <2>2 DEF CalledBackOnce
<1> QED BY <1>1, SpecIInv, PTL

\* A session does not show for good a selection of a process that is gone
\* (process.lua:11-16, controller.lua:2248-2260).
THEOREM NoGhostStays == Spec => []NoGhostSelection
<1>1. IInv => NoGhostSelection
  BY DEF IInv, Ghost, NoGhostSelection, ToSet
<1> QED BY <1>1, SpecIInv, PTL
=============================================================================
