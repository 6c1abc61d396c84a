--------------------------- MODULE LocalAttachProofs ---------------------------
(***************************************************************************)
(* One transport: for any sockets, any number of attaches and requests and *)
(* any order of the callbacks, a request goes to a socket only while it is *)
(* the greeted one of a helper that filters this very terminal, and one    *)
(* socket is tried at a time.                                              *)
(* Calls: a request made is called back once, however its socket ends.     *)
(***************************************************************************)
EXTENDS LocalAttach, SequenceTheorems, FiniteSetTheorems, TLAPS

Paths == Range(Candidates)

Message == [id : Nat, kind : {"hello", "request"}]
Callback == [id : Nat, kind : {"hello"}, of : Nat] \cup [id : Nat, kind : {"request"}, of : Requests]

TryRecord ==
  [path : Paths, rest : Seq(Paths), finished : BOOLEAN,
   pipe : {"connecting", "open", "closed"}, callbacks : SUBSET Callback, next_id : Nat,
   sent : SUBSET Message, greeted : {"no", "yes", "refused"}]

Signals == {"connected", "hello_timeout", "pairing_timeout", "waiter"}
Item ==
  [kind : Signals, of : Nat] \cup
  [kind : {"hello"}, of : Nat, ok : BOOLEAN, token : Paths \cup {"none"}] \cup
  [kind : {"request"}, of : Requests, ok : BOOLEAN, token : Paths \cup {"none"}]

State ==
  [phase : {"off", "connecting", "attached", "fallback"}, conn : Nat, waiting : SUBSET Attaches,
   pairing_waiter : Nat, tries : Seq(TryRecord),
   timers : SUBSET ({"hello", "pairing"} \X Nat), loop : Seq(Item)]

Items(l) == {l[i] : i \in 1 .. Len(l)}

\* A callback on the queue that takes the try it is of one stage further.
Live(it) == it.kind \in {"connected", "waiter"} \/ (it.kind = "hello" /\ it.ok = TRUE)
LiveHello(it) == it.kind = "hello" /\ it.ok = TRUE

\* Of these the queue holds one at a time, and one pairing timeout.
Unique(l) ==
  \A i, j \in 1 .. Len(l) :
    \/ Live(l[i]) /\ Live(l[j])
    \/ l[i].kind = "pairing_timeout" /\ l[j].kind = "pairing_timeout"
    => i = j

unfinished(s, n) == n \in 1 .. Len(s.tries) /\ s.tries[n].finished = FALSE

\* The tries: the last one is under way while the phase is "connecting", and only its
\* pipe, or that of the paired one, is open.
Tries(s) ==
  /\ \A n \in 1 .. Len(s.tries) : s.tries[n].finished = FALSE <=> s.phase = "connecting" /\ n = Len(s.tries)
  /\ s.phase = "connecting" => Len(s.tries) >= 1
  /\ s.conn \in 0 .. Len(s.tries)
  /\ \A n \in 1 .. Len(s.tries) : s.tries[n].pipe = "open" <=> n = s.conn
  /\ \A n \in 1 .. Len(s.tries) : s.tries[n].pipe = "connecting" =>
       /\ s.tries[n].finished = FALSE /\ s.tries[n].greeted = "no"
       /\ s.tries[n].sent = {} /\ s.tries[n].callbacks = {}
  /\ \A n \in 1 .. Len(s.tries) : s.tries[n].finished = FALSE => s.tries[n].pipe # "closed"
  /\ \A n \in 1 .. Len(s.tries) : IsFiniteSet(s.tries[n].callbacks)
  /\ s.phase \in {"off", "fallback"} => s.conn = 0
  /\ s.phase = "connecting" => s.conn \in {0, Len(s.tries)}
  /\ s.phase = "attached" =>
       s.conn # 0 /\ s.tries[s.conn].path \in Here /\ s.tries[s.conn].greeted = "yes"

\* What is in flight on the open pipe: one hello until the try is over, then requests.
InFlight(s) ==
  s.conn # 0 =>
    LET t == s.tries[s.conn]
    IN  /\ t.finished = FALSE =>
             \/ t.sent = {} /\ t.callbacks = {}
             \/ /\ t.greeted = "no"
                /\ \E id \in Nat : /\ t.sent = {[id |-> id, kind |-> "hello"]}
                                   /\ t.callbacks = {[id |-> id, kind |-> "hello", of |-> s.conn]}
        /\ t.finished = TRUE =>
             /\ \A m \in t.sent : m.kind = "request"
             /\ \A c \in t.callbacks : c.kind = "request"

\* A callback that takes its try further is of the try whose pipe is open.
LiveIsCurrent(s) ==
  \A it \in Items(s.loop) : Live(it) =>
    /\ s.conn # 0 /\ it.of = s.conn /\ s.tries[s.conn].finished = FALSE
    /\ it.kind = "connected" => /\ s.tries[s.conn].greeted = "no"
                                /\ s.tries[s.conn].sent = {} /\ s.tries[s.conn].callbacks = {}
    /\ it.kind # "connected" => s.tries[s.conn].greeted = "yes"
    /\ it.kind = "waiter" => s.tries[s.conn].path \in Here
    /\ it.kind = "hello" => /\ it.token = s.tries[s.conn].path
                            /\ \A other \in Items(s.loop) : other.kind = "hello_timeout" => other.of # it.of

\* So is the waiter of the pairing.
WaiterIsCurrent(s) ==
  s.pairing_waiter # 0 =>
    /\ s.pairing_waiter = s.conn /\ s.tries[s.conn].finished = FALSE
    /\ s.tries[s.conn].greeted = "yes"
    /\ \A it \in Items(s.loop) : ~Live(it)

\* A pairing timer, or its timeout, is of the greeted try.
PairingIsCurrent(s) ==
  /\ \A n \in Nat : <<"pairing", n>> \in s.timers =>
       /\ s.conn # 0 /\ n = s.conn
       /\ s.tries[s.conn].finished = FALSE /\ s.tries[s.conn].greeted = "yes"
       /\ \A it \in Items(s.loop) : ~LiveHello(it)
  /\ \A it \in Items(s.loop) : it.kind = "pairing_timeout" =>
       /\ s.conn # 0 /\ it.of = s.conn /\ s.tries[s.conn].greeted = "yes"
       /\ \A n \in Nat : <<"pairing", n>> \notin s.timers
       /\ \A other \in Items(s.loop) : ~LiveHello(other)

\* What is queued and every timer is of a try there was.
Ranged(s) ==
  /\ \A it \in Items(s.loop) : it.kind \in Signals \cup {"hello"} => it.of \in 1 .. Len(s.tries)
  /\ \A x \in s.timers : x[2] \in 1 .. Len(s.tries)

\* A refusal, or a hello that times out, of a try that is not over is not of a greeted one.
HelloIsCurrent(s) ==
  /\ \A it \in Items(s.loop) : it.kind = "hello" /\ it.ok = FALSE /\ s.tries[it.of].finished = FALSE =>
       s.tries[it.of].greeted = "refused"
  /\ \A it \in Items(s.loop) : it.kind = "hello_timeout" /\ s.tries[it.of].finished = FALSE =>
       /\ it.of = s.conn /\ s.tries[it.of].greeted # "yes"
       /\ \A other \in Items(s.loop) : other.kind # "connected"
  /\ \A n \in 1 .. Len(s.tries) : <<"hello", n>> \in s.timers /\ s.tries[n].finished = FALSE =>
       /\ n = s.conn
       /\ \A other \in Items(s.loop) : other.kind # "connected"
       /\ s.tries[n].greeted = "yes" => \E other \in Items(s.loop) : LiveHello(other)

Queued(s) ==
  /\ Unique(s.loop) /\ Ranged(s) /\ LiveIsCurrent(s) /\ WaiterIsCurrent(s)
  /\ PairingIsCurrent(s) /\ HelloIsCurrent(s)

\* A pairing timeout that comes after the pairing: it is on the queue that is being
\* emptied.
Late(s) == \E it \in Items(s.loop) : it.kind = "pairing_timeout" /\ s.tries[it.of].finished = TRUE

AttachSound ==
  /\ state \in State /\ Tries(state) /\ InFlight(state) /\ Queued(state)
  /\ transport \in BOOLEAN /\ (transport = TRUE <=> state.phase = "attached")
  /\ draining \in BOOLEAN /\ (Late(state) => draining = TRUE)
  /\ \A x \in probes : x.token \in Here
-----------------------------------------------------------------------------
(***************************************************************************)
(* The queue and the tries as sequences.                                   *)
(***************************************************************************)

\* An item that the queue holds at most one of is posted only when there is none.
Fits(x, l) ==
  /\ Live(x) => \A it \in Items(l) : ~Live(it)
  /\ x.kind = "pairing_timeout" => \A it \in Items(l) : it.kind # "pairing_timeout"

\* Posting an item (vim.schedule) adds that one to the queue.
LEMMA ItemsAppend ==
  ASSUME NEW l \in Seq(Item), NEW x \in Item
  PROVE  /\ Append(l, x) \in Seq(Item)
         /\ Items(Append(l, x)) = Items(l) \cup {x}
         /\ Unique(l) /\ Fits(x, l) => Unique(Append(l, x))
<1> DEFINE u == Append(l, x)
<1>1. /\ u \in Seq(Item) /\ Len(l) \in Nat /\ Len(u) = Len(l) + 1 /\ u[Len(l) + 1] = x
      /\ \A i \in 1 .. Len(l) : u[i] = l[i]
  BY AppendProperties
<1> HIDE DEF u
<1>2. Items(u) = Items(l) \cup {x}
  BY <1>1 DEF Items
<1>3. ASSUME Unique(l), Fits(x, l) PROVE Unique(u)
  BY <1>1, <1>3, SMTT(30) DEF Unique, Fits, Items
<1> QED BY <1>1, <1>2, <1>3 DEF u

\* Taking the first item leaves the others, and no second of its kind.
LEMMA ItemsTail ==
  ASSUME NEW l \in Seq(Item), l # <<>>
  PROVE  /\ Tail(l) \in Seq(Item) /\ Head(l) \in Item
         /\ Items(l) = {Head(l)} \cup Items(Tail(l))
         /\ Unique(l) => Unique(Tail(l)) /\ Fits(Head(l), Tail(l))
         /\ Tail(l) = <<>> => Items(Tail(l)) = {}
<1> DEFINE u == Tail(l)
           h == Head(l)
<1>1. /\ u \in Seq(Item) /\ h \in Item /\ Len(l) \in Nat \ {0} /\ Len(u) = Len(l) - 1 /\ h = l[1]
      /\ \A i \in 1 .. Len(u) : u[i] = l[i + 1]
  BY HeadTailProperties, EmptySeq
<1>5. u = <<>> => Items(u) = {}
  <2> HIDE DEF u
  <2>1. u = <<>> => Len(u) = 0
    BY EmptySeq
  <2>2. Len(u) = 0 => 1 .. Len(u) = {}
    OBVIOUS
  <2> QED BY <2>1, <2>2 DEF Items
<1> HIDE DEF u, h
<1>2. Items(l) = {h} \cup Items(u)
  <2>1. \A i \in 1 .. Len(l) : i = 1 \/ (i - 1 \in 1 .. Len(u) /\ u[i - 1] = l[i])
    BY <1>1
  <2>2. \A i \in 1 .. Len(u) : i + 1 \in 1 .. Len(l)
    BY <1>1
  <2>3. 1 \in 1 .. Len(l) /\ l[1] = h /\ \A i \in 1 .. Len(u) : u[i] = l[i + 1]
    BY <1>1
  <2>4. {l[i] : i \in 1 .. Len(l)} \subseteq {h} \cup {u[i] : i \in 1 .. Len(u)}
    <3> SUFFICES ASSUME NEW i \in 1 .. Len(l) PROVE l[i] \in {h} \cup {u[k] : k \in 1 .. Len(u)}
      OBVIOUS
    <3>1. CASE i = 1
      BY <3>1, <2>3
    <3>2. CASE i - 1 \in 1 .. Len(u) /\ u[i - 1] = l[i]
      BY <3>2
    <3> QED BY <3>1, <3>2, <2>1
  <2>5. {h} \cup {u[i] : i \in 1 .. Len(u)} \subseteq {l[i] : i \in 1 .. Len(l)}
    BY <2>2, <2>3
  <2> QED BY <2>4, <2>5 DEF Items
<1>3. ASSUME Unique(l) PROVE Unique(u)
  <2> SUFFICES ASSUME NEW i \in 1 .. Len(u), NEW j \in 1 .. Len(u),
                      \/ Live(u[i]) /\ Live(u[j])
                      \/ u[i].kind = "pairing_timeout" /\ u[j].kind = "pairing_timeout"
               PROVE  i = j
    BY DEF Unique
  <2>1. i + 1 \in 1 .. Len(l) /\ j + 1 \in 1 .. Len(l) /\ u[i] = l[i + 1] /\ u[j] = l[j + 1]
    BY <1>1
  <2>2. i + 1 = j + 1
    BY <2>1, <1>3 DEF Unique
  <2> QED BY <2>2
<1>4. ASSUME Unique(l) PROVE Fits(h, u)
  <2>1. \A i \in 1 .. Len(u) : i + 1 \in 1 .. Len(l) /\ u[i] = l[i + 1] /\ 1 # i + 1
    BY <1>1
  <2>2. 1 \in 1 .. Len(l) /\ l[1] = h
    BY <1>1
  <2> QED BY <1>4, <2>1, <2>2 DEF Unique, Fits, Items
<1> QED BY <1>1, <1>2, <1>3, <1>4, <1>5 DEF u, h

\* The callbacks of close_conn are posted behind what the queue holds.
LEMMA ItemsConcat ==
  ASSUME NEW l \in Seq(Item), NEW m \in Seq(Item),
         \A it \in Items(m) : ~Live(it) /\ it.kind # "pairing_timeout"
  PROVE  /\ l \o m \in Seq(Item)
         /\ Items(l \o m) = Items(l) \cup Items(m)
         /\ Unique(l) => Unique(l \o m)
<1> DEFINE u == l \o m
<1>1. /\ u \in Seq(Item) /\ Len(u) = Len(l) + Len(m) /\ Len(l) \in Nat /\ Len(m) \in Nat
      /\ \A i \in 1 .. Len(l) + Len(m) : u[i] = IF i <= Len(l) THEN l[i] ELSE m[i - Len(l)]
  BY ConcatProperties, LenProperties
<1> HIDE DEF u
<1>2. \A i \in 1 .. Len(l) : i \in 1 .. Len(u) /\ u[i] = l[i]
  BY <1>1
<1>3. \A i \in 1 .. Len(m) : i + Len(l) \in 1 .. Len(u) /\ u[i + Len(l)] = m[i]
  <2> SUFFICES ASSUME NEW i \in 1 .. Len(m) PROVE i + Len(l) \in 1 .. Len(u) /\ u[i + Len(l)] = m[i]
    OBVIOUS
  <2>1. i + Len(l) \in 1 .. Len(l) + Len(m) /\ ~(i + Len(l) <= Len(l)) /\ (i + Len(l)) - Len(l) = i
    BY <1>1
  <2> QED BY <2>1, <1>1
<1>4. \A i \in 1 .. Len(u) : \/ i \in 1 .. Len(l) /\ u[i] = l[i]
                             \/ i - Len(l) \in 1 .. Len(m) /\ u[i] = m[i - Len(l)]
  BY <1>1
<1>5. Items(u) = Items(l) \cup Items(m)
  <2>1. {u[i] : i \in 1 .. Len(u)} \subseteq {l[i] : i \in 1 .. Len(l)} \cup {m[i] : i \in 1 .. Len(m)}
    BY <1>4
  <2>2. {l[i] : i \in 1 .. Len(l)} \subseteq {u[i] : i \in 1 .. Len(u)}
    BY <1>2
  <2>3. {m[i] : i \in 1 .. Len(m)} \subseteq {u[i] : i \in 1 .. Len(u)}
    BY <1>3
  <2> QED BY <2>1, <2>2, <2>3 DEF Items
<1>6. ASSUME Unique(l) PROVE Unique(u)
  <2> SUFFICES ASSUME NEW i \in 1 .. Len(u), NEW j \in 1 .. Len(u),
                      \/ Live(u[i]) /\ Live(u[j])
                      \/ u[i].kind = "pairing_timeout" /\ u[j].kind = "pairing_timeout"
               PROVE  i = j
    BY DEF Unique
  <2>1. i \in 1 .. Len(l) /\ u[i] = l[i]
    BY <1>4 DEF Items
  <2>2. j \in 1 .. Len(l) /\ u[j] = l[j]
    BY <1>4 DEF Items
  <2> QED BY <1>6, <2>1, <2>2 DEF Unique
<1> QED BY <1>1, <1>5, <1>6 DEF u

\* The callbacks that fail with the connection, in some order.
LEMMA ItemsOfSet ==
  ASSUME NEW S \in SUBSET Item, IsFiniteSet(S)
  PROVE  SetToSeq(S) \in Seq(Item) /\ Items(SetToSeq(S)) = S
<1> DEFINE n == Cardinality(S)
           f == SetToSeq(S)
<1>1. n \in Nat /\ ExistsBijection(1 .. n, S)
  BY FS_CardinalityType
<1>2. PICK g \in Bijection(1 .. n, S) : TRUE
  BY <1>1 DEF ExistsBijection
<1>3. g \in [1 .. n -> S] /\ \A a, b \in 1 .. n : g[a] = g[b] => a = b
  BY <1>2 DEF Bijection, Injection, Surjection, IsInjective
<1>4. IsInjective(g)
  BY <1>3 DEF IsInjective
<1>5. f \in [1 .. n -> S] /\ IsInjective(f)
  BY <1>3, <1>4 DEF SetToSeq
<1> HIDE DEF f
<1>6. f \in Injection(1 .. n, S)
  BY <1>5 DEF Injection, IsInjective
<1>7. IsFiniteSet(1 .. n) /\ Cardinality(1 .. n) = n
  BY <1>1, FS_Interval
<1>8. f \in Surjection(1 .. n, S)
  BY <1>1, <1>6, <1>7, FS_Injection
<1>9. \A x \in S : \E i \in 1 .. n : f[i] = x
  BY <1>8 DEF Surjection
<1>10. f \in Seq(Item) /\ Len(f) = n
  BY <1>1, <1>5
<1>11. Items(f) = S
  BY <1>5, <1>9, <1>10 DEF Items
<1> QED BY <1>10, <1>11 DEF f

\* One try of the list is changed.
LEMMA TryChanged ==
  ASSUME NEW l \in Seq(TryRecord), NEW n \in 1 .. Len(l), NEW x \in TryRecord
  PROVE  /\ [l EXCEPT ![n] = x] \in Seq(TryRecord)
         /\ Len([l EXCEPT ![n] = x]) = Len(l)
         /\ [l EXCEPT ![n] = x][n] = x
         /\ \A m \in 1 .. Len(l) : m # n => [l EXCEPT ![n] = x][m] = l[m]
  BY ExceptSeq
-----------------------------------------------------------------------------
(***************************************************************************)
(* The functions of the module.                                            *)
(***************************************************************************)

\* Nothing that would take a try further, or time a pairing out, is to come.
Quiet(s) ==
  /\ \A it \in Items(s.loop) : ~Live(it) /\ it.kind # "pairing_timeout"
  /\ s.pairing_waiter = 0
  /\ \A n \in Nat : <<"pairing", n>> \notin s.timers

\* The hellos that wait for an answer on the open pipe are of a try there was.
HellosRanged(s) ==
  s.conn # 0 => \A c \in s.tries[s.conn].callbacks : c.kind = "hello" => c.of \in 1 .. Len(s.tries)

allOver(s) == \A n \in 1 .. Len(s.tries) : s.tries[n].finished = TRUE

\* A state in which nothing is to come and no try is under way is a sound one.
LEMMA QuietQueued ==
  ASSUME NEW s \in State, Quiet(s), Ranged(s), allOver(s)
  PROVE  Queued(s)
<1> USE DEF Live, LiveHello
<1>0. s.loop \in Seq(Item) /\ \A it \in Items(s.loop) : ~Live(it) /\ it.kind # "pairing_timeout"
  BY DEF State, Quiet
<1>1. Unique(s.loop)
  BY <1>0 DEF Unique, Items
<1>2. LiveIsCurrent(s)
  BY <1>0 DEF LiveIsCurrent
<1>3. WaiterIsCurrent(s)
  BY DEF WaiterIsCurrent, Quiet
<1>4. PairingIsCurrent(s)
  BY <1>0 DEF PairingIsCurrent, Quiet
<1>5. HelloIsCurrent(s)
  BY DEF HelloIsCurrent, Ranged, allOver, Signals
<1> QED BY <1>1, <1>2, <1>3, <1>4, <1>5 DEF Queued

\* A callback that fails is called with an error.
LEMMA FailingQuiet ==
  ASSUME NEW c \in Callback
  PROVE  /\ failing(c) \in Item /\ failing(c).kind = c.kind /\ failing(c).of = c.of
         /\ failing(c).kind \in {"hello", "request"} /\ failing(c).ok = FALSE
         /\ ~Live(failing(c))
  BY DEF Callback, failing, Item, Live

\* close_conn closes the pipe there is, and fails what waits for an answer on it.
LEMMA ConnClosed ==
  ASSUME NEW s \in State, s.conn \in 0 .. Len(s.tries),
         \A n \in 1 .. Len(s.tries) : IsFiniteSet(s.tries[n].callbacks),
         HellosRanged(s)
  PROVE  LET t == close_conn(s)
         IN  /\ t \in State /\ t.conn = 0 /\ Len(t.tries) = Len(s.tries)
             /\ t.phase = s.phase /\ t.waiting = s.waiting /\ t.timers = s.timers
             /\ t.pairing_waiter = s.pairing_waiter
             /\ \A n \in 1 .. Len(s.tries) :
                  /\ t.tries[n].finished = s.tries[n].finished
                  /\ t.tries[n].rest = s.tries[n].rest
                  /\ IsFiniteSet(t.tries[n].callbacks)
                  /\ t.tries[n].pipe = IF n = s.conn THEN "closed" ELSE s.tries[n].pipe
                  /\ n # s.conn => t.tries[n] = s.tries[n]
             /\ Quiet(s) => Quiet(t)
             /\ Ranged(s) => Ranged(t)
<1> DEFINE t == close_conn(s)
<1>1. CASE s.conn = 0
  BY <1>1 DEF close_conn
<1>2. CASE s.conn # 0
  <2> DEFINE n == s.conn
             r == s.tries[n]
             F == {failing(c) : c \in r.callbacks}
             x == [r EXCEPT !.pipe = "closed", !.callbacks = {}]
             T == [s.tries EXCEPT ![n] = x]
             L == s.loop \o SetToSeq(F)
  <2>1. n \in 1 .. Len(s.tries) /\ s.tries \in Seq(TryRecord) /\ s.loop \in Seq(Item)
    BY <1>2 DEF State
  <2>2. r \in TryRecord
    BY <2>1, ElementOfSeq
  <2>3. /\ x \in TryRecord /\ x.pipe = "closed" /\ x.callbacks = {} /\ x.finished = r.finished
        /\ x.rest = r.rest
    BY <2>2 DEF TryRecord
  <2>4. r.callbacks \in SUBSET Callback /\ IsFiniteSet(r.callbacks)
    BY <2>1, <2>2 DEF TryRecord
  <2>5. F \in SUBSET Item /\ IsFiniteSet(F)
    <3>1. F \in SUBSET Item
      BY <2>4, FailingQuiet
    <3> DEFINE f == [c \in r.callbacks |-> failing(c)]
    <3>2. f \in Surjection(r.callbacks, F)
      BY DEF Surjection
    <3>3. IsFiniteSet(F)
      BY <3>2, <2>4, FS_Surjection
    <3> QED BY <3>1, <3>3
  <2>6. SetToSeq(F) \in Seq(Item) /\ Items(SetToSeq(F)) = F
    BY <2>5, ItemsOfSet
  <2>7. \A it \in F : /\ ~Live(it) /\ it.kind \in {"hello", "request"}
                      /\ it.kind = "hello" => it.of \in 1 .. Len(s.tries)
    BY <1>2, <2>4, FailingQuiet DEF HellosRanged
  <2>8. L \in Seq(Item) /\ Items(L) = Items(s.loop) \cup F
    BY <2>1, <2>6, <2>7, ItemsConcat, ZenonT(60)
  <2>9. /\ T \in Seq(TryRecord) /\ Len(T) = Len(s.tries) /\ T[n] = x
        /\ \A m \in 1 .. Len(s.tries) : m # n => T[m] = s.tries[m]
    BY <2>1, <2>3, TryChanged
  <2> DEFINE T1 == [s.tries EXCEPT ![n] = [@ EXCEPT !.pipe = "closed"]]
             T2 == [T1 EXCEPT ![n] = [@ EXCEPT !.callbacks = {}]]
  <2>10. t = [s EXCEPT !.conn = 0, !.tries = T2, !.loop = L]
    <3>1. t = [s EXCEPT !.conn = 0, !.tries[n].pipe = "closed", !.tries[n].callbacks = {},
                        !.loop = @ \o SetToSeq(F)]
      BY <1>2 DEF close_conn
    <3> HIDE DEF t, F
    <3>2. t.tries = T2
      BY <3>1, <2>1 DEF State
    <3>3. t.loop = L
      BY <3>1, <2>1 DEF State
    <3> QED BY <3>1, <3>2, <3>3 DEF State
  <2>15. T2 = T
    <3> DEFINE y == [r EXCEPT !.pipe = "closed"]
    <3>1. y \in TryRecord
      BY <2>2 DEF TryRecord
    <3>2. T1 \in Seq(TryRecord) /\ Len(T1) = Len(s.tries) /\ T1[n] = y
      BY <2>1, <3>1, TryChanged
    <3>3. T2 = [T1 EXCEPT ![n] = x]
      BY <2>1, <3>2
    <3> HIDE DEF y, x
    <3>4. [[s.tries EXCEPT ![n] = y] EXCEPT ![n] = x] = [s.tries EXCEPT ![n] = x]
      BY <2>1
    <3> QED BY <3>3, <3>4 DEF y
  <2> HIDE DEF T, T1, T2, L, t, F, x
  <2>11. /\ t \in State /\ t.conn = 0 /\ t.tries = T /\ t.loop = L
         /\ t.phase = s.phase /\ t.waiting = s.waiting /\ t.timers = s.timers
         /\ t.pairing_waiter = s.pairing_waiter
    BY <2>8, <2>9, <2>10, <2>15 DEF State
  <2>12. \A m \in 1 .. Len(s.tries) :
           /\ t.tries[m].finished = s.tries[m].finished
           /\ t.tries[m].rest = s.tries[m].rest
           /\ IsFiniteSet(t.tries[m].callbacks)
           /\ t.tries[m].pipe = IF m = s.conn THEN "closed" ELSE s.tries[m].pipe
           /\ m # s.conn => t.tries[m] = s.tries[m]
    BY <2>3, <2>9, <2>11, FS_EmptySet
  <2>13. Quiet(s) => Quiet(t)
    BY <2>7, <2>8, <2>11 DEF Quiet
  <2>14. ASSUME Ranged(s) PROVE Ranged(t)
    <3>1. \A it \in Items(t.loop) : it \in Items(s.loop) \/ it \in F
      BY <2>8, <2>11
    <3>2. ASSUME NEW it \in Items(t.loop), it.kind \in Signals \cup {"hello"}
          PROVE  it.of \in 1 .. Len(s.tries)
      <4>1. CASE it \in Items(s.loop)
        BY <2>14, <3>2, <4>1 DEF Ranged
      <4>2. CASE it \in F
        BY <2>7, <3>2, <4>2 DEF Signals
      <4> QED BY <3>1, <4>1, <4>2
    <3> QED BY <2>9, <2>11, <2>14, <3>2 DEF Ranged
  <2> QED BY <2>9, <2>11, <2>12, <2>13, <2>14 DEF t
<1> QED BY <1>1, <1>2

newTryOf(rest, k) == newTry(rest[k + 1], SubSeq(rest, k + 2, Len(rest)))

\* The try that follows on the path k + 1 of those left is a record of the type.
LEMMA NewTryTyped ==
  ASSUME NEW rest \in Seq(Paths), NEW k \in 0 .. Len(rest), k # Len(rest)
  PROVE  LET x == newTryOf(rest, k)
         IN  /\ x \in TryRecord /\ x.finished = FALSE /\ x.pipe = "connecting"
             /\ x.greeted = "no" /\ x.sent = {} /\ x.callbacks = {}
<1>1. Len(rest) \in Nat /\ k + 1 \in 1 .. Len(rest) /\ k + 2 \in Int /\ Len(rest) \in Int
  BY LenProperties
<1>2. rest[k + 1] \in Paths
  BY <1>1, ElementOfSeq
<1>3. \A i \in k + 2 .. Len(rest) : rest[i] \in Paths
  BY <1>1, ElementOfSeq
<1>4. SubSeq(rest, k + 2, Len(rest)) \in Seq(Paths)
  BY <1>1, <1>3, SubSeqProperties
<1> QED BY <1>2, <1>4 DEF newTryOf, newTry, TryRecord

\* Every pipe is closed and every try over: the state in which the next one begins.
AllClosed(s) ==
  /\ s.conn = 0 /\ allOver(s)
  /\ \A n \in 1 .. Len(s.tries) : s.tries[n].pipe = "closed" /\ IsFiniteSet(s.tries[n].callbacks)

\* What an action that ends a try, or begins the first, leaves behind.
Settled(t) ==
  /\ t \in State /\ Tries(t) /\ InFlight(t) /\ Queued(t) /\ ~Late(t)
  /\ t.phase \in {"connecting", "fallback"}

\* try_next begins a try, or ends the scan.
LEMMA NextTryBegun ==
  ASSUME NEW s \in State, AllClosed(s), Quiet(s), Ranged(s), s.phase = "connecting",
         NEW rest \in Seq(Paths), NEW k \in 0 .. Len(rest)
  PROVE  Settled(try_next(s, rest, k))
<1> DEFINE t == try_next(s, rest, k)
<1>0. /\ s.tries \in Seq(TryRecord) /\ s.loop \in Seq(Item) /\ Len(s.tries) \in Nat
      /\ s.conn = 0 /\ \A n \in 1 .. Len(s.tries) : s.tries[n] \in TryRecord
  BY ElementOfSeq, LenProperties DEF State, AllClosed
<1>1. CASE k = Len(rest)
  <2>1. t = [s EXCEPT !.phase = "fallback", !.waiting = {}]
    BY <1>1 DEF try_next, settle, State
  <2> HIDE DEF t
  <2>2. /\ t \in State /\ t.phase = "fallback" /\ t.conn = 0 /\ t.tries = s.tries
        /\ t.loop = s.loop /\ t.timers = s.timers /\ t.pairing_waiter = s.pairing_waiter
    BY <2>1, <1>0 DEF State
  <2>3. Quiet(t) /\ Ranged(t) /\ allOver(t)
    BY <2>2 DEF Quiet, Ranged, AllClosed, allOver
  <2>4. Queued(t)
    BY <2>2, <2>3, QuietQueued
  <2>5. InFlight(t)
    BY <2>2 DEF InFlight
  <2>6. Tries(t)
    BY <2>2, <1>0 DEF Tries, AllClosed, allOver
  <2> QED BY <2>2, <2>3, <2>4, <2>5, <2>6 DEF Settled, Quiet, Late, t
<1>2. CASE k # Len(rest)
  <2> DEFINE x == newTryOf(rest, k)
             T == Append(s.tries, x)
             m == Len(s.tries) + 1
  <2>1. /\ x \in TryRecord /\ x.finished = FALSE /\ x.pipe = "connecting"
        /\ x.greeted = "no" /\ x.sent = {} /\ x.callbacks = {}
    BY <1>2, NewTryTyped
  <2>2. t = [s EXCEPT !.tries = T]
    BY <1>2 DEF try_next, newTryOf
  <2> HIDE DEF t, x
  <2>3. /\ T \in Seq(TryRecord) /\ Len(T) = m /\ T[m] = x
        /\ \A n \in 1 .. Len(s.tries) : T[n] = s.tries[n]
    BY <2>1, <1>0, AppendProperties
  <2> HIDE DEF T
  <2>4. /\ t \in State /\ t.phase = "connecting" /\ t.conn = 0 /\ t.tries = T
        /\ t.loop = s.loop /\ t.timers = s.timers /\ t.pairing_waiter = s.pairing_waiter
    BY <2>2, <2>3, <1>0 DEF State
  <2>5. \A n \in 1 .. m : n = m \/ n \in 1 .. Len(s.tries)
    BY <1>0
  <2>6. 1 .. Len(s.tries) \subseteq 1 .. m /\ m \in 1 .. m /\ m \notin 1 .. Len(s.tries)
    BY <1>0
  <2>7. Tries(t)
    <3>1. \A n \in 1 .. m : t.tries[n].finished = FALSE <=> n = m
      BY <2>1, <2>3, <2>4, <2>5, <2>6 DEF AllClosed, allOver
    <3>2. \A n \in 1 .. m : t.tries[n].pipe # "open" /\ IsFiniteSet(t.tries[n].callbacks)
      BY <2>1, <2>3, <2>4, <2>5, <2>6, FS_EmptySet DEF AllClosed
    <3>3. \A n \in 1 .. m : t.tries[n].pipe = "connecting" <=> n = m
      BY <2>1, <2>3, <2>4, <2>5, <2>6 DEF AllClosed
    <3>4. /\ t.tries[m].greeted = "no" /\ t.tries[m].sent = {} /\ t.tries[m].callbacks = {}
          /\ t.tries[m].pipe = "connecting"
      BY <2>1, <2>3, <2>4
    <3> QED BY <1>0, <2>3, <2>4, <3>1, <3>2, <3>3, <3>4 DEF Tries
  <2>8. InFlight(t)
    BY <2>4 DEF InFlight
  <2>9. Ranged(t) /\ Quiet(t)
    BY <2>3, <2>4, <2>6 DEF Ranged, Quiet
  <2>10. /\ Unique(t.loop) /\ LiveIsCurrent(t) /\ WaiterIsCurrent(t) /\ PairingIsCurrent(t)
    <3>0. t.loop \in Seq(Item) /\ \A it \in Items(t.loop) : ~Live(it) /\ it.kind # "pairing_timeout"
      BY <2>9, <1>0, <2>4 DEF Quiet
    <3>1. Unique(t.loop)
      BY <3>0 DEF Unique, Items
    <3>2. LiveIsCurrent(t)
      BY <3>0 DEF LiveIsCurrent
    <3>3. WaiterIsCurrent(t)
      BY <2>9 DEF WaiterIsCurrent, Quiet
    <3>4. PairingIsCurrent(t)
      BY <2>9, <3>0 DEF PairingIsCurrent, Quiet
    <3> QED BY <3>1, <3>2, <3>3, <3>4
  <2>11. HelloIsCurrent(t)
    <3>1. \A it \in Items(t.loop) : it.kind \in Signals \cup {"hello"} =>
             it.of \in 1 .. Len(s.tries) /\ t.tries[it.of].finished = TRUE
      BY <2>3, <2>4 DEF Ranged, AllClosed, allOver
    <3>2. \A n \in 1 .. m : <<"hello", n>> \in t.timers => n \in 1 .. Len(s.tries) /\ t.tries[n].finished = TRUE
      BY <2>3, <2>4, SMTT(30) DEF Ranged, AllClosed, allOver
    <3> QED BY <2>3, <2>4, <3>1, <3>2 DEF HelloIsCurrent, Signals
  <2> QED BY <2>4, <2>7, <2>8, <2>9, <2>10, <2>11 DEF Settled, Queued, Quiet, Late, t
<1> QED BY <1>1, <1>2

\* One try is changed, and nothing else.
edited(s, n, x) == [s EXCEPT !.tries = [@ EXCEPT ![n] = x]]

\* The change of one try touches neither the queue nor the timers nor the other tries.
LEMMA TryEdited ==
  ASSUME NEW s \in State, NEW n \in 1 .. Len(s.tries), NEW x \in TryRecord
  PROVE  LET t == edited(s, n, x)
         IN  /\ t \in State /\ Len(t.tries) = Len(s.tries) /\ t.tries[n] = x
             /\ \A m \in 1 .. Len(s.tries) : m # n => t.tries[m] = s.tries[m]
             /\ t.phase = s.phase /\ t.conn = s.conn /\ t.waiting = s.waiting
             /\ t.pairing_waiter = s.pairing_waiter /\ t.timers = s.timers /\ t.loop = s.loop
             /\ Quiet(s) => Quiet(t)
             /\ Ranged(s) => Ranged(t)
<1> DEFINE T == [s.tries EXCEPT ![n] = x]
           t == edited(s, n, x)
<1>1. s.tries \in Seq(TryRecord)
  BY DEF State
<1>2. /\ T \in Seq(TryRecord) /\ Len(T) = Len(s.tries) /\ T[n] = x
      /\ \A m \in 1 .. Len(s.tries) : m # n => T[m] = s.tries[m]
  BY <1>1, TryChanged
<1>3. t = [s EXCEPT !.tries = T]
  BY DEF edited, State
<1> HIDE DEF T, t
<1>4. /\ t \in State /\ t.tries = T
      /\ t.phase = s.phase /\ t.conn = s.conn /\ t.waiting = s.waiting
      /\ t.pairing_waiter = s.pairing_waiter /\ t.timers = s.timers /\ t.loop = s.loop
  BY <1>2, <1>3 DEF State
<1>5. (Quiet(s) => Quiet(t)) /\ (Ranged(s) => Ranged(t))
  BY <1>2, <1>4 DEF Quiet, Ranged
<1> QED BY <1>2, <1>4, <1>5 DEF t

\* finish(false) closes the pipe, fails what waits on it and tries the next candidate.
LEMMA TryFinished ==
  ASSUME NEW s \in State, Tries(s), Quiet(s), Ranged(s), HellosRanged(s),
         NEW n \in Nat, unfinished(s, n), NEW k \in 0 .. Len(s.tries[n].rest)
  PROVE  Settled(finish(s, n, k))
<1> DEFINE r == s.tries[n]
           x == [r EXCEPT !.finished = TRUE]
           s1 == edited(s, n, x)
           s2 == close_conn(s1)
           y == [s2.tries[n] EXCEPT !.pipe = "closed"]
           s3 == edited(s2, n, y)
<1>1. n \in 1 .. Len(s.tries) /\ s.tries \in Seq(TryRecord)
  BY DEF unfinished, State
<1>2. r \in TryRecord /\ r.finished = FALSE
  BY <1>1, ElementOfSeq DEF unfinished
<1>3. /\ x \in TryRecord /\ x.finished = TRUE /\ x.pipe = r.pipe
      /\ x.callbacks = r.callbacks /\ x.rest = r.rest
  BY <1>2 DEF TryRecord
<1> HIDE DEF x
<1>4. /\ s1 \in State /\ Len(s1.tries) = Len(s.tries) /\ s1.tries[n] = x
      /\ \A m \in 1 .. Len(s.tries) : m # n => s1.tries[m] = s.tries[m]
      /\ s1.phase = s.phase /\ s1.conn = s.conn
      /\ Quiet(s1) /\ Ranged(s1)
  BY <1>1, <1>3, TryEdited
<1>5. [s EXCEPT !.tries[n].finished = TRUE] = s1
  BY <1>1, <1>2 DEF edited, x, State
<1> HIDE DEF s1
<1>6. /\ s1.conn \in 0 .. Len(s1.tries)
      /\ \A m \in 1 .. Len(s1.tries) : IsFiniteSet(s1.tries[m].callbacks)
      /\ HellosRanged(s1)
  <2>1. \A m \in 1 .. Len(s.tries) : s1.tries[m].callbacks = s.tries[m].callbacks
    BY <1>3, <1>4
  <2>2. \A m \in 1 .. Len(s.tries) : IsFiniteSet(s.tries[m].callbacks)
    BY DEF Tries
  <2>3. s.conn \in 0 .. Len(s.tries)
    BY DEF Tries
  <2>4. s1.conn # 0 => s1.conn \in 1 .. Len(s.tries)
    BY <2>3, <1>4
  <2> QED BY <1>4, <2>1, <2>2, <2>3, <2>4 DEF HellosRanged
<1>7. /\ s2 \in State /\ s2.conn = 0 /\ Len(s2.tries) = Len(s.tries)
      /\ s2.phase = s.phase
      /\ \A m \in 1 .. Len(s.tries) :
           /\ s2.tries[m].finished = s1.tries[m].finished
           /\ s2.tries[m].rest = s1.tries[m].rest
           /\ IsFiniteSet(s2.tries[m].callbacks)
           /\ s2.tries[m].pipe = IF m = s.conn THEN "closed" ELSE s1.tries[m].pipe
      /\ Quiet(s2) /\ Ranged(s2)
  BY <1>4, <1>6, ConnClosed
<1> HIDE DEF s2
<1>8. s2.tries[n] \in TryRecord
  BY <1>1, <1>7, ElementOfSeq DEF State
<1>9. /\ y \in TryRecord /\ y.pipe = "closed" /\ y.finished = s2.tries[n].finished
      /\ y.callbacks = s2.tries[n].callbacks
  BY <1>8 DEF TryRecord
<1>10. [s2 EXCEPT !.tries[n].pipe = "closed"] = s3
  BY <1>1, <1>7, <1>8 DEF edited, State
<1> HIDE DEF y
<1>11. /\ s3 \in State /\ Len(s3.tries) = Len(s.tries) /\ s3.tries[n] = y
       /\ \A m \in 1 .. Len(s.tries) : m # n => s3.tries[m] = s2.tries[m]
       /\ s3.phase = s.phase /\ s3.conn = 0
       /\ Quiet(s3) /\ Ranged(s3)
  BY <1>1, <1>7, <1>9, TryEdited
<1> HIDE DEF s3
<1>12. s.phase = "connecting" /\ n = Len(s.tries)
  BY <1>1 DEF Tries, unfinished
<1>13. ASSUME NEW m \in 1 .. Len(s.tries), m # n
       PROVE  s.tries[m].finished = TRUE /\ s.tries[m].pipe \in {"open", "closed"} /\ (s.tries[m].pipe = "open" <=> m = s.conn)
  <2>1. s.tries[m] \in TryRecord
    BY <1>1, ElementOfSeq
  <2>2. s.tries[m].finished = TRUE
    BY <2>1, <1>12, <1>13 DEF Tries, TryRecord
  <2> QED BY <2>1, <2>2 DEF Tries, TryRecord
<1>14. AllClosed(s3)
  <2>1. s3.tries[n].finished = TRUE /\ s3.tries[n].pipe = "closed" /\ IsFiniteSet(s3.tries[n].callbacks)
    BY <1>1, <1>3, <1>4, <1>7, <1>9, <1>11
  <2>2. ASSUME NEW m \in 1 .. Len(s.tries), m # n
        PROVE  s3.tries[m].finished = TRUE /\ s3.tries[m].pipe = "closed" /\ IsFiniteSet(s3.tries[m].callbacks)
    <3>1. s3.tries[m] = s2.tries[m] /\ s1.tries[m] = s.tries[m]
      BY <2>2, <1>4, <1>11
    <3>2. s2.tries[m].finished = TRUE /\ IsFiniteSet(s2.tries[m].callbacks)
      <4>1. s2.tries[m].finished = s1.tries[m].finished /\ IsFiniteSet(s2.tries[m].callbacks)
        BY <1>7, Zenon
      <4>2. s.tries[m].finished = TRUE
        BY <2>2, <1>13, Zenon
      <4> QED BY <4>1, <4>2, <3>1, Zenon
    <3>3. s2.tries[m].pipe = IF m = s.conn THEN "closed" ELSE s.tries[m].pipe
      BY <3>1, <1>7, Zenon
    <3>4. s2.tries[m].pipe = "closed"
      <4>1. CASE m = s.conn
        BY <3>3, <4>1
      <4>2. CASE m # s.conn
        <5>1. s.tries[m].pipe \in {"open", "closed"} /\ (s.tries[m].pipe = "open" <=> m = s.conn)
          BY <2>2, <1>13
        <5>2. s.tries[m].pipe = "closed"
          BY <5>1, <4>2
        <5> QED BY <3>3, <5>2, <4>2
      <4> QED BY <4>1, <4>2
    <3> QED BY <3>1, <3>2, <3>4
  <2> QED BY <2>1, <2>2, <1>11 DEF AllClosed, allOver
<1>15. r.rest \in Seq(Paths)
  BY <1>2 DEF TryRecord
<1>16. finish(s, n, k) = try_next(s3, r.rest, k)
  BY <1>2, <1>5, <1>10 DEF finish, s2
<1> QED BY <1>11, <1>12, <1>14, <1>15, <1>16, NextTryBegun

\* demote closes the pipe, and the phase falls back.
LEMMA Demoted ==
  ASSUME NEW s \in State, Tries(s), Quiet(s), Ranged(s), HellosRanged(s), s.phase = "attached"
  PROVE  Settled(demoted(s)) /\ demoted(s).phase = "fallback"
<1> DEFINE s1 == close_conn(s)
           t == [s1 EXCEPT !.phase = "fallback"]
<1>1. demoted(s) = t
  BY DEF demoted
<1>2. /\ s1 \in State /\ s1.conn = 0 /\ Len(s1.tries) = Len(s.tries)
      /\ \A n \in 1 .. Len(s.tries) :
           /\ s1.tries[n].finished = s.tries[n].finished
           /\ IsFiniteSet(s1.tries[n].callbacks)
           /\ s1.tries[n].pipe = IF n = s.conn THEN "closed" ELSE s.tries[n].pipe
      /\ Quiet(s1) /\ Ranged(s1)
  <2>1. s.conn \in 0 .. Len(s.tries) /\ \A n \in 1 .. Len(s.tries) : IsFiniteSet(s.tries[n].callbacks)
    BY DEF Tries
  <2> QED BY <2>1, ConnClosed
<1> HIDE DEF s1
<1>3. /\ t \in State /\ t.phase = "fallback" /\ t.conn = 0 /\ t.tries = s1.tries
      /\ t.loop = s1.loop /\ t.timers = s1.timers /\ t.pairing_waiter = s1.pairing_waiter
  BY <1>2 DEF State
<1> HIDE DEF t
<1>4. \A n \in 1 .. Len(s.tries) : s.tries[n].finished = TRUE /\ s.tries[n].pipe \in {"open", "closed"}
  <2> SUFFICES ASSUME NEW n \in 1 .. Len(s.tries)
               PROVE  s.tries[n].finished = TRUE /\ s.tries[n].pipe \in {"open", "closed"}
    OBVIOUS
  <2>1. s.tries[n] \in TryRecord
    BY ElementOfSeq DEF State
  <2> QED BY <2>1 DEF Tries, TryRecord
<1>5. \A n \in 1 .. Len(t.tries) : t.tries[n].finished = TRUE /\ t.tries[n].pipe = "closed" /\ IsFiniteSet(t.tries[n].callbacks)
  BY <1>2, <1>3, <1>4 DEF Tries
<1>6. Tries(t)
  BY <1>3, <1>5, LenProperties, SMTT(30) DEF Tries, State
<1>7. Quiet(t) /\ Ranged(t) /\ allOver(t)
  BY <1>2, <1>3, <1>5 DEF Quiet, Ranged, allOver
<1>8. Queued(t)
  BY <1>3, <1>7, QuietQueued
<1>9. InFlight(t)
  BY <1>3 DEF InFlight
<1> QED BY <1>1, <1>3, <1>6, <1>7, <1>8, <1>9 DEF Settled, Quiet, Late
-----------------------------------------------------------------------------
(***************************************************************************)
(* The steps.                                                              *)
(***************************************************************************)

\* What holds of the state an action leaves holds after the action.
LEMMA SoundNext ==
  ASSUME NEW t \in State, state' = t, draining' \in BOOLEAN, Late(t) => draining' = TRUE,
         Tries(t), InFlight(t), Queued(t),
         transport' \in BOOLEAN, (transport' = TRUE) <=> (t.phase = "attached"),
         \A x \in probes' : x.token \in Here
  PROVE  AttachSound'
<1>1. Late(state') => draining' = TRUE
  BY Zenon
<1>2. Queued(state')
  BY Zenon
<1>3. state' \in State /\ Tries(state') /\ InFlight(state')
  BY Zenon
<1>4. (transport' = TRUE) <=> (state'.phase = "attached")
  BY Zenon
<1> QED BY <1>1, <1>2, <1>3, <1>4, Zenon DEF AttachSound

\* A state whose queue and timers are some of those of a sound one.
LEMMA FewerQueued ==
  ASSUME NEW s \in State, NEW t \in State, Queued(s),
         t.tries = s.tries, t.conn = s.conn, t.pairing_waiter \in {0, s.pairing_waiter},
         t.timers \subseteq s.timers, Items(t.loop) \subseteq Items(s.loop), Unique(t.loop),
         \/ \A it \in Items(s.loop) : LiveHello(it) => it \in Items(t.loop)
         \/ \A n \in 1 .. Len(s.tries) : <<"hello", n>> \in t.timers => s.tries[n].greeted # "yes"
  PROVE  Queued(t)
<1>1. Ranged(t)
  BY DEF Queued, Ranged
<1>2. LiveIsCurrent(t)
  BY DEF Queued, LiveIsCurrent
<1>3. WaiterIsCurrent(t)
  BY DEF Queued, WaiterIsCurrent
<1>4. PairingIsCurrent(t)
  <2>1. \A n \in Nat : <<"pairing", n>> \in t.timers =>
          /\ t.conn # 0 /\ n = t.conn
          /\ t.tries[t.conn].finished = FALSE /\ t.tries[t.conn].greeted = "yes"
          /\ \A it \in Items(t.loop) : ~LiveHello(it)
    BY DEF Queued, PairingIsCurrent
  <2>2. \A it \in Items(t.loop) : it.kind = "pairing_timeout" =>
          /\ t.conn # 0 /\ it.of = t.conn /\ t.tries[t.conn].greeted = "yes"
          /\ \A n \in Nat : <<"pairing", n>> \notin t.timers
          /\ \A other \in Items(t.loop) : ~LiveHello(other)
    BY DEF Queued, PairingIsCurrent
  <2> QED BY <2>1, <2>2 DEF PairingIsCurrent
<1>5. HelloIsCurrent(t)
  <2>1. \A it \in Items(t.loop) : it.kind = "hello" /\ it.ok = FALSE /\ t.tries[it.of].finished = FALSE =>
          t.tries[it.of].greeted = "refused"
    BY DEF Queued, HelloIsCurrent
  <2>2. \A it \in Items(t.loop) : it.kind = "hello_timeout" /\ t.tries[it.of].finished = FALSE =>
          /\ it.of = t.conn /\ t.tries[it.of].greeted # "yes"
          /\ \A other \in Items(t.loop) : other.kind # "connected"
    BY DEF Queued, HelloIsCurrent
  <2>3. ASSUME NEW n \in 1 .. Len(t.tries), <<"hello", n>> \in t.timers, t.tries[n].finished = FALSE
        PROVE  /\ n = t.conn
               /\ \A other \in Items(t.loop) : other.kind # "connected"
               /\ t.tries[n].greeted = "yes" => \E other \in Items(t.loop) : LiveHello(other)
    BY <2>3 DEF Queued, HelloIsCurrent
  <2> QED BY <2>1, <2>2, <2>3 DEF HelloIsCurrent
<1> QED BY <1>1, <1>2, <1>3, <1>4, <1>5 DEF Queued

\* The queue after its first callback was taken.
LEMMA Taken ==
  ASSUME NEW s \in State, s.loop # <<>>
  PROVE  LET t == [s EXCEPT !.loop = Tail(@)]
             h == Head(s.loop)
         IN  /\ t \in State /\ t.loop = Tail(s.loop) /\ t.tries = s.tries /\ t.conn = s.conn
             /\ t.phase = s.phase /\ t.pairing_waiter = s.pairing_waiter /\ t.timers = s.timers
             /\ t.waiting = s.waiting
             /\ h \in Item /\ h \in Items(s.loop)
             /\ Items(s.loop) = {h} \cup Items(t.loop)
             /\ Unique(s.loop) => Unique(t.loop) /\ Fits(h, t.loop)
             /\ Tail(s.loop) = <<>> => Items(t.loop) = {}
<1> DEFINE t == [s EXCEPT !.loop = Tail(@)]
           h == Head(s.loop)
           L == Tail(s.loop)
<1>1. /\ L \in Seq(Item) /\ h \in Item
      /\ Items(s.loop) = {h} \cup Items(L)
      /\ Unique(s.loop) => Unique(L) /\ Fits(h, L)
      /\ L = <<>> => Items(L) = {}
  BY ItemsTail DEF State
<1> HIDE DEF L, h
<1>2. /\ t \in State /\ t.loop = L /\ t.tries = s.tries /\ t.conn = s.conn
      /\ t.phase = s.phase /\ t.pairing_waiter = s.pairing_waiter /\ t.timers = s.timers
      /\ t.waiting = s.waiting
  BY <1>1 DEF State, L
<1> QED BY <1>1, <1>2 DEF L, h

\* Of a sound queue that is being emptied, the rest is sound.
LEMMA TakenSound ==
  ASSUME NEW s \in State, s.loop # <<>>, Queued(s), ~LiveHello(Head(s.loop))
  PROVE  Queued([s EXCEPT !.loop = Tail(@)])
<1> DEFINE t == [s EXCEPT !.loop = Tail(@)]
           h == Head(s.loop)
<1>1. /\ t \in State /\ t.loop = Tail(s.loop) /\ t.tries = s.tries /\ t.conn = s.conn
      /\ t.pairing_waiter = s.pairing_waiter /\ t.timers = s.timers
      /\ Items(s.loop) = {h} \cup Items(t.loop)
      /\ Unique(s.loop) => Unique(t.loop)
  BY Taken
<1>2. Unique(t.loop)
  BY <1>1 DEF Queued
<1>3. \A it \in Items(s.loop) : LiveHello(it) => it \in Items(t.loop)
  BY <1>1
<1> HIDE DEF t
<1>4. /\ t.pairing_waiter \in {0, s.pairing_waiter} /\ t.timers \subseteq s.timers
      /\ Items(t.loop) \subseteq Items(s.loop)
  BY <1>1
<1>5. Queued(t)
  BY <1>1, <1>2, <1>3, <1>4, FewerQueued
<1> QED BY <1>5 DEF t

\* The queue is empty, or is being emptied.
LEMMA EmptiedNotLate ==
  ASSUME NEW t \in State, NEW d \in BOOLEAN, d = TRUE <=> t.loop # <<>>, Late(t)
  PROVE  d = TRUE
<1>1. t.loop = <<>> => Len(t.loop) = 0
  BY EmptySeq
<1>2. Len(t.loop) = 0 => 1 .. Len(t.loop) = {}
  OBVIOUS
<1> QED BY <1>1, <1>2 DEF Late, Items

\* A request's callback changes the queue only.
LEMMA CallBackKeeps ==
  ASSUME AttachSound, CallBack, draining' = (state'.loop # <<>>)
  PROVE  AttachSound'
<1> DEFINE t == taken
<1>1. /\ state' = t /\ UNCHANGED <<transport, probes>> /\ state.loop # <<>> /\ item.kind = "request"
  BY DEF CallBack, Runs
<1>2. state \in State /\ Queued(state) /\ Tries(state) /\ InFlight(state)
  BY DEF AttachSound
<1>3. /\ t \in State /\ t.tries = state.tries /\ t.conn = state.conn /\ t.phase = state.phase
  BY <1>1, <1>2, Taken DEF taken
<1>5. ~LiveHello(Head(state.loop))
  BY <1>1 DEF LiveHello, item
<1>6. Queued(t)
  BY <1>1, <1>2, <1>5, TakenSound DEF taken
<1> HIDE DEF t
<1>8. draining' \in BOOLEAN /\ (Late(t) => draining' = TRUE)
  BY <1>1, <1>3, EmptiedNotLate
<1>9. Tries(t) /\ InFlight(t)
  BY <1>2, <1>3 DEF Tries, InFlight
<1> QED BY <1>1, <1>3, <1>6, <1>8, <1>9, SoundNext DEF AttachSound

\* A refused try, or one whose hello is out, has nothing to come; nor has a scan
\* without an open pipe.
LEMMA QuietUnpaired ==
  ASSUME NEW s \in State, Tries(s), Queued(s),
         \/ s.conn = 0
         \/ s.tries[s.conn].greeted = "refused"
         \/ s.tries[s.conn].greeted = "no" /\ s.tries[s.conn].sent # {}
  PROVE  Quiet(s) /\ Ranged(s)
<1>1. \A it \in Items(s.loop) : ~Live(it)
  BY DEF Queued, LiveIsCurrent, Live
<1>2. \A it \in Items(s.loop) : it.kind # "pairing_timeout"
  BY DEF Queued, PairingIsCurrent
<1>3. \A n \in Nat : <<"pairing", n>> \notin s.timers
  BY DEF Queued, PairingIsCurrent
<1>4. s.pairing_waiter = 0
  BY DEF Queued, WaiterIsCurrent
<1> QED BY <1>1, <1>2, <1>3, <1>4 DEF Queued, Quiet

\* Nor has a try that is over, once the queue was emptied.
LEMMA QuietOver ==
  ASSUME NEW s \in State, Tries(s), Queued(s), ~Late(s), s.conn # 0,
         s.tries[s.conn].finished = TRUE
  PROVE  Quiet(s) /\ Ranged(s)
<1>1. \A it \in Items(s.loop) : ~Live(it)
  BY DEF Queued, LiveIsCurrent, Live
<1>2. \A it \in Items(s.loop) : it.kind # "pairing_timeout"
  BY DEF Queued, PairingIsCurrent, Late
<1>3. \A n \in Nat : <<"pairing", n>> \notin s.timers
  BY DEF Queued, PairingIsCurrent
<1>4. s.pairing_waiter = 0
  BY DEF Queued, WaiterIsCurrent
<1> QED BY <1>1, <1>2, <1>3, <1>4 DEF Queued, Quiet

\* Every hello in flight is of a try there was.
LEMMA HellosRangedSound ==
  ASSUME NEW s \in State, Tries(s), InFlight(s)
  PROVE  HellosRanged(s)
<1> SUFFICES ASSUME s.conn # 0, NEW c \in s.tries[s.conn].callbacks, c.kind = "hello"
             PROVE  c.of \in 1 .. Len(s.tries)
  BY DEF HellosRanged
<1>1. s.conn \in 1 .. Len(s.tries)
  BY LenProperties DEF Tries, State
<1>2. s.tries[s.conn].finished \in BOOLEAN
  <2>1. s.tries[s.conn] \in TryRecord
    BY <1>1, ElementOfSeq DEF State
  <2> QED BY <2>1 DEF TryRecord
<1>3. c.of = s.conn
  BY <1>2 DEF InFlight
<1> QED BY <1>1, <1>3

\* What a change of one try leaves true of the tries.
LEMMA TriesEdited ==
  ASSUME NEW s \in State, Tries(s), NEW n \in 1 .. Len(s.tries), NEW x \in TryRecord,
         x.finished = s.tries[n].finished, x.pipe = s.tries[n].pipe, x.path = s.tries[n].path,
         s.tries[n].greeted = "yes" => x.greeted = "yes",
         s.tries[n].pipe # "connecting", IsFiniteSet(x.callbacks)
  PROVE  Tries(edited(s, n, x))
<1> DEFINE t == edited(s, n, x)
<1>1. /\ t \in State /\ Len(t.tries) = Len(s.tries) /\ t.tries[n] = x
      /\ \A m \in 1 .. Len(s.tries) : m # n => t.tries[m] = s.tries[m]
      /\ t.phase = s.phase /\ t.conn = s.conn
  BY TryEdited
<1> HIDE DEF t
<1>2. \A m \in 1 .. Len(s.tries) :
        /\ t.tries[m].finished = s.tries[m].finished
        /\ t.tries[m].pipe = s.tries[m].pipe
        /\ t.tries[m].path = s.tries[m].path
        /\ s.tries[m].greeted = "yes" => t.tries[m].greeted = "yes"
        /\ IsFiniteSet(t.tries[m].callbacks)
        /\ t.tries[m].pipe = "connecting" => t.tries[m] = s.tries[m]
  BY <1>1 DEF Tries
<1>3. \A m \in 1 .. Len(t.tries) : t.tries[m].finished = FALSE <=> t.phase = "connecting" /\ m = Len(t.tries)
  BY <1>1, <1>2 DEF Tries
<1>4. \A m \in 1 .. Len(t.tries) : t.tries[m].pipe = "open" <=> m = t.conn
  BY <1>1, <1>2 DEF Tries
<1>5. \A m \in 1 .. Len(t.tries) : t.tries[m].pipe = "connecting" =>
        /\ t.tries[m].finished = FALSE /\ t.tries[m].greeted = "no"
        /\ t.tries[m].sent = {} /\ t.tries[m].callbacks = {}
  BY <1>1, <1>2 DEF Tries
<1>6. \A m \in 1 .. Len(t.tries) : t.tries[m].finished = FALSE => t.tries[m].pipe # "closed"
  BY <1>1, <1>2 DEF Tries
<1>7. t.phase = "attached" =>
        t.conn # 0 /\ t.tries[t.conn].path \in Here /\ t.tries[t.conn].greeted = "yes"
  <2>1. s.conn \in 0 .. Len(s.tries) /\ Len(s.tries) \in Nat
    BY LenProperties DEF Tries, State
  <2>2. s.conn # 0 => s.conn \in 1 .. Len(s.tries)
    BY <2>1
  <2> QED BY <2>2, <1>1, <1>2 DEF Tries
<1>8. /\ t.phase = "connecting" => Len(t.tries) >= 1
      /\ t.conn \in 0 .. Len(t.tries)
      /\ t.phase \in {"off", "fallback"} => t.conn = 0
      /\ t.phase = "connecting" => t.conn \in {0, Len(t.tries)}
  BY <1>1 DEF Tries
<1>9. \A m \in 1 .. Len(t.tries) : IsFiniteSet(t.tries[m].callbacks)
  BY <1>1, <1>2
<1> QED BY <1>3, <1>4, <1>5, <1>6, <1>7, <1>8, <1>9 DEF Tries, t

\* What is known of the try whose pipe is open.
LEMMA OpenTry ==
  ASSUME NEW s \in State, Tries(s), NEW n \in 1 .. Len(s.tries)
  PROVE  /\ s.tries[n] \in TryRecord /\ s.tries[n].finished \in BOOLEAN
         /\ s.tries[n].pipe = "open" <=> n = s.conn
         /\ s.tries[n].pipe = "open" => s.conn # 0 /\ s.phase \in {"connecting", "attached"}
         /\ s.tries[n].finished = FALSE <=> s.phase = "connecting" /\ n = Len(s.tries)
         /\ s.phase = "connecting" /\ s.tries[n].pipe = "open" => s.tries[n].finished = FALSE
         /\ s.tries[n].pipe = "connecting" => s.conn = 0 /\ s.tries[n].finished = FALSE
         /\ n \in Nat /\ IsFiniteSet(s.tries[n].callbacks)
<1>1. s.tries[n] \in TryRecord
  BY ElementOfSeq DEF State
<1>2. n \in Nat /\ n # 0 /\ Len(s.tries) \in Nat
  BY LenProperties DEF State
<1>3. s.phase \in {"off", "connecting", "attached", "fallback"} /\ s.conn \in Nat
  BY DEF State
<1>4. s.tries[n].pipe = "open" <=> n = s.conn
  BY DEF Tries
<1>5. s.tries[n].pipe = "open" => s.conn # 0 /\ s.phase \in {"connecting", "attached"}
  BY <1>2, <1>3, <1>4 DEF Tries
<1>6. s.tries[n].finished = FALSE <=> s.phase = "connecting" /\ n = Len(s.tries)
  BY DEF Tries
<1>7. s.phase = "connecting" /\ s.tries[n].pipe = "open" => s.tries[n].finished = FALSE
  BY <1>2, <1>4, <1>6 DEF Tries
<1>8. s.tries[n].pipe = "connecting" => s.conn = 0 /\ s.tries[n].finished = FALSE
  <2> SUFFICES ASSUME s.tries[n].pipe = "connecting" PROVE s.conn = 0 /\ s.tries[n].finished = FALSE
    OBVIOUS
  <2>1. s.tries[n].finished = FALSE
    BY DEF Tries
  <2>2. s.conn \in {0, n} /\ n # s.conn
    BY <2>1, <1>4, <1>6 DEF Tries
  <2> QED BY <2>1, <2>2
<1>9. s.tries[n].finished \in BOOLEAN /\ IsFiniteSet(s.tries[n].callbacks)
  BY <1>1 DEF TryRecord, Tries
<1> QED BY <1>1, <1>2, <1>4, <1>5, <1>6, <1>7, <1>8, <1>9

\* The state in which Neovim's queue has been emptied, or is being emptied.
LEMMA SoundFacts ==
  ASSUME AttachSound
  PROVE  /\ state \in State /\ Tries(state) /\ InFlight(state) /\ Queued(state)
         /\ transport \in BOOLEAN /\ (transport = TRUE <=> state.phase = "attached")
         /\ draining \in BOOLEAN /\ (~draining => ~Late(state))
         /\ tries = 1 .. Len(state.tries)
<1>1. state.tries \in Seq(TryRecord)
  BY DEF AttachSound, State
<1>2. tries = 1 .. Len(state.tries)
  BY <1>1, LenProperties DEF tries
<1> QED BY <1>2 DEF AttachSound

\* The attempt that an action finishes is followed by the next, or by the fallback.
LEMMA FinishedSound ==
  ASSUME AttachSound, NEW s \in State, Tries(s), Quiet(s), Ranged(s), HellosRanged(s),
         NEW n \in Nat, unfinished(s, n), NEW k \in 0 .. Len(s.tries[n].rest),
         s.phase = state.phase, state' = finish(s, n, k), transport' = transport,
         draining' \in BOOLEAN, \A x \in probes' : x.token \in Here
  PROVE  AttachSound'
<1> DEFINE t == finish(s, n, k)
<1>1. Settled(t)
  BY TryFinished
<1>2. s.phase = "connecting"
  BY DEF Tries, unfinished
<1>3. transport = FALSE
  BY <1>2, SoundFacts
<1> HIDE DEF t
<1>4. state' = t
  BY DEF t
<1>5. /\ t \in State /\ Tries(t) /\ InFlight(t) /\ Queued(t) /\ ~Late(t)
      /\ t.phase \in {"connecting", "fallback"}
  BY <1>1 DEF Settled
<1>6. transport' \in BOOLEAN /\ (transport' = TRUE <=> t.phase = "attached")
  BY <1>3, <1>5
<1> QED BY <1>4, <1>5, <1>6, SoundNext

\* A socket whose helper is gone refuses the connection.
LEMMA ConnectFailsKeeps ==
  ASSUME AttachSound, NEW n \in tries, ConnectFails(n)
  PROVE  AttachSound'
<1>1. PICK k \in refusals(n) : state' = finish(state, n, k)
  BY DEF ConnectFails
<1>2. n \in 1 .. Len(state.tries) /\ state \in State /\ Tries(state) /\ Queued(state) /\ InFlight(state)
  BY SoundFacts
<1>3. state.conn = 0 /\ state.tries[n].finished = FALSE /\ n \in Nat
  BY <1>2, OpenTry DEF ConnectFails
<1>4. Quiet(state) /\ Ranged(state) /\ HellosRanged(state)
  BY <1>2, <1>3, QuietUnpaired, HellosRangedSound
<1>5. unfinished(state, n)
  BY <1>2, <1>3 DEF unfinished
<1>6. k \in 0 .. Len(state.tries[n].rest)
  BY DEF refusals
<1>7. draining' \in BOOLEAN /\ transport' = transport /\ \A x \in probes' : x.token \in Here
  BY SoundFacts DEF ConnectFails, Uv, AttachSound
<1> QED BY <1>1, <1>2, <1>3, <1>4, <1>5, <1>6, <1>7, FinishedSound

\* The callback b that waits for the answer id on the pipe n is posted.
Called(s, n, id, ok, token, d) ==
  \E b \in s.tries[n].callbacks, x \in TryRecord :
    /\ b.id = id
    /\ x = [s.tries[n] EXCEPT !.callbacks = @ \ {c \in s.tries[n].callbacks : c.id = id}]
    /\ d = post(edited(s, n, x), [kind |-> b.kind, of |-> b.of, ok |-> ok, token |-> token])

\* dispatch_line calls the callback that waits for this answer, if one does.
LEMMA Dispatch ==
  ASSUME NEW s \in State, NEW n \in 1 .. Len(s.tries), n = s.conn, NEW id \in Nat, NEW ok \in BOOLEAN,
         NEW token \in Paths \cup {"none"}, NEW d, d = dispatched(s, id, ok, token)
  PROVE  \/ d = s /\ \A b \in s.tries[n].callbacks : b.id # id
         \/ Called(s, n, id, ok, token, d)
<1> DEFINE r == s.tries[n]
           C == {b \in r.callbacks : b.id = id}
           x == [r EXCEPT !.callbacks = @ \ C]
<1>1. r \in TryRecord /\ s.tries \in Seq(TryRecord)
  BY ElementOfSeq DEF State
<1>2. x \in TryRecord
  BY <1>1 DEF TryRecord
<1>3. CASE C = {}
  BY <1>3 DEF dispatched
<1>4. CASE C # {}
  <2> DEFINE b == CHOOSE b \in C : TRUE
  <2>1. b \in C
    BY <1>4
  <2>2. d =
          post([s EXCEPT !.tries[n].callbacks = @ \ C], [kind |-> b.kind, of |-> b.of, ok |-> ok, token |-> token])
    BY <1>4 DEF dispatched
  <2>3. [s EXCEPT !.tries[n].callbacks = @ \ C] = edited(s, n, x)
    BY <1>1 DEF edited, State, TryRecord
  <2> HIDE DEF b, x
  <2> QED BY <1>2, <2>1, <2>2, <2>3 DEF x, Called
<1> QED BY <1>3, <1>4

\* An item is posted.
LEMMA Posted ==
  ASSUME NEW s \in State, NEW it \in Item
  PROVE  LET t == post(s, it)
         IN  /\ t \in State /\ t.tries = s.tries /\ t.conn = s.conn /\ t.phase = s.phase
             /\ t.pairing_waiter = s.pairing_waiter /\ t.timers = s.timers
             /\ Items(t.loop) = Items(s.loop) \cup {it}
             /\ Unique(s.loop) /\ Fits(it, s.loop) => Unique(t.loop)
<1> DEFINE L == Append(s.loop, it)
           t == post(s, it)
<1>1. /\ L \in Seq(Item) /\ Items(L) = Items(s.loop) \cup {it}
      /\ Unique(s.loop) /\ Fits(it, s.loop) => Unique(L)
  BY ItemsAppend DEF State
<1>2. t = [s EXCEPT !.loop = L]
  BY DEF post, State
<1> HIDE DEF L, t
<1>3. /\ t \in State /\ t.tries = s.tries /\ t.conn = s.conn /\ t.phase = s.phase
      /\ t.pairing_waiter = s.pairing_waiter /\ t.timers = s.timers /\ t.loop = L
  BY <1>1, <1>2 DEF State
<1> QED BY <1>1, <1>3 DEF t

\* The answer to a request is posted to Neovim's queue.
LEMMA QuietPosted ==
  ASSUME NEW s \in State, Tries(s), Quiet(s), Ranged(s), HellosRanged(s), NEW it \in Item,
         it.kind = "request"
  PROVE  LET t == post(s, it)
         IN  /\ t \in State /\ Tries(t) /\ Quiet(t) /\ Ranged(t) /\ HellosRanged(t)
             /\ t.phase = s.phase
<1> DEFINE t == post(s, it)
<1>1. /\ t \in State /\ t.tries = s.tries /\ t.conn = s.conn /\ t.phase = s.phase
      /\ t.pairing_waiter = s.pairing_waiter /\ t.timers = s.timers
      /\ Items(t.loop) = Items(s.loop) \cup {it}
  BY Posted
<1> HIDE DEF t
<1>2. Tries(t) /\ HellosRanged(t)
  BY <1>1 DEF Tries, HellosRanged
<1>3. Quiet(t)
  <2>1. ~Live(it) /\ it.kind # "pairing_timeout"
    BY DEF Live
  <2> QED BY <2>1, <1>1 DEF Quiet
<1>4. Ranged(t)
  BY <1>1 DEF Ranged, Signals
<1> QED BY <1>1, <1>2, <1>3, <1>4 DEF t

\* demote, from a state in which nothing is to come.
LEMMA DemotedSound ==
  ASSUME AttachSound, NEW s \in State, Tries(s), Quiet(s), Ranged(s), HellosRanged(s),
         s.phase = "attached", demote(s), draining' \in BOOLEAN, \A x \in probes' : x.token \in Here
  PROVE  AttachSound'
<1> DEFINE t == demoted(s)
<1>1. Settled(t) /\ t.phase = "fallback"
  BY Demoted
<1> HIDE DEF t
<1>2. state' = t /\ transport' = FALSE
  BY DEF demote, t
<1>3. t \in State /\ Tries(t) /\ InFlight(t) /\ Queued(t) /\ ~Late(t)
  BY <1>1 DEF Settled
<1> QED BY <1>1, <1>2, <1>3, SoundNext

\* The messages in flight on one pipe become fewer.
withSent(s, n, S) == [s.tries[n] EXCEPT !.sent = S]

\* Fewer messages in flight change nothing else of the invariant's.
LEMMA SentFewer ==
  ASSUME NEW s \in State, Tries(s), NEW n \in 1 .. Len(s.tries), s.tries[n].pipe = "open",
         NEW S \in SUBSET s.tries[n].sent
  PROVE  LET t == edited(s, n, withSent(s, n, S))
         IN  /\ t \in State /\ Tries(t) /\ t.phase = s.phase /\ t.conn = s.conn
             /\ Len(t.tries) = Len(s.tries)
             /\ withSent(s, n, S) \in TryRecord /\ t.tries[n] = withSent(s, n, S)
             /\ t.tries[n].callbacks = s.tries[n].callbacks /\ t.tries[n].rest = s.tries[n].rest
             /\ t.tries[n].finished = s.tries[n].finished
             /\ t.tries[n].pipe = s.tries[n].pipe
             /\ \A m \in 1 .. Len(s.tries) : m # n => t.tries[m] = s.tries[m]
             /\ Quiet(s) => Quiet(t)
             /\ Ranged(s) => Ranged(t)
             /\ HellosRanged(s) => HellosRanged(t)
             /\ t = [s EXCEPT !.tries[n].sent = S]
<1> DEFINE r == s.tries[n]
           x == withSent(s, n, S)
           t == edited(s, n, x)
<1>1. r \in TryRecord /\ IsFiniteSet(r.callbacks) /\ n = s.conn /\ s.tries \in Seq(TryRecord)
  BY OpenTry DEF State
<1>2. /\ x \in TryRecord /\ x.finished = r.finished /\ x.pipe = r.pipe /\ x.path = r.path
      /\ x.greeted = r.greeted /\ x.callbacks = r.callbacks /\ x.rest = r.rest
  BY <1>1 DEF TryRecord, withSent
<1>3. t = [s EXCEPT !.tries[n].sent = S]
  BY <1>1 DEF edited, withSent, State
<1> HIDE DEF x
<1>4. /\ t \in State /\ Len(t.tries) = Len(s.tries) /\ t.tries[n] = x
      /\ t.phase = s.phase /\ t.conn = s.conn
      /\ \A m \in 1 .. Len(s.tries) : m # n => t.tries[m] = s.tries[m]
      /\ Quiet(s) => Quiet(t)
      /\ Ranged(s) => Ranged(t)
  BY <1>2, TryEdited
<1>5. Tries(t)
  BY <1>1, <1>2, TriesEdited
<1>6. HellosRanged(s) => HellosRanged(t)
  <2> HIDE DEF t
  <2> QED BY <1>1, <1>2, <1>4 DEF HellosRanged
<1> QED BY <1>2, <1>3, <1>4, <1>5, <1>6 DEF x

\* What waits for an answer on the open pipe.
LEMMA Outstanding ==
  ASSUME NEW s \in State, InFlight(s), NEW n \in Nat, n = s.conn, n # 0
  PROVE  /\ s.tries[n].finished = FALSE /\ s.tries[n].sent # {} => s.tries[n].greeted = "no"
         /\ s.tries[n].finished = TRUE => \A m \in s.tries[n].sent : m.kind = "request"
         /\ s.tries[n].finished = TRUE => \A c \in s.tries[n].callbacks : c.kind = "request"
<1> DEFINE t == s.tries[n]
<1>1. /\ t.finished = FALSE => \/ t.sent = {} /\ t.callbacks = {}
                              \/ t.greeted = "no"
      /\ t.finished = TRUE => /\ \A m \in t.sent : m.kind = "request"
                              /\ \A c \in t.callbacks : c.kind = "request"
  BY Zenon DEF InFlight
<1> QED BY <1>1

\* The read callback that sees the socket close finishes the try, or demotes.
LEMMA ClosedKeeps ==
  ASSUME AttachSound, mishaps = 0, mishaps' = 0, NEW n \in tries, Closed(n)
  PROVE  AttachSound'
<1> DEFINE ended == edited(state, n, withSent(state, n, {}))
<1>1. /\ n \in 1 .. Len(state.tries) /\ state \in State /\ Tries(state) /\ Queued(state)
      /\ InFlight(state) /\ ~Late(state) /\ state.tries[n].pipe = "open" /\ n \in Nat
  BY SoundFacts DEF Closed, Uv
<1>2. /\ state.tries[n] \in TryRecord /\ n = state.conn /\ state.conn # 0
      /\ state.phase \in {"connecting", "attached"}
      /\ state.phase = "connecting" => state.tries[n].finished = FALSE
      /\ state.tries[n].finished \in BOOLEAN
      /\ state.tries[n].finished = FALSE => state.phase = "connecting"
  BY <1>1, OpenTry
<1>3. HellosRanged(state)
  BY <1>1, HellosRangedSound
<1>4. Quiet(state) /\ Ranged(state)
  <2>1. CASE state.tries[n].finished = TRUE
    BY <1>1, <1>2, <2>1, QuietOver
  <2>2. CASE state.tries[n].finished = FALSE
    <3>1. state.tries[n].greeted \in {"no", "yes", "refused"}
      BY <1>2 DEF TryRecord
    <3>2. \/ state.tries[n].greeted = "refused"
          \/ state.tries[n].greeted = "no" /\ state.tries[n].sent # {}
          \/ state.tries[n].greeted = "yes" /\ state.tries[n].sent # {}
      BY <2>2, <3>1 DEF Closed, happens, mayHangUp, orderly
    <3>3. state.tries[n].sent # {} => state.tries[n].greeted = "no"
      BY <2>2, <1>1, <1>2, Outstanding
    <3> QED BY <3>2, <3>3, <1>1, <1>2, QuietUnpaired
  <2> QED BY <1>2, <2>1, <2>2
<1>5. {} \in SUBSET state.tries[n].sent
  OBVIOUS
<1>6. /\ ended \in State /\ Tries(ended) /\ ended.phase = state.phase /\ ended.conn = state.conn
      /\ Len(ended.tries) = Len(state.tries)
      /\ withSent(state, n, {}) \in TryRecord /\ ended.tries[n] = withSent(state, n, {})
      /\ ended.tries[n].rest = state.tries[n].rest
      /\ ended.tries[n].finished = state.tries[n].finished
      /\ Quiet(ended) /\ Ranged(ended) /\ HellosRanged(ended)
      /\ ended = [state EXCEPT !.tries[n].sent = {}]
  BY <1>1, <1>3, <1>4, <1>5, SentFewer
<1>7. draining' \in BOOLEAN /\ \A x \in probes' : x.token \in Here
  BY SoundFacts DEF Closed, Uv, AttachSound
<1> HIDE DEF ended
<1>8. CASE state.phase = "attached"
  <2>1. demote([ended EXCEPT !.tries[n].pipe = IF state.conn = n THEN @ ELSE "closed"])
    BY <1>6, <1>8 DEF Closed
  <2>2. [ended EXCEPT !.tries[n].pipe = IF state.conn = n THEN @ ELSE "closed"] = ended
    <3>1. [ended.tries[n] EXCEPT !.pipe = IF state.conn = n THEN @ ELSE "closed"] = ended.tries[n]
      BY <1>2, <1>6 DEF TryRecord
    <3>2. ended.tries \in Seq(TryRecord) /\ n \in DOMAIN ended.tries
      BY <1>1, <1>6, LenProperties DEF State
    <3>3. [ended.tries EXCEPT ![n] = ended.tries[n]] = ended.tries
      BY <3>2
    <3>4. [ended EXCEPT !.tries = ended.tries] = ended
      BY <1>6 DEF State
    <3>5. [ended EXCEPT !.tries[n].pipe = IF state.conn = n THEN @ ELSE "closed"]
            = [ended EXCEPT !.tries = [ended.tries EXCEPT ![n] =
                  [ended.tries[n] EXCEPT !.pipe = IF state.conn = n THEN @ ELSE "closed"]]]
      BY <1>6 DEF State
    <3> QED BY <3>1, <3>3, <3>4, <3>5
  <2>3. demote(ended)
    BY <2>1, <2>2
  <2> QED BY <1>6, <1>7, <1>8, <2>3, DemotedSound
<1>9. CASE state.phase # "attached"
  <2>1. PICK k \in refusals(n) : state' = finish(ended, n, k)
    BY <1>6, <1>9 DEF Closed
  <2>2. transport' = transport
    BY <1>9 DEF Closed
  <2>3. unfinished(ended, n)
    BY <1>1, <1>2, <1>6, <1>9 DEF unfinished
  <2>4. k \in 0 .. Len(ended.tries[n].rest)
    BY <1>6 DEF refusals
  <2> QED BY <1>1, <1>6, <1>7, <2>1, <2>2, <2>3, <2>4, FinishedSound
<1> QED BY <1>8, <1>9

\* The write callback that fails demotes.
LEMMA WriteFailsKeeps ==
  ASSUME AttachSound, mishaps = 0, mishaps' = 0, NEW n \in tries, WriteFails(n)
  PROVE  AttachSound'
<1>1. /\ n \in 1 .. Len(state.tries) /\ state \in State /\ Tries(state) /\ Queued(state)
      /\ InFlight(state) /\ ~Late(state) /\ state.tries[n].pipe = "open" /\ n \in Nat
  BY SoundFacts DEF WriteFails, Uv
<1>2. /\ state.tries[n] \in TryRecord /\ n = state.conn /\ state.conn # 0
      /\ state.phase \in {"connecting", "attached"}
      /\ state.phase = "connecting" => state.tries[n].finished = FALSE
      /\ state.tries[n].finished \in BOOLEAN
  BY <1>1, OpenTry
<1>3. PICK m \in state.tries[n].sent :
        demote(IF state.conn = 0 THEN [state EXCEPT !.tries[n].sent = @ \ {m}]
               ELSE dispatched([state EXCEPT !.tries[n].sent = @ \ {m}], m.id, FALSE, "none"))
  BY DEF WriteFails
<1>4. state.tries[n].finished = TRUE /\ state.phase = "attached"
  <2>1. state.tries[n].finished = FALSE => state.tries[n].greeted # "yes" /\ state.tries[n].greeted = "no"
    BY <1>1, <1>2, <1>3, Outstanding
  <2>2. state.tries[n].finished = TRUE
    BY <1>2, <2>1 DEF WriteFails, happens, orderly
  <2> QED BY <1>2, <2>2
<1>5. Quiet(state) /\ Ranged(state) /\ HellosRanged(state)
  BY <1>1, <1>2, <1>4, QuietOver, HellosRangedSound
<1>6. PICK S \in SUBSET state.tries[n].sent : S = state.tries[n].sent \ {m}
  OBVIOUS
<1> DEFINE u == edited(state, n, withSent(state, n, S))
<1>7. /\ u \in State /\ Tries(u) /\ u.phase = state.phase /\ u.conn = state.conn
      /\ Len(u.tries) = Len(state.tries)
      /\ u.tries[n].callbacks = state.tries[n].callbacks
      /\ u.tries[n].finished = state.tries[n].finished /\ u.tries[n].pipe = state.tries[n].pipe
      /\ u.tries[n] \in TryRecord
      /\ Quiet(u) /\ Ranged(u) /\ HellosRanged(u)
      /\ u = [state EXCEPT !.tries[n].sent = S]
  BY <1>1, <1>5, SentFewer
<1>8. [state EXCEPT !.tries[n].sent = @ \ {m}] = u
  BY <1>1, <1>2, <1>6, <1>7 DEF State, TryRecord
<1> HIDE DEF u
<1> DEFINE d == dispatched(u, m.id, FALSE, "none")
<1>9. demote(d)
  BY <1>2, <1>3, <1>8
<1>10. d \in State /\ Tries(d) /\ Quiet(d) /\ Ranged(d) /\ HellosRanged(d) /\ d.phase = "attached"
  <2>1. m.id \in Nat
    BY <1>2, <1>3 DEF TryRecord, Message
  <2>2. CASE d = u
    BY <2>2, <1>4, <1>7
  <2>3. CASE Called(u, n, m.id, FALSE, "none", d)
    <3>1. PICK b \in u.tries[n].callbacks, x \in TryRecord :
              /\ x = [u.tries[n] EXCEPT !.callbacks = @ \ {c \in u.tries[n].callbacks : c.id = m.id}]
              /\ d = post(edited(u, n, x), [kind |-> b.kind, of |-> b.of, ok |-> FALSE, token |-> "none"])
      BY <2>3 DEF Called
    <3> DEFINE e == edited(u, n, x)
               it == [kind |-> b.kind, of |-> b.of, ok |-> FALSE, token |-> "none"]
    <3>2. b \in Callback /\ b.kind = "request"
      <4>1. b \in state.tries[n].callbacks
        BY <1>7
      <4>2. state.tries[n].callbacks \subseteq Callback
        BY <1>2 DEF TryRecord
      <4> QED BY <4>1, <4>2, <1>1, <1>2, <1>4, Outstanding
    <3>3. it \in Item /\ it.kind = "request"
      BY <3>2 DEF Callback, Item
    <3>4. /\ x.finished = u.tries[n].finished /\ x.pipe = u.tries[n].pipe /\ x.path = u.tries[n].path
          /\ x.greeted = u.tries[n].greeted /\ x.callbacks \subseteq u.tries[n].callbacks
      BY <1>7, <3>1 DEF TryRecord
    <3>5. IsFiniteSet(x.callbacks)
      BY <3>4, <1>1, <1>7, FS_Subset DEF Tries
    <3>6. Tries(e)
      BY <1>1, <1>7, <3>4, <3>5, TriesEdited
    <3>7. /\ e \in State /\ Len(e.tries) = Len(u.tries) /\ e.tries[n] = x
          /\ e.phase = u.phase /\ e.conn = u.conn /\ Quiet(e) /\ Ranged(e)
      <4>1. n \in 1 .. Len(u.tries) /\ u \in State /\ Quiet(u) /\ Ranged(u)
        BY <1>1, <1>7
      <4> QED BY <4>1, TryEdited
    <3> HIDE DEF e, it
    <3>8. HellosRanged(e)
      BY <1>2, <1>7, <3>4, <3>7 DEF HellosRanged
    <3>9. d = post(e, it)
      BY <3>1 DEF e, it
    <3> HIDE DEF d
    <3> QED BY <3>3, <3>6, <3>7, <3>8, <3>9, <1>4, <1>7, QuietPosted
  <2>4. n \in 1 .. Len(u.tries) /\ n = u.conn /\ FALSE \in BOOLEAN /\ "none" \in Paths \cup {"none"}
    BY <1>1, <1>2, <1>7
  <2>5. d = u \/ Called(u, n, m.id, FALSE, "none", d)
    BY <1>7, <2>1, <2>4, Dispatch
  <2> QED BY <2>2, <2>3, <2>5
<1>11. draining' \in BOOLEAN /\ \A x \in probes' : x.token \in Here
  BY SoundFacts DEF WriteFails, Uv, AttachSound
<1> HIDE DEF d
<1> QED BY <1>9, <1>10, <1>11, DemotedSound

\* A try that was not greeted has nothing to come but the sending of its hello.
LEMMA QuietUngreeted ==
  ASSUME NEW s \in State, Tries(s), Queued(s), s.conn # 0 => s.tries[s.conn].greeted # "yes",
         \A it \in Items(s.loop) : it.kind # "connected"
  PROVE  Quiet(s)
<1>1. \A it \in Items(s.loop) : ~Live(it)
  BY DEF Queued, LiveIsCurrent, Live
<1>2. \A it \in Items(s.loop) : it.kind # "pairing_timeout"
  BY DEF Queued, PairingIsCurrent
<1>3. \A n \in Nat : <<"pairing", n>> \notin s.timers
  BY DEF Queued, PairingIsCurrent
<1>4. s.pairing_waiter = 0
  BY DEF Queued, WaiterIsCurrent
<1> QED BY <1>1, <1>2, <1>3, <1>4 DEF Quiet

\* The first callback on the queue, and the state without it.
LEMMA QueueTaken ==
  ASSUME AttachSound, state.loop # <<>>
  PROVE  /\ taken \in State /\ taken.tries = state.tries /\ taken.conn = state.conn
         /\ taken.phase = state.phase /\ taken.pairing_waiter = state.pairing_waiter
         /\ taken.timers = state.timers /\ taken.waiting = state.waiting
         /\ item \in Item /\ item \in Items(state.loop)
         /\ Items(state.loop) = {item} \cup Items(taken.loop)
         /\ Unique(taken.loop) /\ Fits(item, taken.loop)
         /\ Tries(taken) /\ InFlight(taken)
         /\ ~LiveHello(item) => Queued(taken)
<1> DEFINE t == taken
<1>1. state \in State /\ Queued(state) /\ Tries(state) /\ InFlight(state)
  BY SoundFacts
<1>2. /\ t \in State /\ t.tries = state.tries /\ t.conn = state.conn
      /\ t.phase = state.phase /\ t.pairing_waiter = state.pairing_waiter
      /\ t.timers = state.timers /\ t.waiting = state.waiting
      /\ item \in Item /\ item \in Items(state.loop)
      /\ Items(state.loop) = {item} \cup Items(t.loop)
      /\ Unique(state.loop) => Unique(t.loop) /\ Fits(item, t.loop)
  BY <1>1, Taken DEF taken, item
<1>3. Unique(t.loop) /\ Fits(item, t.loop)
  BY <1>1, <1>2 DEF Queued
<1>4. ~LiveHello(item) => Queued(t)
  BY <1>1, TakenSound DEF taken, item
<1> HIDE DEF t
<1>5. Tries(t) /\ InFlight(t)
  BY <1>1, <1>2 DEF Tries, InFlight
<1> QED BY <1>2, <1>3, <1>4, <1>5 DEF t

\* An action on the queue that leaves the tries and the connection as they are.
LEMMA TriesKept ==
  ASSUME AttachSound, NEW t \in State, t.tries = state.tries, t.conn = state.conn, t.phase = state.phase,
         Queued(t), state' = t, transport' = transport, draining' = (state'.loop # <<>>),
         \A x \in probes' : x.token \in Here
  PROVE  AttachSound'
<1>1. /\ state \in State /\ Queued(state) /\ Tries(state) /\ InFlight(state)
      /\ transport \in BOOLEAN /\ (transport = TRUE <=> state.phase = "attached")
  BY SoundFacts
<1>2. Tries(t) /\ InFlight(t)
  BY <1>1 DEF Tries, InFlight
<1>3. draining' \in BOOLEAN /\ (Late(t) => draining' = TRUE)
  BY EmptiedNotLate
<1> QED BY <1>1, <1>2, <1>3, SoundNext

\* A callback on the queue that finishes a try, or finds it finished.
LEMMA QueueFinishes ==
  ASSUME AttachSound, NEW s \in State, s.tries = state.tries, s.conn = state.conn, s.phase = state.phase,
         Queued(s), NEW n \in 1 .. Len(state.tries), NEW k \in refusals(n),
         state.tries[n].finished = FALSE => Quiet(s),
         state' = finish(s, n, k), transport' = transport, draining' = (state'.loop # <<>>),
         \A x \in probes' : x.token \in Here
  PROVE  AttachSound'
<1>1. /\ state \in State /\ Queued(state) /\ Tries(state) /\ InFlight(state)
  BY SoundFacts
<1>2. state.tries[n].finished \in BOOLEAN /\ n \in Nat
  BY <1>1, OpenTry
<1>3. CASE state.tries[n].finished = TRUE
  <2>1. state' = s
    BY <1>3 DEF finish
  <2> QED BY <2>1, TriesKept
<1>4. CASE state.tries[n].finished = FALSE
  <2>1. Tries(s) /\ InFlight(s)
    BY <1>1 DEF Tries, InFlight
  <2>2. HellosRanged(s) /\ Ranged(s)
    BY <2>1, HellosRangedSound DEF Queued
  <2>3. unfinished(s, n)
    BY <1>4 DEF unfinished
  <2>4. k \in 0 .. Len(s.tries[n].rest)
    BY DEF refusals
  <2>5. draining' \in BOOLEAN
    OBVIOUS
  <2> QED BY <1>2, <1>4, <2>1, <2>2, <2>3, <2>4, <2>5, FinishedSound
<1> QED BY <1>2, <1>3, <1>4

\* A helper refuses: its try is over.
LEMMA RefusedKeeps ==
  ASSUME AttachSound, Refused, draining' = (state'.loop # <<>>)
  PROVE  AttachSound'
<1> DEFINE s == [taken EXCEPT !.timers = @ \ {<<"hello", n0>>}]
<1>1. state.loop # <<>> /\ item.kind = "hello" /\ ~item.ok
  BY DEF Refused, Runs
<1>2. state \in State /\ Queued(state) /\ Tries(state)
  BY SoundFacts
<1>3. /\ taken \in State /\ taken.tries = state.tries /\ taken.conn = state.conn
      /\ taken.phase = state.phase /\ item \in Items(state.loop) /\ item \in Item
      /\ Unique(taken.loop) /\ Tries(taken)
  BY <1>1, QueueTaken
<1>4. item.ok = FALSE
  BY <1>1, <1>3 DEF Item, Signals
<1>5. Queued(taken)
  BY <1>1, <1>4, QueueTaken DEF LiveHello
<1>6. /\ s \in State /\ s.tries = taken.tries /\ s.conn = taken.conn /\ s.phase = taken.phase
      /\ s.pairing_waiter = taken.pairing_waiter /\ s.loop = taken.loop
      /\ s.timers \subseteq taken.timers
  BY <1>3 DEF State
<1>7. PICK k \in refusals(n0) : state' = finish(s, n0, k)
  BY DEF Refused
<1> HIDE DEF s
<1>8. /\ s.pairing_waiter \in {0, taken.pairing_waiter} /\ Items(s.loop) \subseteq Items(taken.loop)
      /\ Unique(s.loop) /\ \A it \in Items(taken.loop) : LiveHello(it) => it \in Items(s.loop)
  BY <1>3, <1>6
<1>9. Queued(s)
  BY <1>3, <1>5, <1>6, <1>8, FewerQueued
<1>10. n0 \in 1 .. Len(state.tries)
  BY <1>1, <1>2, <1>3 DEF n0, Queued, Ranged
<1>11. ASSUME state.tries[n0].finished = FALSE PROVE Quiet(s)
  <2>1. state.tries[n0].greeted = "refused"
    BY <1>1, <1>2, <1>3, <1>4, <1>11 DEF n0, Queued, HelloIsCurrent
  <2>2. state.tries[n0] \in TryRecord
    BY <1>2, <1>10, OpenTry
  <2>3. state.tries[n0].pipe = "open"
    BY <2>1, <2>2, <1>2, <1>10, <1>11 DEF Tries, TryRecord
  <2>4. n0 = s.conn /\ s.tries[s.conn].greeted = "refused"
    BY <2>1, <2>3, <1>2, <1>3, <1>6, <1>10, OpenTry
  <2>5. Tries(s)
    BY <1>3, <1>6 DEF Tries
  <2> QED BY <1>6, <1>9, <2>4, <2>5, QuietUnpaired
<1>12. transport' = transport /\ \A x \in probes' : x.token \in Here
  BY DEF Refused, AttachSound
<1> QED BY <1>3, <1>6, <1>7, <1>9, <1>10, <1>11, <1>12, QueueFinishes

\* A hello that is not answered in time: its try is over.
LEMMA HelloTimesOutKeeps ==
  ASSUME AttachSound, HelloTimesOut, draining' = (state'.loop # <<>>)
  PROVE  AttachSound'
<1>1. state.loop # <<>> /\ item.kind = "hello_timeout"
  BY DEF HelloTimesOut, Runs
<1>2. state \in State /\ Queued(state) /\ Tries(state)
  BY SoundFacts
<1>3. /\ taken \in State /\ taken.tries = state.tries /\ taken.conn = state.conn
      /\ taken.phase = state.phase /\ item \in Items(state.loop)
      /\ Items(state.loop) = {item} \cup Items(taken.loop) /\ Tries(taken)
  BY <1>1, QueueTaken
<1>4. Queued(taken)
  BY <1>1, QueueTaken DEF LiveHello
<1>5. PICK k \in refusals(n0) : state' = finish(taken, n0, k)
  BY DEF HelloTimesOut
<1>6. n0 \in 1 .. Len(state.tries)
  BY <1>1, <1>2, <1>3 DEF n0, Queued, Ranged, Signals
<1>7. ASSUME state.tries[n0].finished = FALSE PROVE Quiet(taken)
  <2>1. /\ n0 = state.conn /\ state.tries[n0].greeted # "yes"
        /\ \A other \in Items(state.loop) : other.kind # "connected"
    BY <1>1, <1>2, <1>3, <1>7 DEF n0, Queued, HelloIsCurrent
  <2> QED BY <2>1, <1>3, <1>4, QuietUngreeted
<1>8. transport' = transport /\ \A x \in probes' : x.token \in Here
  BY DEF HelloTimesOut, AttachSound
<1> QED BY <1>3, <1>4, <1>5, <1>6, <1>7, <1>8, QueueFinishes

\* A pairing that is not heard of in time: its try is over.
LEMMA PairingTimesOutKeeps ==
  ASSUME AttachSound, PairingTimesOut, draining' = (state'.loop # <<>>)
  PROVE  AttachSound'
<1>1. state.loop # <<>> /\ item.kind = "pairing_timeout"
  BY DEF PairingTimesOut, Runs
<1>2. state \in State /\ Queued(state) /\ Tries(state)
  BY SoundFacts
<1>3. /\ taken \in State /\ taken.tries = state.tries /\ taken.conn = state.conn
      /\ taken.phase = state.phase /\ item \in Items(state.loop) /\ taken.timers = state.timers
      /\ Items(state.loop) = {item} \cup Items(taken.loop)
      /\ Unique(taken.loop) /\ Fits(item, taken.loop)
  BY <1>1, QueueTaken
<1>4. Queued(taken)
  BY <1>1, QueueTaken DEF LiveHello
<1>5. transport' = transport /\ \A x \in probes' : x.token \in Here
  BY DEF PairingTimesOut, AttachSound
<1>6. CASE state.pairing_waiter = 0
  <2>1. state' = taken
    BY <1>6 DEF PairingTimesOut
  <2> QED BY <2>1, <1>3, <1>4, <1>5, TriesKept
<1>7. CASE state.pairing_waiter # 0
  <2> DEFINE s == [taken EXCEPT !.pairing_waiter = 0]
  <2>1. PICK k \in refusals(n0) : state' = finish(s, n0, k)
    BY <1>7 DEF PairingTimesOut
  <2>2. /\ s \in State /\ s.tries = taken.tries /\ s.conn = taken.conn /\ s.phase = taken.phase
        /\ s.pairing_waiter = 0 /\ s.loop = taken.loop /\ s.timers = taken.timers
    BY <1>3 DEF State
  <2> HIDE DEF s
  <2>3. /\ s.pairing_waiter \in {0, taken.pairing_waiter} /\ Items(s.loop) \subseteq Items(taken.loop)
        /\ Unique(s.loop) /\ s.timers \subseteq taken.timers
        /\ \A it \in Items(taken.loop) : LiveHello(it) => it \in Items(s.loop)
    BY <1>3, <2>2
  <2>4. Queued(s)
    BY <1>3, <1>4, <2>2, <2>3, FewerQueued
  <2>5. n0 \in 1 .. Len(state.tries)
    BY <1>1, <1>2, <1>3 DEF n0, Queued, Ranged, Signals
  <2>6. \A it \in Items(state.loop) : ~Live(it)
    BY <1>2, <1>7 DEF Queued, WaiterIsCurrent
  <2>7. \A m \in Nat : <<"pairing", m>> \notin state.timers
    BY <1>1, <1>2, <1>3 DEF Queued, PairingIsCurrent
  <2>8. \A it \in Items(taken.loop) : it.kind # "pairing_timeout"
    BY <1>1, <1>3 DEF Fits
  <2>9. Quiet(s)
    BY <1>3, <2>2, <2>6, <2>7, <2>8 DEF Quiet
  <2> QED BY <1>3, <1>5, <2>1, <2>2, <2>4, <2>5, <2>9, QueueFinishes
<1> QED BY <1>6, <1>7

\* A probe that no helper hears is gone.
LEMMA ProbeUnheardKeeps ==
  ASSUME AttachSound, ProbeUnheard \/ UNCHANGED vars
  PROVE  AttachSound'
<1>1. UNCHANGED <<state, transport, draining>>
  BY DEF ProbeUnheard, vars
<1>2. \A x \in probes' : x.token \in Here
  BY DEF ProbeUnheard, vars, AttachSound
<1>3. /\ state \in State /\ Tries(state) /\ InFlight(state) /\ Queued(state)
      /\ transport \in BOOLEAN /\ (transport = TRUE <=> state.phase = "attached")
      /\ draining \in BOOLEAN /\ (Late(state) => draining = TRUE)
  BY DEF AttachSound
<1> QED BY <1>1, <1>2, <1>3, SoundNext

\* attach joins the scan there is, or begins one.
LEMMA AttachKeeps ==
  ASSUME AttachSound, NEW a \in Attaches, Attach(a)
  PROVE  AttachSound'
<1>1. /\ state \in State /\ Tries(state) /\ InFlight(state) /\ Queued(state)
      /\ transport \in BOOLEAN /\ (transport = TRUE <=> state.phase = "attached")
      /\ draining \in BOOLEAN /\ (Late(state) => draining = TRUE)
      /\ \A x \in probes : x.token \in Here
  BY DEF AttachSound
<1>2. transport' = transport /\ draining' = draining /\ probes' = probes
  BY DEF Attach, Command
<1>3. CASE state.phase = "attached"
  <2>1. state' = state
    BY <1>3 DEF Attach
  <2> QED BY <1>1, <1>2, <2>1, SoundNext
<1>4. CASE state.phase = "connecting"
  <2> DEFINE t == [state EXCEPT !.waiting = @ \cup {a}]
  <2>1. state' = t
    BY <1>4 DEF Attach
  <2>2. /\ t \in State /\ t.tries = state.tries /\ t.conn = state.conn /\ t.phase = state.phase
        /\ t.pairing_waiter = state.pairing_waiter /\ t.timers = state.timers /\ t.loop = state.loop
    BY <1>1 DEF State
  <2> HIDE DEF t
  <2>3. Tries(t) /\ InFlight(t)
    BY <1>1, <2>2 DEF Tries, InFlight
  <2>4. Unique(t.loop)
    BY <1>1, <2>2 DEF Queued
  <2>5. /\ t.pairing_waiter \in {0, state.pairing_waiter} /\ t.timers \subseteq state.timers
        /\ Items(t.loop) \subseteq Items(state.loop)
        /\ \A it \in Items(state.loop) : LiveHello(it) => it \in Items(t.loop)
    BY <2>2
  <2>6. Queued(t)
    BY <1>1, <2>2, <2>4, <2>5, FewerQueued
  <2>7. Late(t) => Late(state)
    BY <2>2 DEF Late
  <2> QED BY <1>1, <1>2, <2>1, <2>2, <2>3, <2>6, <2>7, SoundNext
<1>5. CASE state.phase \notin {"attached", "connecting"}
  <2> DEFINE s == [state EXCEPT !.phase = "connecting", !.waiting = @ \cup {a}]
  <2>1. PICK k \in 0 .. Len(Candidates) : state' = try_next(s, Candidates, k)
    BY <1>5 DEF Attach
  <2>2. /\ s \in State /\ s.tries = state.tries /\ s.conn = state.conn /\ s.phase = "connecting"
        /\ s.pairing_waiter = state.pairing_waiter /\ s.timers = state.timers /\ s.loop = state.loop
    BY <1>1 DEF State
  <2> HIDE DEF s
  <2>3. state.conn = 0
    BY <1>1, <1>5 DEF State, Tries
  <2>4. Quiet(state) /\ Ranged(state)
    BY <1>1, <2>3, QuietUnpaired
  <2>5. Quiet(s) /\ Ranged(s)
    BY <2>2, <2>4 DEF Quiet, Ranged
  <2>6. ASSUME NEW n \in 1 .. Len(state.tries)
        PROVE  /\ state.tries[n].finished = TRUE /\ state.tries[n].pipe = "closed"
               /\ IsFiniteSet(state.tries[n].callbacks)
    <3>1. /\ state.tries[n] \in TryRecord /\ state.tries[n].finished = TRUE
          /\ state.tries[n].pipe # "open" /\ state.tries[n].pipe # "connecting"
          /\ IsFiniteSet(state.tries[n].callbacks)
      BY <1>1, <1>5, <2>3, OpenTry
    <3> QED BY <3>1 DEF TryRecord
  <2>7. AllClosed(s)
    BY <2>2, <2>3, <2>6 DEF AllClosed, allOver
  <2>8. Candidates \in Seq(Paths)
    BY AttachAssumption DEF Paths
  <2>9. Settled(state')
    BY <2>1, <2>2, <2>5, <2>7, <2>8, NextTryBegun
  <2>10. PICK t \in State : t = state'
    BY <2>9 DEF Settled
  <2>11. Tries(t) /\ InFlight(t) /\ Queued(t) /\ ~Late(t) /\ t.phase \in {"connecting", "fallback"}
    BY <2>9, <2>10 DEF Settled
  <2> QED BY <1>1, <1>2, <1>5, <2>10, <2>11, SoundNext
<1> QED BY <1>3, <1>4, <1>5

\* A hello that has had no answer by now times out.
LEMMA HelloTimerKeeps ==
  ASSUME AttachSound, mishaps = 0, mishaps' = 0, NEW n \in tries, HelloTimer(n)
  PROVE  AttachSound'
<1> DEFINE s == [state EXCEPT !.timers = @ \ {<<"hello", n>>}]
           it == [kind |-> "hello_timeout", of |-> n]
<1>1. /\ n \in 1 .. Len(state.tries) /\ state \in State /\ Tries(state) /\ Queued(state)
      /\ InFlight(state) /\ ~Late(state) /\ n \in Nat
      /\ transport \in BOOLEAN /\ (transport = TRUE <=> state.phase = "attached")
  BY SoundFacts, OpenTry DEF HelloTimer, Uv
<1>2. \A o \in Items(state.loop) : o.kind = "hello" => o.of # n
  <2>1. DOMAIN state.loop = 1 .. Len(state.loop)
    BY <1>1, LenProperties DEF State
  <2>2. ~queued("hello", n)
    BY DEF HelloTimer, happens
  <2> QED BY <2>1, <2>2 DEF queued, Items
<1>3. <<"hello", n>> \in state.timers /\ state' = post(s, it)
  BY DEF HelloTimer
<1>4. it \in Item /\ it.kind = "hello_timeout" /\ it.of = n
  BY <1>1 DEF Item, Signals
<1>5. /\ s \in State /\ s.tries = state.tries /\ s.conn = state.conn /\ s.phase = state.phase
      /\ s.pairing_waiter = state.pairing_waiter /\ s.loop = state.loop
      /\ s.timers \subseteq state.timers
  BY <1>1 DEF State
<1> HIDE DEF s, it
<1>6. Fits(it, s.loop)
  BY <1>4 DEF Fits, Live
<1>7. PICK t : t = post(s, it)
  OBVIOUS
<1>8. /\ t \in State /\ t.tries = state.tries /\ t.conn = state.conn /\ t.phase = state.phase
      /\ t.pairing_waiter = state.pairing_waiter /\ t.timers \subseteq state.timers
      /\ Items(t.loop) = Items(state.loop) \cup {it}
      /\ Unique(t.loop)
  BY <1>1, <1>4, <1>5, <1>6, <1>7, Posted DEF Queued
<1>9. Tries(t) /\ InFlight(t)
  BY <1>1, <1>8 DEF Tries, InFlight
<1>10. \A o \in Items(t.loop) : o \in Items(state.loop) \/ (o = it /\ ~Live(o) /\ o.kind = "hello_timeout" /\ o.of = n)
  BY <1>4, <1>8 DEF Live
<1>11. Ranged(t)
  BY <1>1, <1>8, <1>10 DEF Queued, Ranged
<1>12. LiveIsCurrent(t)
  <2>1. \A o \in Items(t.loop) : Live(o) => o \in Items(state.loop) /\ (o.kind = "hello" => o.of # n)
    BY <1>2, <1>10
  <2>2. \A o \in Items(t.loop) : o.kind = "hello_timeout" => o \in Items(state.loop) \/ o.of = n
    BY <1>10
  <2> QED BY <2>1, <2>2, <1>1, <1>8 DEF Queued, LiveIsCurrent
<1>13. WaiterIsCurrent(t)
  BY <1>1, <1>8, <1>10 DEF Queued, WaiterIsCurrent
<1>14. PairingIsCurrent(t)
  <2>1. \A o \in Items(t.loop) : LiveHello(o) => o \in Items(state.loop)
    BY <1>10 DEF LiveHello
  <2>2. \A o \in Items(t.loop) : o.kind = "pairing_timeout" => o \in Items(state.loop)
    BY <1>10
  <2> QED BY <2>1, <2>2, <1>1, <1>8 DEF Queued, PairingIsCurrent
<1>15. HelloIsCurrent(t)
  <2>1. \A o \in Items(t.loop) : o.kind \in {"hello", "connected"} => o \in Items(state.loop)
    BY <1>10
  <2>2. ASSUME state.tries[n].finished = FALSE
        PROVE  /\ n = state.conn /\ state.tries[n].greeted # "yes"
               /\ \A o \in Items(state.loop) : o.kind # "connected"
    <3>1. /\ n = state.conn
          /\ \A o \in Items(state.loop) : o.kind # "connected"
          /\ state.tries[n].greeted = "yes" => \E o \in Items(state.loop) : LiveHello(o)
      BY <2>2, <1>1, <1>3 DEF Queued, HelloIsCurrent
    <3>2. \A o \in Items(state.loop) : LiveHello(o) => o.of = state.conn /\ o.kind = "hello"
      BY <1>1 DEF Queued, LiveIsCurrent, LiveHello, Live
    <3> QED BY <3>1, <3>2, <1>2
  <2>3. \A o \in Items(t.loop) : o.kind = "hello_timeout" /\ t.tries[o.of].finished = FALSE =>
          /\ o.of = t.conn /\ t.tries[o.of].greeted # "yes"
          /\ \A other \in Items(state.loop) : other.kind # "connected"
    BY <2>2, <1>1, <1>8, <1>10 DEF Queued, HelloIsCurrent
  <2>4. ASSUME NEW m \in 1 .. Len(t.tries), <<"hello", m>> \in t.timers, t.tries[m].finished = FALSE
        PROVE  /\ m = t.conn
               /\ \A other \in Items(state.loop) : other.kind # "connected"
               /\ t.tries[m].greeted = "yes" => \E o \in Items(t.loop) : LiveHello(o)
    BY <2>4, <1>1, <1>8 DEF Queued, HelloIsCurrent
  <2>5. \A o \in Items(t.loop) : o.kind = "hello" /\ o.ok = FALSE /\ t.tries[o.of].finished = FALSE =>
          t.tries[o.of].greeted = "refused"
    BY <2>1, <1>1, <1>8 DEF Queued, HelloIsCurrent
  <2> QED BY <2>1, <2>3, <2>4, <2>5 DEF HelloIsCurrent
<1>16. ~Late(t)
  BY <1>1, <1>8, <1>10 DEF Late
<1>17. transport' = transport /\ draining' \in BOOLEAN /\ \A x \in probes' : x.token \in Here
  BY SoundFacts DEF HelloTimer, Uv, AttachSound
<1>18. Queued(t)
  BY <1>8, <1>11, <1>12, <1>13, <1>14, <1>15 DEF Queued
<1> QED BY <1>1, <1>3, <1>7, <1>8, <1>9, <1>16, <1>17, <1>18, SoundNext

\* A pairing that has not been heard of by now times out.
LEMMA PairingTimerKeeps ==
  ASSUME AttachSound, NEW n \in tries, PairingTimer(n)
  PROVE  AttachSound'
<1> DEFINE s == [state EXCEPT !.timers = @ \ {<<"pairing", n>>}]
           it == [kind |-> "pairing_timeout", of |-> n]
<1>1. /\ n \in 1 .. Len(state.tries) /\ state \in State /\ Tries(state) /\ Queued(state)
      /\ InFlight(state) /\ ~Late(state) /\ n \in Nat
      /\ transport \in BOOLEAN /\ (transport = TRUE <=> state.phase = "attached")
  BY SoundFacts, OpenTry DEF PairingTimer, Uv
<1>2. <<"pairing", n>> \in state.timers /\ state' = post(s, it)
  BY DEF PairingTimer
<1>3. /\ state.conn # 0 /\ n = state.conn
      /\ state.tries[n].finished = FALSE /\ state.tries[n].greeted = "yes"
      /\ \A o \in Items(state.loop) : ~LiveHello(o)
  BY <1>1, <1>2 DEF Queued, PairingIsCurrent
<1>4. it \in Item /\ it.kind = "pairing_timeout" /\ it.of = n
  BY <1>1 DEF Item, Signals
<1>5. /\ s \in State /\ s.tries = state.tries /\ s.conn = state.conn /\ s.phase = state.phase
      /\ s.pairing_waiter = state.pairing_waiter /\ s.loop = state.loop
      /\ s.timers = state.timers \ {<<"pairing", n>>}
  BY <1>1 DEF State
<1> HIDE DEF s, it
<1>6. Fits(it, s.loop)
  <2>1. \A o \in Items(state.loop) : o.kind # "pairing_timeout"
    BY <1>1, <1>2 DEF Queued, PairingIsCurrent
  <2> QED BY <2>1, <1>4, <1>5 DEF Fits, Live
<1>7. PICK t : t = post(s, it)
  OBVIOUS
<1>8. /\ t \in State /\ t.tries = state.tries /\ t.conn = state.conn /\ t.phase = state.phase
      /\ t.pairing_waiter = state.pairing_waiter /\ t.timers = state.timers \ {<<"pairing", n>>}
      /\ Items(t.loop) = Items(state.loop) \cup {it}
      /\ Unique(t.loop)
  BY <1>1, <1>4, <1>5, <1>6, <1>7, Posted DEF Queued
<1>9. Tries(t) /\ InFlight(t)
  BY <1>1, <1>8 DEF Tries, InFlight
<1>10. \A o \in Items(t.loop) : o \in Items(state.loop) \/ (o = it /\ ~Live(o) /\ o.kind = "pairing_timeout" /\ o.of = n)
  BY <1>4, <1>8 DEF Live
<1>11. Ranged(t)
  BY <1>1, <1>8, <1>10 DEF Queued, Ranged
<1>12. LiveIsCurrent(t)
  <2>1. \A o \in Items(t.loop) : Live(o) => o \in Items(state.loop) /\ o.kind # "hello"
    BY <1>3, <1>10 DEF LiveHello, Live
  <2> QED BY <2>1, <1>1, <1>8 DEF Queued, LiveIsCurrent
<1>13. WaiterIsCurrent(t)
  BY <1>1, <1>8, <1>10 DEF Queued, WaiterIsCurrent
<1>14. PairingIsCurrent(t)
  <2>1. \A o \in Items(t.loop) : ~LiveHello(o)
    BY <1>3, <1>10 DEF LiveHello, Live
  <2>2. \A m \in Nat : <<"pairing", m>> \notin t.timers
    BY <1>1, <1>3, <1>8 DEF Queued, PairingIsCurrent
  <2>3. \A o \in Items(t.loop) : o.kind = "pairing_timeout" => o.of = n
    BY <1>1, <1>3, <1>10 DEF Queued, PairingIsCurrent
  <2> QED BY <2>1, <2>2, <2>3, <1>3, <1>8 DEF PairingIsCurrent
<1>15. HelloIsCurrent(t)
  <2>1. \A o \in Items(t.loop) : o.kind \in {"hello", "connected", "hello_timeout"} => o \in Items(state.loop)
    BY <1>10
  <2>2. ASSUME NEW m \in 1 .. Len(t.tries), <<"hello", m>> \in t.timers, t.tries[m].finished = FALSE
        PROVE  /\ m = t.conn
               /\ \A other \in Items(t.loop) : other.kind # "connected"
               /\ t.tries[m].greeted # "yes"
    BY <2>1, <2>2, <1>1, <1>3, <1>8 DEF Queued, HelloIsCurrent
  <2>3. \A o \in Items(t.loop) : o.kind = "hello_timeout" /\ t.tries[o.of].finished = FALSE =>
       /\ o.of = t.conn /\ t.tries[o.of].greeted # "yes"
       /\ \A other \in Items(t.loop) : other.kind # "connected"
    BY <2>1, <1>1, <1>8 DEF Queued, HelloIsCurrent
  <2>4. \A o \in Items(t.loop) : o.kind = "hello" /\ o.ok = FALSE /\ t.tries[o.of].finished = FALSE =>
       t.tries[o.of].greeted = "refused"
    BY <2>1, <1>1, <1>8 DEF Queued, HelloIsCurrent
  <2> QED BY <2>2, <2>3, <2>4 DEF HelloIsCurrent
<1>16. ~Late(t)
  BY <1>1, <1>3, <1>8, <1>10 DEF Late
<1>17. transport' = transport /\ draining' \in BOOLEAN /\ \A x \in probes' : x.token \in Here
  BY SoundFacts DEF PairingTimer, Uv, AttachSound
<1>18. Queued(t)
  BY <1>8, <1>11, <1>12, <1>13, <1>14, <1>15 DEF Queued
<1> QED BY <1>1, <1>2, <1>7, <1>8, <1>9, <1>16, <1>17, <1>18, SoundNext

\* The helper has seen the probe: the waiter of the pairing is called.
LEMMA PresentedKeeps ==
  ASSUME AttachSound, NEW n \in tries, Presented(n)
  PROVE  AttachSound'
<1>1. /\ n \in 1 .. Len(state.tries) /\ state \in State /\ Tries(state) /\ Queued(state)
      /\ InFlight(state) /\ ~Late(state) /\ n \in Nat
      /\ transport \in BOOLEAN /\ (transport = TRUE <=> state.phase = "attached")
  BY SoundFacts, OpenTry DEF Presented, Uv
<1>2. state.tries[n].pipe = "open" /\ state.tries[n].greeted = "yes" /\ state.tries[n].path \in Here
  BY DEF Presented, AttachSound
<1>3. n = state.conn /\ state.conn # 0
  BY <1>1, <1>2, OpenTry
<1>4. transport' = transport /\ draining' \in BOOLEAN /\ \A x \in probes' : x.token \in Here
  BY SoundFacts DEF Presented, Uv, AttachSound
<1>5. CASE state.pairing_waiter = 0
  <2>1. state' = state
    BY <1>5 DEF Presented
  <2> QED BY <1>1, <1>4, <2>1, SoundNext
<1>6. CASE state.pairing_waiter # 0
  <2> DEFINE s == [state EXCEPT !.pairing_waiter = 0]
             it == [kind |-> "waiter", of |-> state.pairing_waiter]
  <2>1. state' = post(s, it)
    BY <1>3, <1>6 DEF Presented
  <2>2. /\ state.pairing_waiter = n /\ state.tries[n].finished = FALSE
        /\ \A o \in Items(state.loop) : ~Live(o)
    BY <1>1, <1>3, <1>6 DEF Queued, WaiterIsCurrent
  <2>3. it \in Item /\ it.kind = "waiter" /\ it.of = n
    BY <1>1, <2>2 DEF Item, Signals
  <2>4. /\ s \in State /\ s.tries = state.tries /\ s.conn = state.conn /\ s.phase = state.phase
        /\ s.pairing_waiter = 0 /\ s.loop = state.loop
        /\ s.timers = state.timers
    BY <1>1 DEF State
  <2> HIDE DEF s, it
  <2>5. Fits(it, s.loop)
    BY <2>2, <2>3, <2>4 DEF Fits
  <2>6. PICK t : t = post(s, it)
    OBVIOUS
  <2>7. /\ t \in State /\ t.tries = state.tries /\ t.conn = state.conn /\ t.phase = state.phase
        /\ t.pairing_waiter = 0 /\ t.timers = state.timers
        /\ Items(t.loop) = Items(state.loop) \cup {it}
        /\ Unique(t.loop)
    BY <1>1, <2>3, <2>4, <2>5, <2>6, Posted DEF Queued
  <2>8. Tries(t) /\ InFlight(t)
    BY <1>1, <2>7 DEF Tries, InFlight
  <2>9. \A o \in Items(t.loop) : \/ o \in Items(state.loop) /\ ~Live(o)
                                 \/ o = it /\ o.kind = "waiter" /\ o.of = n
    BY <2>2, <2>3, <2>7
  <2>10. Ranged(t)
    BY <1>1, <2>7, <2>9 DEF Queued, Ranged
  <2>11. LiveIsCurrent(t)
    <3>1. \A o \in Items(t.loop) : Live(o) => o.kind = "waiter" /\ o.of = n
      BY <2>9
    <3> QED BY <3>1, <1>2, <1>3, <2>2, <2>7 DEF LiveIsCurrent
  <2>12. WaiterIsCurrent(t)
    BY <2>7 DEF WaiterIsCurrent
  <2>13. \A o \in Items(t.loop) : ~LiveHello(o) /\ o.kind # "connected"
    BY <2>9 DEF LiveHello, Live
  <2>14. PairingIsCurrent(t)
    <3>1. \A o \in Items(t.loop) : o.kind = "pairing_timeout" => o \in Items(state.loop)
      BY <2>9
    <3> QED BY <3>1, <2>13, <1>1, <2>7 DEF Queued, PairingIsCurrent
  <2>15. HelloIsCurrent(t)
    <3>1. \A o \in Items(t.loop) : o.kind \in {"hello", "hello_timeout"} => o \in Items(state.loop)
      BY <2>9
    <3>2. \A o \in Items(state.loop) : ~LiveHello(o)
      BY <2>2 DEF LiveHello, Live
    <3>3. ASSUME NEW m \in 1 .. Len(t.tries), <<"hello", m>> \in t.timers, t.tries[m].finished = FALSE
          PROVE  m = t.conn /\ t.tries[m].greeted # "yes"
      BY <3>2, <3>3, <1>1, <2>7 DEF Queued, HelloIsCurrent
    <3>4. \A o \in Items(t.loop) : o.kind = "hello_timeout" /\ t.tries[o.of].finished = FALSE =>
            o.of = t.conn /\ t.tries[o.of].greeted # "yes"
      BY <3>1, <1>1, <2>7 DEF Queued, HelloIsCurrent
    <3>5. \A o \in Items(t.loop) : o.kind = "hello" /\ o.ok = FALSE /\ t.tries[o.of].finished = FALSE =>
            t.tries[o.of].greeted = "refused"
      BY <3>1, <1>1, <2>7 DEF Queued, HelloIsCurrent
    <3> QED BY <2>13, <3>3, <3>4, <3>5 DEF HelloIsCurrent
  <2>16. ~Late(t)
    BY <1>1, <2>7, <2>9 DEF Late
  <2>17. Queued(t)
    BY <2>7, <2>10, <2>11, <2>12, <2>14, <2>15 DEF Queued
  <2> QED BY <1>1, <1>4, <2>1, <2>6, <2>7, <2>8, <2>16, <2>17, SoundNext
<1> QED BY <1>5, <1>6

\* The socket of the one try there is connects.
LEMMA ConnectsKeeps ==
  ASSUME AttachSound, NEW n \in tries, Connects(n)
  PROVE  AttachSound'
<1> DEFINE r == state.tries[n]
           x == [r EXCEPT !.pipe = "open"]
           e == edited(state, n, x)
           s == [e EXCEPT !.conn = n]
           it == [kind |-> "connected", of |-> n]
<1>1. /\ n \in 1 .. Len(state.tries) /\ state \in State /\ Tries(state) /\ Queued(state)
      /\ InFlight(state) /\ ~Late(state) /\ n \in Nat /\ n # 0
      /\ transport \in BOOLEAN /\ (transport = TRUE <=> state.phase = "attached")
  BY SoundFacts, OpenTry DEF Connects, Uv
<1>2. /\ r \in TryRecord /\ r.pipe = "connecting" /\ state.conn = 0 /\ r.finished = FALSE
      /\ state.phase = "connecting" /\ n = Len(state.tries)
  BY <1>1, OpenTry DEF Connects
<1>3. r.greeted = "no" /\ r.sent = {} /\ r.callbacks = {}
  BY <1>1, <1>2 DEF Tries
<1>4. /\ x \in TryRecord /\ x.pipe = "open" /\ x.finished = FALSE /\ x.greeted = "no" /\ x.sent = {}
      /\ x.callbacks = {}
  BY <1>2, <1>3 DEF TryRecord
<1>5. state' = post(s, it)
  <2>1. [state EXCEPT !.tries[n].pipe = "open", !.conn = n] = s
    BY <1>1 DEF edited, State
  <2> QED BY <2>1 DEF Connects
<1> HIDE DEF x
<1>6. Quiet(state) /\ Ranged(state)
  BY <1>1, <1>2, QuietUnpaired
<1>7. /\ e \in State /\ Len(e.tries) = Len(state.tries) /\ e.tries[n] = x
      /\ \A m \in 1 .. Len(state.tries) : m # n => e.tries[m] = state.tries[m]
      /\ e.phase = state.phase
      /\ e.pairing_waiter = state.pairing_waiter /\ e.timers = state.timers /\ e.loop = state.loop
  BY <1>1, <1>4, TryEdited
<1> HIDE DEF e
<1>8. /\ s \in State /\ s.tries = e.tries /\ s.conn = n /\ s.phase = e.phase
      /\ s.pairing_waiter = e.pairing_waiter /\ s.loop = e.loop /\ s.timers = e.timers
  BY <1>1, <1>7 DEF State
<1>9. it \in Item /\ it.kind = "connected" /\ it.of = n
  BY <1>1 DEF Item, Signals
<1> HIDE DEF s, it
<1>10. Fits(it, s.loop)
  BY <1>6, <1>7, <1>8, <1>9 DEF Fits, Quiet
<1>11. PICK t : t = post(s, it)
  OBVIOUS
<1>12. /\ t \in State /\ t.tries = e.tries /\ t.conn = n /\ t.phase = "connecting"
       /\ t.pairing_waiter = 0 /\ t.timers = state.timers
       /\ Items(t.loop) = Items(state.loop) \cup {it}
       /\ Unique(t.loop) /\ Len(t.tries) = Len(state.tries) /\ t.tries[n] = x
       /\ \A m \in 1 .. Len(state.tries) : m # n => t.tries[m] = state.tries[m]
  <2>1. Unique(s.loop) /\ state.pairing_waiter = 0
    BY <1>1, <1>6, <1>7, <1>8 DEF Queued, Quiet
  <2>2. /\ t \in State /\ t.tries = s.tries /\ t.conn = s.conn /\ t.phase = s.phase
        /\ t.pairing_waiter = s.pairing_waiter /\ t.timers = s.timers
        /\ Items(t.loop) = Items(s.loop) \cup {it}
        /\ Unique(t.loop)
    BY <2>1, <1>8, <1>9, <1>10, <1>11, Posted
  <2> QED BY <2>1, <2>2, <1>2, <1>7, <1>8
<1>13. \A m \in 1 .. Len(state.tries) : m # n =>
         /\ t.tries[m].finished = TRUE /\ t.tries[m].pipe = "closed" /\ IsFiniteSet(t.tries[m].callbacks)
  <2> SUFFICES ASSUME NEW m \in 1 .. Len(state.tries), m # n
               PROVE  /\ state.tries[m].finished = TRUE /\ state.tries[m].pipe = "closed"
                      /\ IsFiniteSet(state.tries[m].callbacks)
    BY <1>12
  <2>1. /\ state.tries[m] \in TryRecord /\ state.tries[m].finished = TRUE /\ m # state.conn
        /\ state.tries[m].pipe # "open" /\ state.tries[m].pipe # "connecting"
        /\ IsFiniteSet(state.tries[m].callbacks)
    BY <1>1, <1>2, OpenTry
  <2> QED BY <2>1 DEF TryRecord
<1>14. Tries(t)
  <2>1. \A m \in 1 .. Len(t.tries) : t.tries[m].finished = FALSE <=> m = n
    BY <1>4, <1>12, <1>13
  <2>2. \A m \in 1 .. Len(t.tries) : t.tries[m].pipe = "open" <=> m = n
    BY <1>4, <1>12, <1>13
  <2>3. \A m \in 1 .. Len(t.tries) : t.tries[m].pipe # "connecting"
    BY <1>4, <1>12, <1>13
  <2>4. \A m \in 1 .. Len(t.tries) : IsFiniteSet(t.tries[m].callbacks)
    BY <1>4, <1>12, <1>13, FS_EmptySet
  <2>5. Len(t.tries) \in Nat /\ Len(t.tries) >= 1 /\ n = Len(t.tries) /\ n \in 0 .. Len(t.tries)
    BY <1>1, <1>2, <1>12, LenProperties DEF State
  <2> QED BY <2>1, <2>2, <2>3, <2>4, <2>5, <1>12 DEF Tries
<1>15. InFlight(t)
  BY <1>1, <1>4, <1>12 DEF InFlight
<1>16. \A o \in Items(t.loop) : \/ o \in Items(state.loop) /\ ~Live(o) /\ o.kind # "pairing_timeout"
                                \/ o = it /\ o.kind = "connected" /\ o.of = n
  BY <1>6, <1>9, <1>12 DEF Quiet
<1>17. Ranged(t)
  BY <1>1, <1>6, <1>12, <1>16 DEF Ranged
<1>18. LiveIsCurrent(t)
  <2>1. \A o \in Items(t.loop) : Live(o) => o.kind = "connected" /\ o.of = n
    BY <1>16
  <2> QED BY <2>1, <1>1, <1>4, <1>12 DEF LiveIsCurrent
<1>19. WaiterIsCurrent(t) /\ PairingIsCurrent(t)
  BY <1>6, <1>12, <1>16 DEF WaiterIsCurrent, PairingIsCurrent, Quiet
<1>20. HelloIsCurrent(t)
  <2>1. \A o \in Items(t.loop) : o.kind \in {"hello", "hello_timeout"} =>
          o \in Items(state.loop) /\ o.of \in 1 .. Len(state.tries)
    BY <1>6, <1>16 DEF Ranged, Signals
  <2>2. \A o \in Items(t.loop) : o.kind = "hello_timeout" => o.of # n
    <3>1. \A o \in Items(state.loop) : o.kind = "hello_timeout" /\ o.of = n => o.of = state.conn
      BY <1>1, <1>2 DEF Queued, HelloIsCurrent
    <3> QED BY <3>1, <2>1, <1>1, <1>2
  <2>3. <<"hello", n>> \notin t.timers
    BY <1>1, <1>2, <1>12 DEF Queued, HelloIsCurrent
  <2>4. \A o \in Items(t.loop) : o.kind = "hello" /\ o.ok = FALSE => o.of # n
    <3>1. \A o \in Items(state.loop) : o.kind = "hello" /\ o.ok = FALSE /\ o.of = n => r.greeted = "refused"
      BY <1>1, <1>2 DEF Queued, HelloIsCurrent
    <3> QED BY <3>1, <2>1, <1>3
  <2>5. \A o \in Items(t.loop) : o.kind = "hello_timeout" => t.tries[o.of].finished = TRUE
    BY <2>1, <2>2, <1>13
  <2>6. \A o \in Items(t.loop) : o.kind = "hello" /\ o.ok = FALSE => t.tries[o.of].finished = TRUE
    BY <2>1, <2>4, <1>13
  <2>7. \A m \in 1 .. Len(t.tries) : <<"hello", m>> \in t.timers => t.tries[m].finished = TRUE
    BY <2>3, <1>12, <1>13
  <2> QED BY <2>5, <2>6, <2>7 DEF HelloIsCurrent
<1>21. ~Late(t)
  BY <1>16 DEF Late
<1>22. transport' = transport /\ draining' \in BOOLEAN /\ \A y \in probes' : y.token \in Here
  BY SoundFacts DEF Connects, Uv, AttachSound
<1>23. Queued(t)
  BY <1>12, <1>17, <1>18, <1>19, <1>20 DEF Queued
<1> QED BY <1>1, <1>2, <1>5, <1>11, <1>12, <1>14, <1>15, <1>21, <1>22, <1>23, SoundNext

\* The handshake starts: the hello is sent on the pipe that has connected.
LEMMA SendHelloKeeps ==
  ASSUME AttachSound, SendHello, draining' = (state'.loop # <<>>)
  PROVE  AttachSound'
<1>1. state.loop # <<>> /\ item.kind = "connected"
  BY DEF SendHello, Runs
<1>2. /\ state \in State /\ Queued(state) /\ Tries(state) /\ InFlight(state)
      /\ transport \in BOOLEAN /\ (transport = TRUE <=> state.phase = "attached")
  BY SoundFacts
<1>3. /\ taken \in State /\ taken.tries = state.tries /\ taken.conn = state.conn
      /\ taken.phase = state.phase /\ taken.pairing_waiter = state.pairing_waiter
      /\ taken.timers = state.timers
      /\ item \in Item /\ item \in Items(state.loop)
      /\ Items(state.loop) = {item} \cup Items(taken.loop)
      /\ Unique(taken.loop) /\ Fits(item, taken.loop) /\ Tries(taken) /\ InFlight(taken)
  BY <1>1, QueueTaken
<1>4. Queued(taken)
  BY <1>1, QueueTaken DEF LiveHello
<1> DEFINE n == n0
           r == state.tries[n]
           s == [taken EXCEPT !.timers = @ \cup {<<"hello", n>>}]
<1>5. /\ state.conn # 0 /\ n = state.conn /\ r.finished = FALSE /\ r.greeted = "no"
      /\ r.sent = {} /\ r.callbacks = {}
  BY <1>1, <1>2, <1>3 DEF Queued, LiveIsCurrent, Live, n0
<1>6. n \in 1 .. Len(state.tries) /\ n \in Nat
  BY <1>2, <1>5, LenProperties DEF Tries, State
<1>7. /\ s \in State /\ s.tries = state.tries /\ s.conn = n /\ s.phase = state.phase
      /\ s.pairing_waiter = state.pairing_waiter /\ s.loop = taken.loop
      /\ s.timers = state.timers \cup {<<"hello", n>>}
  <2> DEFINE T == taken.timers \cup {<<"hello", n>>}
  <2>1. T \in SUBSET ({"hello", "pairing"} \X Nat)
    BY <1>3, <1>6 DEF State
  <2>2. s = [taken EXCEPT !.timers = T]
    BY <1>3 DEF State
  <2>3. T = state.timers \cup {<<"hello", n>>}
    BY <1>3
  <2> HIDE DEF T, s
  <2> QED BY <2>1, <2>2, <2>3, <1>3, <1>5 DEF State
<1>8. r \in TryRecord /\ state.tries \in Seq(TryRecord) /\ r.pipe = "open"
  BY <1>2, <1>5, <1>6, OpenTry DEF State
<1> HIDE DEF s
<1>9. PICK id \in Nat : id = r.next_id + 1
  BY <1>8 DEF TryRecord
<1> DEFINE x == [r EXCEPT !.next_id = id,
                          !.callbacks = @ \cup {[id |-> id, kind |-> "hello", of |-> n]},
                          !.sent = @ \cup {[id |-> id, kind |-> "hello"]}]
           t == edited(s, n, x)
<1>10. state' = t
  <2>1. state' = send_request(s, "hello", n)
    BY DEF SendHello, s
  <2>2. send_request(s, "hello", n) = [s EXCEPT !.tries[n].next_id = id,
                     !.tries[n].callbacks = @ \cup {[id |-> id, kind |-> "hello", of |-> n]},
                     !.tries[n].sent = @ \cup {[id |-> id, kind |-> "hello"]}]
    BY <1>5, <1>7, <1>9 DEF send_request
  <2>3. s.tries = state.tries /\ s.tries[n] = r /\ n \in DOMAIN s.tries
    BY <1>6, <1>7, <1>8, LenProperties
  <2>4. PICK y : y = send_request(s, "hello", n)
    OBVIOUS
  <2>5. y = [s EXCEPT !.tries[n].next_id = id,
                     !.tries[n].callbacks = @ \cup {[id |-> id, kind |-> "hello", of |-> n]},
                     !.tries[n].sent = @ \cup {[id |-> id, kind |-> "hello"]}]
    BY <2>2, <2>4
  <2>6. y.tries = [s.tries EXCEPT ![n] = x]
    BY <2>3, <2>5, <1>7, <1>8 DEF State, TryRecord
  <2> HIDE DEF x
  <2>7. y = [s EXCEPT !.tries = [s.tries EXCEPT ![n] = x]]
    BY <2>5, <2>6, <1>7 DEF State
  <2> QED BY <2>1, <2>4, <2>7, <1>7 DEF edited, State
<1>11. /\ x \in TryRecord /\ x.finished = FALSE /\ x.pipe = "open" /\ x.path = r.path /\ x.greeted = "no"
       /\ x.callbacks = {[id |-> id, kind |-> "hello", of |-> n]}
       /\ x.sent = {[id |-> id, kind |-> "hello"]}
  <2>1. [id |-> id, kind |-> "hello", of |-> n] \in Callback /\ [id |-> id, kind |-> "hello"] \in Message
    BY <1>6 DEF Callback, Message
  <2> QED BY <2>1, <1>5, <1>8 DEF TryRecord
<1> HIDE DEF x
<1>12. Tries(s)
  BY <1>2, <1>5, <1>7 DEF Tries
<1>13. Tries(t)
  <2>1. IsFiniteSet(x.callbacks)
    BY <1>11, FS_Singleton
  <2>2. n \in 1 .. Len(s.tries) /\ s.tries[n] = r
    BY <1>6, <1>7
  <2>3. r.greeted # "yes" /\ r.pipe # "connecting"
    BY <1>5, <1>8
  <2> QED BY <1>5, <1>7, <1>8, <1>11, <1>12, <2>1, <2>2, <2>3, TriesEdited
<1>14. /\ t \in State /\ Len(t.tries) = Len(state.tries) /\ t.tries[n] = x
       /\ \A m \in 1 .. Len(state.tries) : m # n => t.tries[m] = state.tries[m]
       /\ t.phase = state.phase /\ t.conn = n
       /\ t.pairing_waiter = state.pairing_waiter /\ t.loop = taken.loop
       /\ t.timers = state.timers \cup {<<"hello", n>>}
  <2>1. n \in 1 .. Len(s.tries)
    BY <1>6, <1>7
  <2>2. /\ t \in State /\ Len(t.tries) = Len(s.tries) /\ t.tries[n] = x
        /\ \A m \in 1 .. Len(s.tries) : m # n => t.tries[m] = s.tries[m]
        /\ t.phase = s.phase /\ t.conn = s.conn
        /\ t.pairing_waiter = s.pairing_waiter /\ t.timers = s.timers /\ t.loop = s.loop
    BY <1>7, <1>11, <2>1, TryEdited
  <2> QED BY <2>2, <1>7
<1> HIDE DEF t
<1>15. InFlight(t)
  <2>1. /\ x.sent = {[id |-> id, kind |-> "hello"]}
        /\ x.callbacks = {[id |-> id, kind |-> "hello", of |-> t.conn]}
        /\ x.greeted = "no" /\ x.finished = FALSE
    BY <1>11, <1>14
  <2>2. t.tries[t.conn] = x
    BY <1>14
  <2> QED BY <2>1, <2>2 DEF InFlight
<1>16. /\ \A it \in Items(t.loop) : ~Live(it) /\ it.kind # "pairing_timeout" /\ it \in Items(state.loop)
       /\ t.pairing_waiter = 0
       /\ \A m \in Nat : <<"pairing", m>> \notin t.timers
  <2>1. \A it \in Items(taken.loop) : ~Live(it) /\ it \in Items(state.loop)
    BY <1>1, <1>3 DEF Fits, Live
  <2>2. \A it \in Items(state.loop) : it.kind # "pairing_timeout"
    BY <1>2, <1>5 DEF Queued, PairingIsCurrent
  <2>3. \A m \in Nat : <<"pairing", m>> \notin state.timers
    BY <1>2, <1>5 DEF Queued, PairingIsCurrent
  <2>4. state.pairing_waiter = 0
    BY <1>2, <1>5 DEF Queued, WaiterIsCurrent
  <2> QED BY <2>1, <2>2, <2>3, <2>4, <1>14
<1>17. Unique(t.loop) /\ LiveIsCurrent(t) /\ WaiterIsCurrent(t) /\ PairingIsCurrent(t)
  <2>1. Unique(t.loop)
    BY <1>3, <1>14
  <2>2. LiveIsCurrent(t)
    BY <1>16 DEF LiveIsCurrent
  <2>3. WaiterIsCurrent(t) /\ PairingIsCurrent(t)
    BY <1>16 DEF WaiterIsCurrent, PairingIsCurrent
  <2> QED BY <2>1, <2>2, <2>3
<1>18. Ranged(t)
  <2>1. \A it \in Items(t.loop) : it.kind \in Signals \cup {"hello"} => it.of \in 1 .. Len(t.tries)
    BY <1>2, <1>14, <1>16 DEF Queued, Ranged
  <2>2. \A y \in t.timers : y[2] \in 1 .. Len(t.tries)
    BY <1>2, <1>6, <1>14 DEF Queued, Ranged
  <2> QED BY <2>1, <2>2 DEF Ranged
<1>19. HelloIsCurrent(t)
  <2>1. \A m \in 1 .. Len(t.tries) : /\ t.tries[m].finished = state.tries[m].finished
                                     /\ t.tries[m].greeted = state.tries[m].greeted
    BY <1>5, <1>11, <1>14
  <2>2. \A it \in Items(t.loop) : it.kind \in Signals \cup {"hello"} => it.of \in 1 .. Len(t.tries)
    BY <1>18 DEF Ranged
  <2>3. \A it \in Items(t.loop) : it.kind # "connected"
    BY <1>16 DEF Live
  <2>4. \A it \in Items(t.loop) : it.kind = "hello" /\ it.ok = FALSE /\ t.tries[it.of].finished = FALSE =>
          t.tries[it.of].greeted = "refused"
    BY <2>1, <2>2, <1>2, <1>16 DEF Queued, HelloIsCurrent
  <2>5. \A it \in Items(t.loop) : it.kind = "hello_timeout" /\ t.tries[it.of].finished = FALSE =>
          it.of = t.conn /\ t.tries[it.of].greeted # "yes"
    BY <2>1, <2>2, <1>2, <1>5, <1>14, <1>16 DEF Queued, HelloIsCurrent, Signals
  <2>6. \A m \in 1 .. Len(t.tries) : <<"hello", m>> \in t.timers /\ t.tries[m].finished = FALSE =>
          m = t.conn /\ t.tries[m].greeted # "yes"
    <3> SUFFICES ASSUME NEW m \in 1 .. Len(t.tries), t.tries[m].finished = FALSE
                 PROVE  m = t.conn /\ t.tries[m].greeted # "yes"
      OBVIOUS
    <3>1. m = n
      BY <2>1, <1>2, <1>5, <1>6, <1>14 DEF Tries
    <3> QED BY <3>1, <1>11, <1>14
  <2> QED BY <2>3, <2>4, <2>5, <2>6 DEF HelloIsCurrent
<1>20. Queued(t)
  BY <1>17, <1>18, <1>19 DEF Queued
<1>21. ~Late(t)
  BY <1>16 DEF Late
<1>22. transport' = transport /\ draining' \in BOOLEAN /\ \A y \in probes' : y.token \in Here
  BY DEF SendHello, AttachSound
<1> QED BY <1>2, <1>10, <1>13, <1>14, <1>15, <1>20, <1>21, <1>22, SoundNext

\* The hello is answered, and the pairing begins.
LEMMA GreetedKeeps ==
  ASSUME AttachSound, Greeted, draining' = (state'.loop # <<>>)
  PROVE  AttachSound'
<1>1. state.loop # <<>> /\ item.kind = "hello" /\ item.ok
  BY DEF Greeted, Runs
<1>2. /\ state \in State /\ Queued(state) /\ Tries(state) /\ InFlight(state)
      /\ transport \in BOOLEAN /\ (transport = TRUE <=> state.phase = "attached")
  BY SoundFacts
<1>3. /\ taken \in State /\ taken.tries = state.tries /\ taken.conn = state.conn
      /\ taken.phase = state.phase /\ taken.pairing_waiter = state.pairing_waiter
      /\ taken.timers = state.timers
      /\ item \in Item /\ item \in Items(state.loop)
      /\ Items(state.loop) = {item} \cup Items(taken.loop)
      /\ Unique(taken.loop) /\ Fits(item, taken.loop) /\ Tries(taken) /\ InFlight(taken)
  BY <1>1, QueueTaken
<1>4. item.ok = TRUE
  BY <1>1, <1>3 DEF Item, Signals
<1> DEFINE n == n0
           r == state.tries[n]
           t == [taken EXCEPT !.pairing_waiter = n,
                              !.timers = (@ \ {<<"hello", n>>}) \cup {<<"pairing", n>>}]
<1>5. LiveHello(item) /\ Live(item)
  BY <1>1, <1>4 DEF LiveHello, Live
<1>6. /\ state.conn # 0 /\ n = state.conn /\ r.finished = FALSE /\ r.greeted = "yes"
      /\ \A other \in Items(state.loop) : other.kind = "hello_timeout" => other.of # n
  BY <1>1, <1>2, <1>3, <1>5 DEF Queued, LiveIsCurrent, n0
<1>7. n \in 1 .. Len(state.tries) /\ n \in Nat
  BY <1>2, <1>6, LenProperties DEF Tries, State
<1>8. /\ t \in State /\ t.tries = state.tries /\ t.conn = n /\ t.phase = state.phase
      /\ t.pairing_waiter = n /\ t.loop = taken.loop
      /\ t.timers = (state.timers \ {<<"hello", n>>}) \cup {<<"pairing", n>>}
  <2> DEFINE T == (taken.timers \ {<<"hello", n>>}) \cup {<<"pairing", n>>}
  <2>1. T \in SUBSET ({"hello", "pairing"} \X Nat)
    BY <1>3, <1>7 DEF State
  <2>2. t = [taken EXCEPT !.pairing_waiter = n, !.timers = T]
    BY <1>3 DEF State
  <2>3. T = (state.timers \ {<<"hello", n>>}) \cup {<<"pairing", n>>}
    BY <1>3
  <2> HIDE DEF T, t
  <2> QED BY <2>1, <2>2, <2>3, <1>3, <1>6, <1>7 DEF State
<1>9. state' = t
  BY DEF Greeted
<1> HIDE DEF t
<1>10. Tries(t) /\ InFlight(t)
  BY <1>2, <1>6, <1>8 DEF Tries, InFlight
<1>11. \A it \in Items(t.loop) : ~Live(it) /\ ~LiveHello(it) /\ it.kind # "connected" /\ it \in Items(state.loop)
  BY <1>3, <1>5, <1>8 DEF Fits, Live, LiveHello
<1>12. \A m \in Nat : <<"pairing", m>> \notin state.timers
  BY <1>2, <1>3, <1>5 DEF Queued, PairingIsCurrent
<1>13. \A it \in Items(state.loop) : it.kind # "pairing_timeout"
  BY <1>2, <1>3, <1>5 DEF Queued, PairingIsCurrent
<1>14. Unique(t.loop) /\ LiveIsCurrent(t) /\ WaiterIsCurrent(t)
  <2>1. Unique(t.loop)
    BY <1>3, <1>8
  <2>2. LiveIsCurrent(t)
    BY <1>11 DEF LiveIsCurrent
  <2>3. WaiterIsCurrent(t)
    BY <1>6, <1>8, <1>11 DEF WaiterIsCurrent
  <2> QED BY <2>1, <2>2, <2>3
<1>15. PairingIsCurrent(t)
  <2>1. \A m \in Nat : <<"pairing", m>> \in t.timers => m = n
    BY <1>8, <1>12
  <2>2. \A it \in Items(t.loop) : it.kind # "pairing_timeout"
    BY <1>11, <1>13
  <2> QED BY <2>1, <2>2, <1>6, <1>8, <1>11 DEF PairingIsCurrent
<1>16. Ranged(t)
  <2>1. \A it \in Items(t.loop) : it.kind \in Signals \cup {"hello"} => it.of \in 1 .. Len(t.tries)
    BY <1>2, <1>8, <1>11 DEF Queued, Ranged
  <2>2. \A y \in t.timers : y[2] \in 1 .. Len(t.tries)
    BY <1>2, <1>7, <1>8 DEF Queued, Ranged
  <2> QED BY <2>1, <2>2 DEF Ranged
<1>17. HelloIsCurrent(t)
  <2>1. \A it \in Items(t.loop) : it.kind = "hello_timeout" => t.tries[it.of].finished # FALSE
    BY <1>2, <1>6, <1>8, <1>11 DEF Queued, HelloIsCurrent
  <2>2. \A it \in Items(t.loop) : it.kind = "hello" /\ it.ok = FALSE /\ t.tries[it.of].finished = FALSE =>
          t.tries[it.of].greeted = "refused"
    BY <1>2, <1>8, <1>11 DEF Queued, HelloIsCurrent
  <2>3. \A m \in 1 .. Len(t.tries) : <<"hello", m>> \in t.timers => t.tries[m].finished = TRUE
    <3> SUFFICES ASSUME NEW m \in 1 .. Len(t.tries), <<"hello", m>> \in t.timers, t.tries[m].finished # TRUE
                 PROVE  FALSE
      OBVIOUS
    <3>1. state.tries[m].finished = FALSE /\ m = Len(state.tries)
      BY <1>2, <1>8, OpenTry
    <3>2. m = n
      BY <3>1, <1>2, <1>6, <1>7 DEF Tries
    <3> QED BY <3>2, <1>8
  <2> QED BY <2>1, <2>2, <2>3 DEF HelloIsCurrent
<1>18. Queued(t)
  BY <1>14, <1>15, <1>16, <1>17 DEF Queued
<1>19. ~Late(t)
  BY <1>11, <1>13 DEF Late
<1>20. transport' = transport /\ draining' \in BOOLEAN
  BY DEF Greeted
<1>21. \A y \in probes' : y.token \in Here
  BY DEF Greeted, AttachSound
<1> QED BY <1>2, <1>8, <1>9, <1>10, <1>18, <1>19, <1>20, <1>21, SoundNext

\* The pairing is heard of: the try is over, and requests go to its socket.
LEMMA PairedKeeps ==
  ASSUME AttachSound, Paired, draining' = (state'.loop # <<>>)
  PROVE  AttachSound'
<1>1. state.loop # <<>> /\ item.kind = "waiter"
  BY DEF Paired, Runs
<1>2. /\ state \in State /\ Queued(state) /\ Tries(state) /\ InFlight(state)
  BY SoundFacts
<1>3. /\ taken \in State /\ taken.tries = state.tries /\ taken.conn = state.conn
      /\ taken.phase = state.phase /\ taken.pairing_waiter = state.pairing_waiter
      /\ taken.timers = state.timers
      /\ item \in Item /\ item \in Items(state.loop)
      /\ Items(state.loop) = {item} \cup Items(taken.loop)
      /\ Unique(taken.loop) /\ Fits(item, taken.loop)
  BY <1>1, QueueTaken
<1> DEFINE n == n0
           r == state.tries[n]
           T == taken.timers \ {<<"pairing", n>>}
           s == [taken EXCEPT !.timers = T, !.phase = "attached"]
           x == [r EXCEPT !.finished = TRUE]
           e == edited(s, n, x)
           t == [e EXCEPT !.waiting = {}]
<1>4. /\ state.conn # 0 /\ n = state.conn /\ r.finished = FALSE /\ r.greeted = "yes" /\ r.path \in Here
  BY <1>1, <1>2, <1>3 DEF Queued, LiveIsCurrent, Live, n0
<1>5. n \in 1 .. Len(state.tries) /\ n \in Nat
  BY <1>2, <1>4, LenProperties DEF Tries, State
<1>6. /\ s \in State /\ s.tries = state.tries /\ s.conn = n /\ s.phase = "attached"
      /\ s.pairing_waiter = state.pairing_waiter /\ s.loop = taken.loop /\ s.timers = T
  <2>1. T \in SUBSET ({"hello", "pairing"} \X Nat)
    BY <1>3 DEF State
  <2> HIDE DEF T
  <2> QED BY <2>1, <1>3, <1>4 DEF State
<1>7. r \in TryRecord /\ state.tries \in Seq(TryRecord) /\ r.pipe = "open" /\ IsFiniteSet(r.callbacks)
  BY <1>2, <1>4, <1>5, OpenTry DEF State
<1>8. /\ x \in TryRecord /\ x.finished = TRUE /\ x.pipe = r.pipe /\ x.path = r.path
      /\ x.greeted = r.greeted /\ x.callbacks = r.callbacks /\ x.sent = r.sent
  BY <1>7 DEF TryRecord
<1>9. x.sent = {} /\ x.callbacks = {}
  BY <1>2, <1>4, <1>8 DEF InFlight
<1>10. state' = t /\ transport' = TRUE
  <2>1. s = [taken EXCEPT !.timers = @ \ {<<"pairing", n>>}, !.phase = "attached"]
    BY <1>3 DEF State
  <2>2. ~s.tries[n].finished
    BY <1>4, <1>6
  <2>3. state' = settle([s EXCEPT !.tries[n].finished = TRUE])
    BY <2>1, <2>2 DEF Paired
  <2>4. [s EXCEPT !.tries[n].finished = TRUE] = e
    BY <1>5, <1>6, <1>7 DEF edited, State
  <2> QED BY <2>3, <2>4 DEF settle, Paired
<1> HIDE DEF x, s
<1>11. /\ e \in State /\ Len(e.tries) = Len(state.tries) /\ e.tries[n] = x
       /\ \A m \in 1 .. Len(state.tries) : m # n => e.tries[m] = state.tries[m]
       /\ e.phase = "attached" /\ e.conn = n
       /\ e.pairing_waiter = state.pairing_waiter /\ e.loop = taken.loop /\ e.timers = T
  <2>1. n \in 1 .. Len(s.tries)
    BY <1>5, <1>6
  <2>2. /\ e \in State /\ Len(e.tries) = Len(s.tries) /\ e.tries[n] = x
        /\ \A m \in 1 .. Len(s.tries) : m # n => e.tries[m] = s.tries[m]
        /\ e.phase = s.phase /\ e.conn = s.conn
        /\ e.pairing_waiter = s.pairing_waiter /\ e.timers = s.timers /\ e.loop = s.loop
    BY <1>6, <1>8, <2>1, TryEdited
  <2> QED BY <2>2, <1>6
<1> HIDE DEF e
<1>12. /\ t \in State /\ Len(t.tries) = Len(state.tries) /\ t.tries[n] = x
       /\ \A m \in 1 .. Len(state.tries) : m # n => t.tries[m] = state.tries[m]
       /\ t.phase = "attached" /\ t.conn = n
       /\ t.pairing_waiter = state.pairing_waiter /\ t.loop = taken.loop
       /\ t.timers = state.timers \ {<<"pairing", n>>}
  BY <1>3, <1>11 DEF State
<1> HIDE DEF t
<1>13. \A m \in 1 .. Len(state.tries) : m # n =>
         /\ t.tries[m].finished = TRUE /\ t.tries[m].pipe = "closed" /\ IsFiniteSet(t.tries[m].callbacks)
  <2> SUFFICES ASSUME NEW m \in 1 .. Len(state.tries), m # n
               PROVE  /\ state.tries[m].finished = TRUE /\ state.tries[m].pipe = "closed"
                      /\ IsFiniteSet(state.tries[m].callbacks)
    BY <1>12
  <2>1. state.phase = "connecting" /\ n = Len(state.tries)
    BY <1>2, <1>4, <1>5, OpenTry
  <2>2. /\ state.tries[m] \in TryRecord /\ state.tries[m].finished = TRUE
        /\ state.tries[m].pipe # "open" /\ state.tries[m].pipe # "connecting"
        /\ IsFiniteSet(state.tries[m].callbacks)
    BY <1>2, <1>4, <2>1, OpenTry
  <2> QED BY <2>2 DEF TryRecord
<1>14. allOver(t)
  BY <1>8, <1>12, <1>13 DEF allOver
<1>15. Tries(t)
  <2>1. \A m \in 1 .. Len(t.tries) : t.tries[m].pipe = "open" <=> m = n
    BY <1>7, <1>8, <1>12, <1>13
  <2>2. \A m \in 1 .. Len(t.tries) : t.tries[m].pipe # "connecting"
    BY <1>7, <1>8, <1>12, <1>13
  <2>3. \A m \in 1 .. Len(t.tries) : IsFiniteSet(t.tries[m].callbacks)
    BY <1>9, <1>12, <1>13, FS_EmptySet
  <2>4. n \in 0 .. Len(t.tries) /\ n # 0
    BY <1>4, <1>5, <1>12
  <2>5. \A m \in 1 .. Len(t.tries) : t.tries[m].finished = TRUE
    BY <1>14 DEF allOver
  <2>6. t.tries[n].path \in Here /\ t.tries[n].greeted = "yes"
    BY <1>4, <1>8, <1>12
  <2> QED BY <2>1, <2>2, <2>3, <2>4, <2>5, <2>6, <1>12 DEF Tries
<1>16. InFlight(t)
  BY <1>8, <1>9, <1>12 DEF InFlight
<1>17. Unique(t.loop) /\ \A it \in Items(t.loop) : ~Live(it) /\ ~LiveHello(it) /\ it \in Items(state.loop)
  BY <1>1, <1>3, <1>12 DEF Fits, Live, LiveHello
<1>18. t.pairing_waiter = 0
  BY <1>1, <1>2, <1>3, <1>12 DEF Queued, WaiterIsCurrent, Live
<1>19. \A m \in Nat : <<"pairing", m>> \notin t.timers
  BY <1>2, <1>4, <1>12 DEF Queued, PairingIsCurrent
<1>20. LiveIsCurrent(t) /\ WaiterIsCurrent(t)
  BY <1>17, <1>18 DEF LiveIsCurrent, WaiterIsCurrent
<1>21. PairingIsCurrent(t)
  <2>1. \A it \in Items(t.loop) : it.kind = "pairing_timeout" => it.of = n
    BY <1>2, <1>4, <1>17 DEF Queued, PairingIsCurrent
  <2>2. t.tries[t.conn].greeted = "yes" /\ t.conn # 0 /\ t.conn = n
    BY <1>4, <1>8, <1>12
  <2> QED BY <2>1, <2>2, <1>17, <1>19 DEF PairingIsCurrent
<1>22. Ranged(t)
  <2>1. \A it \in Items(t.loop) : it.kind \in Signals \cup {"hello"} => it.of \in 1 .. Len(t.tries)
    BY <1>2, <1>12, <1>17 DEF Queued, Ranged
  <2>2. \A y \in t.timers : y[2] \in 1 .. Len(t.tries)
    BY <1>2, <1>12 DEF Queued, Ranged
  <2> QED BY <2>1, <2>2 DEF Ranged
<1>23. HelloIsCurrent(t)
  BY <1>14, <1>22 DEF HelloIsCurrent, allOver, Ranged, Signals
<1>24. Queued(t)
  BY <1>17, <1>20, <1>21, <1>22, <1>23 DEF Queued
<1>25. draining' \in BOOLEAN /\ (Late(t) => draining' = TRUE)
  BY <1>10, <1>12, EmptiedNotLate
<1>26. \A y \in probes' : y.token \in Here
  BY DEF Paired, AttachSound
<1> QED BY <1>10, <1>12, <1>15, <1>16, <1>24, <1>25, <1>26, SoundNext

\* A request is written to the paired socket.
LEMMA RequestKeeps ==
  ASSUME AttachSound, NEW q \in Requests, Request(q)
  PROVE  AttachSound'
<1>1. /\ state \in State /\ Queued(state) /\ Tries(state) /\ InFlight(state)
      /\ transport \in BOOLEAN /\ (transport = TRUE <=> state.phase = "attached")
      /\ draining \in BOOLEAN
  BY SoundFacts
<1>2. transport /\ state.loop = <<>> /\ state' = send_request(state, "request", q)
  BY DEF Request, Command
<1>3. state.phase = "attached"
  BY <1>1, <1>2
<1> DEFINE n == state.conn
           r == state.tries[n]
<1>4. n # 0 /\ n \in 1 .. Len(state.tries) /\ n \in Nat
  BY <1>1, <1>3, LenProperties DEF Tries, State
<1>5. /\ r \in TryRecord /\ state.tries \in Seq(TryRecord) /\ r.pipe = "open" /\ r.finished = TRUE
      /\ IsFiniteSet(r.callbacks)
  BY <1>1, <1>3, <1>4, OpenTry DEF State
<1>6. PICK id \in Nat : id = r.next_id + 1
  BY <1>5 DEF TryRecord
<1> DEFINE x == [r EXCEPT !.next_id = id,
                          !.callbacks = @ \cup {[id |-> id, kind |-> "request", of |-> q]},
                          !.sent = @ \cup {[id |-> id, kind |-> "request"]}]
           t == edited(state, n, x)
<1>7. state' = t
  <2>1. send_request(state, "request", q) = [state EXCEPT !.tries[n].next_id = id,
                     !.tries[n].callbacks = @ \cup {[id |-> id, kind |-> "request", of |-> q]},
                     !.tries[n].sent = @ \cup {[id |-> id, kind |-> "request"]}]
    BY <1>4, <1>6 DEF send_request
  <2>2. n \in DOMAIN state.tries
    BY <1>4, <1>5, LenProperties
  <2>3. PICK y : y = send_request(state, "request", q)
    OBVIOUS
  <2>4. y = [state EXCEPT !.tries[n].next_id = id,
                     !.tries[n].callbacks = @ \cup {[id |-> id, kind |-> "request", of |-> q]},
                     !.tries[n].sent = @ \cup {[id |-> id, kind |-> "request"]}]
    BY <2>1, <2>3
  <2>5. y.tries = [state.tries EXCEPT ![n] = x]
    BY <2>2, <2>4, <1>1, <1>5 DEF State, TryRecord
  <2> HIDE DEF x
  <2>6. y = [state EXCEPT !.tries = [state.tries EXCEPT ![n] = x]]
    BY <2>4, <2>5, <1>1 DEF State
  <2> QED BY <1>2, <2>3, <2>6, <1>1 DEF edited, State
<1>8. /\ x \in TryRecord /\ x.finished = r.finished /\ x.pipe = r.pipe /\ x.path = r.path
      /\ x.greeted = r.greeted
      /\ x.callbacks = r.callbacks \cup {[id |-> id, kind |-> "request", of |-> q]}
      /\ x.sent = r.sent \cup {[id |-> id, kind |-> "request"]}
  <2>1. [id |-> id, kind |-> "request", of |-> q] \in Callback /\ [id |-> id, kind |-> "request"] \in Message
    BY DEF Callback, Message
  <2> QED BY <2>1, <1>5 DEF TryRecord
<1> HIDE DEF x
<1>9. Tries(t)
  <2>1. IsFiniteSet(x.callbacks)
    <3>1. IsFiniteSet(r.callbacks \cup {[id |-> id, kind |-> "request", of |-> q]})
      BY <1>5, FS_AddElement, Zenon
    <3> QED BY <3>1, <1>8
  <2> QED BY <2>1, <1>1, <1>4, <1>5, <1>8, TriesEdited
<1>10. Quiet(state) /\ Ranged(state)
  <2>1. ~Late(state)
    <3>1. Len(state.loop) = 0 /\ 1 .. 0 = {}
      BY <1>2, EmptySeq
    <3> QED BY <3>1 DEF Late, Items
  <2> QED BY <2>1, <1>1, <1>4, <1>5, QuietOver
<1>11. /\ t \in State /\ Len(t.tries) = Len(state.tries) /\ t.tries[n] = x
       /\ \A m \in 1 .. Len(state.tries) : m # n => t.tries[m] = state.tries[m]
       /\ t.phase = state.phase /\ t.conn = n
       /\ Quiet(t) /\ Ranged(t)
  BY <1>1, <1>4, <1>8, <1>10, TryEdited
<1> HIDE DEF t
<1>12. allOver(t)
  BY <1>3, <1>9, <1>11, OpenTry DEF allOver
<1>13. Queued(t)
  BY <1>11, <1>12, QuietQueued
<1>14. InFlight(t)
  <2>1. /\ \A m \in r.sent : m.kind = "request"
        /\ \A c \in r.callbacks : c.kind = "request"
    BY <1>1, <1>4, <1>5, Outstanding
  <2>2. t.tries[t.conn] = x
    BY <1>11
  <2>3. x.finished = TRUE
    BY <1>5, <1>8
  <2>4. /\ \A m \in x.sent : m.kind = "request"
        /\ \A c \in x.callbacks : c.kind = "request"
    BY <2>1, <1>8
  <2> QED BY <2>2, <2>3, <2>4 DEF InFlight
<1>15. ~Late(t)
  BY <1>11 DEF Quiet, Late
<1>16. transport' = transport /\ draining' \in BOOLEAN /\ \A y \in probes' : y.token \in Here
  BY <1>1 DEF Request, Command, AttachSound
<1> QED BY <1>1, <1>7, <1>9, <1>11, <1>13, <1>14, <1>15, <1>16, SoundNext

\* An answer to a request, from the socket that is paired.
LEMMA RequestAnswered ==
  ASSUME NEW s \in State, Tries(s), InFlight(s), Quiet(s), Ranged(s), ~Late(s),
         NEW n \in 1 .. Len(s.tries), n = s.conn, s.tries[n].finished = TRUE,
         s.phase = "attached", NEW id \in Nat
  PROVE  \A t : t = dispatched(s, id, TRUE, s.tries[n].path) =>
           /\ t \in State /\ Tries(t) /\ InFlight(t) /\ Queued(t) /\ ~Late(t) /\ t.phase = s.phase
<1>0. SUFFICES ASSUME NEW t, t = dispatched(s, id, TRUE, s.tries[n].path)
             PROVE  t \in State /\ Tries(t) /\ InFlight(t) /\ Queued(t) /\ ~Late(t) /\ t.phase = s.phase
  OBVIOUS
<1> DEFINE r == s.tries[n]
<1>1. r \in TryRecord /\ n \in Nat /\ n # 0 /\ IsFiniteSet(r.callbacks) /\ r.pipe = "open"
  BY OpenTry
<1>2. /\ \A m \in r.sent : m.kind = "request"
      /\ \A c \in r.callbacks : c.kind = "request"
  BY <1>1, Outstanding
<1>3. allOver(s)
  BY OpenTry DEF allOver
<1>4. r.path \in Paths \cup {"none"} /\ TRUE \in BOOLEAN
  BY <1>1 DEF TryRecord
<1>5. t = s \/ Called(s, n, id, TRUE, r.path, t)
  BY <1>0, <1>4, Dispatch
<1>6. CASE t = s
  BY <1>3, <1>6, QuietQueued
<1>7. CASE Called(s, n, id, TRUE, r.path, t)
  <2>1. PICK b \in r.callbacks, x \in TryRecord :
          /\ x = [r EXCEPT !.callbacks = @ \ {c \in r.callbacks : c.id = id}]
          /\ t = post(edited(s, n, x), [kind |-> b.kind, of |-> b.of, ok |-> TRUE, token |-> r.path])
    BY <1>7 DEF Called
  <2> DEFINE e == edited(s, n, x)
             it == [kind |-> b.kind, of |-> b.of, ok |-> TRUE, token |-> r.path]
  <2>2. b \in Callback /\ b.kind = "request"
    BY <1>1, <1>2 DEF TryRecord
  <2>3. it \in Item /\ it.kind = "request"
    BY <1>4, <2>2 DEF Callback, Item
  <2>4. /\ x.finished = TRUE /\ x.pipe = r.pipe /\ x.path = r.path
        /\ x.greeted = r.greeted /\ x.callbacks \subseteq r.callbacks /\ x.sent = r.sent
    BY <1>1, <2>1 DEF TryRecord
  <2>5. IsFiniteSet(x.callbacks)
    BY <1>1, <2>4, FS_Subset
  <2>6. Tries(e)
    BY <1>1, <2>4, <2>5, TriesEdited
  <2>7. /\ e \in State /\ Len(e.tries) = Len(s.tries) /\ e.tries[n] = x
        /\ \A m \in 1 .. Len(s.tries) : m # n => e.tries[m] = s.tries[m]
        /\ e.phase = s.phase /\ e.conn = s.conn /\ Quiet(e) /\ Ranged(e)
    BY TryEdited
  <2> HIDE DEF e, it
  <2>8. HellosRanged(e)
    BY <1>2, <2>4, <2>7 DEF HellosRanged
  <2>9. t = post(e, it)
    BY <2>1 DEF e, it
  <2>10. /\ t \in State /\ Tries(t) /\ Quiet(t) /\ Ranged(t)
         /\ t.phase = s.phase
    BY <2>3, <2>6, <2>7, <2>8, <2>9, QuietPosted
  <2>11. /\ t \in State /\ t.tries = e.tries /\ t.conn = e.conn /\ t.phase = e.phase
         /\ t.pairing_waiter = e.pairing_waiter /\ t.timers = e.timers
    <3>1. e \in State
      BY <2>7
    <3> QED BY <2>3, <3>1, <2>9, Posted
  <2>12. InFlight(t)
    <3>1. t.tries[t.conn] = x
      BY <2>7, <2>11
    <3>2. (\A m \in x.sent : m.kind = "request") /\ (\A c \in x.callbacks : c.kind = "request")
      BY <1>2, <2>4
    <3> QED BY <3>1, <3>2, <2>4 DEF InFlight
  <2>13. allOver(t)
    <3>1. \A m \in 1 .. Len(s.tries) : s.tries[m].finished = TRUE
      BY <1>3 DEF allOver
    <3>2. Len(t.tries) = Len(s.tries) /\ \A m \in 1 .. Len(s.tries) : t.tries[m] = e.tries[m]
      BY <2>7, <2>11
    <3>3. \A m \in 1 .. Len(s.tries) : t.tries[m].finished = TRUE
      BY <3>1, <3>2, <2>4, <2>7
    <3> QED BY <3>2, <3>3 DEF allOver
  <2>14. Queued(t) /\ ~Late(t)
    BY <2>10, <2>13, QuietQueued DEF Quiet, Late
  <2> QED BY <2>10, <2>12, <2>14
<1> QED BY <1>5, <1>6, <1>7

\* The answer to the hello of the try that is under way.
LEMMA HelloAnswered ==
  ASSUME AttachSound, NEW n \in 1 .. Len(state.tries), n = state.conn,
         state.tries[n].finished = FALSE, state.tries[n].greeted = "no", NEW id \in Nat,
         NEW ok \in BOOLEAN, NEW g \in {"yes", "refused"}, ok = TRUE <=> g = "yes",
         state.tries[n].sent = {[id |-> id, kind |-> "hello"]},
         state.tries[n].callbacks = {[id |-> id, kind |-> "hello", of |-> n]},
         \A o \in Items(state.loop) : o.kind = "hello_timeout" => o.of # n,
         NEW x \in TryRecord, x.finished = FALSE, x.pipe = state.tries[n].pipe,
         x.path = state.tries[n].path, x.sent = {}, x.callbacks = state.tries[n].callbacks,
         x.greeted = g
  PROVE  \A t : t = dispatched(edited(state, n, x), id, ok, state.tries[n].path) =>
           /\ t \in State /\ Tries(t) /\ InFlight(t) /\ Queued(t) /\ ~Late(t) /\ t.phase = state.phase
<1>0. SUFFICES ASSUME NEW t, t = dispatched(edited(state, n, x), id, ok, state.tries[n].path)
             PROVE  t \in State /\ Tries(t) /\ InFlight(t) /\ Queued(t) /\ ~Late(t) /\ t.phase = state.phase
  OBVIOUS
<1> DEFINE r == state.tries[n]
           s == edited(state, n, x)
<1>1. state \in State /\ Queued(state) /\ Tries(state) /\ InFlight(state)
  BY SoundFacts
<1>2. /\ r \in TryRecord /\ n \in Nat /\ n # 0 /\ r.pipe = "open" /\ IsFiniteSet(r.callbacks)
      /\ state.phase = "connecting" /\ n = Len(state.tries)
  BY <1>1, OpenTry
<1>3. Quiet(state) /\ Ranged(state)
  <2>1. r.sent # {}
    OBVIOUS
  <2> QED BY <2>1, <1>1, <1>2, QuietUnpaired
<1>4. /\ x.finished = FALSE /\ x.pipe = "open" /\ x.path = r.path /\ x.sent = {}
      /\ x.callbacks = r.callbacks
      /\ x.greeted = g
  BY <1>2 DEF TryRecord
<1>5. /\ s \in State /\ Len(s.tries) = Len(state.tries) /\ s.tries[n] = x
      /\ \A m \in 1 .. Len(state.tries) : m # n => s.tries[m] = state.tries[m]
      /\ s.phase = state.phase /\ s.conn = n
      /\ s.pairing_waiter = state.pairing_waiter /\ s.timers = state.timers /\ s.loop = state.loop
      /\ Quiet(s) /\ Ranged(s)
  <2>1. /\ s \in State /\ Len(s.tries) = Len(state.tries) /\ s.tries[n] = x
        /\ \A m \in 1 .. Len(state.tries) : m # n => s.tries[m] = state.tries[m]
        /\ s.phase = state.phase /\ s.conn = state.conn
        /\ s.pairing_waiter = state.pairing_waiter /\ s.timers = state.timers /\ s.loop = state.loop
        /\ Quiet(state) => Quiet(s)
        /\ Ranged(state) => Ranged(s)
    BY <1>1, TryEdited
  <2> QED BY <2>1, <1>3
<1>6. Tries(s)
  BY <1>1, <1>2, <1>4, TriesEdited
<1>7. r.path \in Paths \cup {"none"} /\ r.path \in Paths
  BY <1>2 DEF TryRecord
<1> HIDE DEF s
<1>8. t = dispatched(s, id, ok, r.path)
  BY <1>0 DEF s
<1>9. Called(s, n, id, ok, r.path, t)
  <2>1. n \in 1 .. Len(s.tries) /\ n = s.conn
    BY <1>5
  <2>2. \E b \in s.tries[n].callbacks : b.id = id
    <3>1. [id |-> id, kind |-> "hello", of |-> n].id = id
      OBVIOUS
    <3>2. [id |-> id, kind |-> "hello", of |-> n] \in s.tries[n].callbacks
      BY <1>4, <1>5
    <3> QED BY <3>1, <3>2
  <2>3. s \in State
    BY <1>5
  <2>4. (t = s /\ \A b \in s.tries[n].callbacks : b.id # id) \/ Called(s, n, id, ok, r.path, t)
    BY <2>1, <2>3, <1>7, <1>8, Dispatch, Zenon
  <2> QED BY <2>2, <2>4, Zenon
<1>10. PICK b \in x.callbacks, y \in TryRecord :
         /\ y = [x EXCEPT !.callbacks = @ \ {c \in x.callbacks : c.id = id}]
         /\ t = post(edited(s, n, y), [kind |-> b.kind, of |-> b.of, ok |-> ok, token |-> r.path])
  BY <1>5, <1>9 DEF Called
<1>11. b.kind = "hello" /\ b.of = n
  BY <1>4
<1> DEFINE e == edited(s, n, y)
           it == [kind |-> "hello", of |-> n, ok |-> ok, token |-> r.path]
<1>12. it \in Item /\ it.kind = "hello" /\ it.of = n /\ it.ok = ok /\ it.token = r.path
  BY <1>2, <1>7 DEF Item
<1>13. t = post(e, it)
  BY <1>10, <1>11
<1>14. /\ y.finished = FALSE /\ y.pipe = "open" /\ y.path = r.path /\ y.sent = {}
       /\ y.callbacks = {} /\ y.greeted = x.greeted
  <2>1. x.callbacks \ {c \in x.callbacks : c.id = id} = {}
    BY <1>4
  <2> QED BY <2>1, <1>4, <1>10 DEF TryRecord
<1> HIDE DEF e, it
<1>15. /\ e \in State /\ Len(e.tries) = Len(state.tries) /\ e.tries[n] = y
       /\ \A m \in 1 .. Len(state.tries) : m # n => e.tries[m] = state.tries[m]
       /\ e.phase = state.phase /\ e.conn = n
       /\ e.pairing_waiter = state.pairing_waiter /\ e.timers = state.timers /\ e.loop = state.loop
       /\ Quiet(e) /\ Ranged(e)
  <2>1. n \in 1 .. Len(s.tries)
    BY <1>5
  <2>2. /\ e \in State /\ Len(e.tries) = Len(s.tries) /\ e.tries[n] = y
        /\ \A m \in 1 .. Len(s.tries) : m # n => e.tries[m] = s.tries[m]
        /\ e.phase = s.phase /\ e.conn = s.conn
        /\ e.pairing_waiter = s.pairing_waiter /\ e.timers = s.timers /\ e.loop = s.loop
        /\ Quiet(e) /\ Ranged(e)
    BY <1>5, <2>1, TryEdited, SMTT(30) DEF e
  <2> QED BY <2>2, <1>5
<1>16. Tries(e)
  <2>1. n \in 1 .. Len(s.tries) /\ IsFiniteSet(y.callbacks)
    BY <1>5, <1>14, FS_EmptySet
  <2> QED BY <2>1, <1>4, <1>5, <1>6, <1>14, TriesEdited DEF e
<1>17. Fits(it, e.loop)
  BY <1>12, <1>15 DEF Fits, Quiet
<1>18. /\ t \in State /\ t.tries = e.tries /\ t.conn = n /\ t.phase = state.phase
       /\ t.pairing_waiter = 0 /\ t.timers = state.timers
       /\ Items(t.loop) = Items(state.loop) \cup {it}
       /\ Unique(t.loop)
  <2>1. Unique(e.loop) /\ e.pairing_waiter = 0
    BY <1>1, <1>15 DEF Queued, Quiet
  <2>2. /\ t \in State /\ t.tries = e.tries /\ t.conn = e.conn /\ t.phase = e.phase
        /\ t.pairing_waiter = e.pairing_waiter /\ t.timers = e.timers
        /\ Items(t.loop) = Items(e.loop) \cup {it}
        /\ Unique(t.loop)
    BY <2>1, <1>12, <1>13, <1>15, <1>17, Posted
  <2> QED BY <2>1, <2>2, <1>15
<1>19. Tries(t)
  BY <1>15, <1>16, <1>18 DEF Tries
<1>20. InFlight(t)
  BY <1>14, <1>15, <1>18 DEF InFlight
<1>21. \A o \in Items(t.loop) : \/ o \in Items(state.loop) /\ ~Live(o) /\ ~LiveHello(o) /\ o.kind # "pairing_timeout"
                                   /\ o.kind # "connected" /\ (o.kind = "hello_timeout" => o.of # n)
                                \/ o = it
  BY <1>3, <1>18 DEF Quiet, Live, LiveHello
<1>22. Ranged(t)
  <2>1. \A o \in Items(t.loop) : o.kind \in Signals \cup {"hello"} => o.of \in 1 .. Len(t.tries)
    BY <1>3, <1>12, <1>15, <1>18, <1>21 DEF Ranged
  <2>2. \A z \in t.timers : z[2] \in 1 .. Len(t.tries)
    BY <1>3, <1>15, <1>18 DEF Ranged
  <2> QED BY <2>1, <2>2 DEF Ranged
<1>23. \A o \in Items(t.loop) : /\ o.kind \notin {"connected", "pairing_timeout", "waiter"}
                                /\ o.kind = "hello_timeout" => o.of # n /\ o \in Items(state.loop)
  BY <1>12, <1>21 DEF Live
<1>24. LiveIsCurrent(t)
  <2>1. \A o \in Items(t.loop) : Live(o) => o = it /\ ok = TRUE
    BY <1>12, <1>21 DEF Live
  <2>2. t.conn # 0 /\ t.tries[t.conn] = y /\ it.of = t.conn /\ y.finished = FALSE /\ it.token = y.path
    BY <1>2, <1>12, <1>14, <1>15, <1>18
  <2>3. ok = TRUE => y.greeted = "yes"
    BY <1>4, <1>14
  <2> QED BY <2>1, <2>2, <2>3, <1>12, <1>23 DEF LiveIsCurrent
<1>25. WaiterIsCurrent(t) /\ PairingIsCurrent(t)
  BY <1>3, <1>18, <1>23 DEF WaiterIsCurrent, PairingIsCurrent, Quiet
<1>26. HelloIsCurrent(t)
  <2>1. ASSUME NEW o \in Items(t.loop), o.kind = "hello", o.ok = FALSE, t.tries[o.of].finished = FALSE
        PROVE  t.tries[o.of].greeted = "refused"
    <3>1. CASE o = it
      <4>1. ok = FALSE /\ o.of = n
        BY <2>1, <3>1, <1>12
      <4> QED BY <4>1, <1>4, <1>14, <1>15, <1>18
    <3>2. CASE o # it
      <4>1. o \in Items(state.loop) /\ o.of \in 1 .. Len(state.tries)
        BY <2>1, <3>2, <1>3, <1>21 DEF Ranged
      <4>2. CASE o.of = n
        BY <2>1, <4>1, <4>2, <1>1 DEF Queued, HelloIsCurrent
      <4>3. CASE o.of # n
        BY <2>1, <4>1, <4>3, <1>1, <1>15, <1>18 DEF Queued, HelloIsCurrent
      <4> QED BY <4>2, <4>3
    <3> QED BY <3>1, <3>2
  <2>2. ASSUME NEW m \in 1 .. Len(t.tries), <<"hello", m>> \in t.timers, t.tries[m].finished = FALSE
        PROVE  m = t.conn /\ (t.tries[m].greeted = "yes" => \E o \in Items(t.loop) : LiveHello(o))
    <3>1. m = n
      <4>1. m = Len(t.tries)
        BY <2>2, <1>18, <1>19, OpenTry
      <4> QED BY <4>1, <1>2, <1>15, <1>18
    <3>2. t.tries[m].greeted = "yes" => ok = TRUE
      BY <3>1, <1>4, <1>14, <1>15, <1>18
    <3>3. it \in Items(t.loop) /\ (ok = TRUE => LiveHello(it))
      BY <1>12, <1>18 DEF LiveHello
    <3> QED BY <3>1, <3>2, <3>3, <1>18
  <2>3. \A o \in Items(t.loop) : o.kind = "hello_timeout" => t.tries[o.of].finished # FALSE
    <3> SUFFICES ASSUME NEW o \in Items(t.loop), o.kind = "hello_timeout", t.tries[o.of].finished = FALSE
                 PROVE  FALSE
      OBVIOUS
    <3>1. o.of # n /\ o \in Items(state.loop) /\ o.of \in 1 .. Len(state.tries)
      BY <1>3, <1>23 DEF Ranged, Signals
    <3>2. state.tries[o.of].finished = FALSE
      BY <3>1, <1>15, <1>18
    <3>3. o.of = state.conn
      BY <3>1, <3>2, <1>1 DEF Queued, HelloIsCurrent
    <3> QED BY <3>1, <3>3
  <2> QED BY <2>1, <2>2, <2>3, <1>23 DEF HelloIsCurrent
<1>27. Queued(t) /\ ~Late(t)
  BY <1>18, <1>22, <1>23, <1>24, <1>25, <1>26 DEF Queued, Late
<1> QED BY <1>18, <1>19, <1>20, <1>27

\* The hello of the try whose pipe is open, while that try is under way.
LEMMA HelloOut ==
  ASSUME NEW s \in State, InFlight(s), NEW n \in Nat, n = s.conn, n # 0,
         s.tries[n].finished = FALSE, s.tries[n].sent # {}
  PROVE  /\ s.tries[n].greeted = "no"
         /\ \E id \in Nat : /\ s.tries[n].sent = {[id |-> id, kind |-> "hello"]}
                            /\ s.tries[n].callbacks = {[id |-> id, kind |-> "hello", of |-> n]}
<1> DEFINE t == s.tries[n]
<1>1. \/ t.sent = {} /\ t.callbacks = {}
      \/ /\ t.greeted = "no"
         /\ \E id \in Nat : /\ t.sent = {[id |-> id, kind |-> "hello"]}
                            /\ t.callbacks = {[id |-> id, kind |-> "hello", of |-> n]}
  BY Zenon DEF InFlight
<1> QED BY <1>1, Zenon

\* The read callback looks the answer up and posts its callback.
LEMMA AnsweredKeeps ==
  ASSUME AttachSound, mishaps = 0, mishaps' = 0, NEW n \in tries, Answered(n)
  PROVE  AttachSound'
<1>1. /\ n \in 1 .. Len(state.tries) /\ state \in State /\ Tries(state) /\ Queued(state)
      /\ InFlight(state) /\ ~Late(state) /\ n \in Nat /\ state.tries[n].pipe = "open"
      /\ transport \in BOOLEAN /\ (transport = TRUE <=> state.phase = "attached")
  BY SoundFacts, OpenTry DEF Answered, Uv
<1> DEFINE r == state.tries[n]
<1>2. /\ r \in TryRecord /\ n = state.conn /\ n # 0 /\ r.finished \in BOOLEAN
      /\ state.phase \in {"connecting", "attached"}
      /\ r.finished = FALSE <=> state.phase = "connecting" /\ n = Len(state.tries)
      /\ state.phase = "connecting" => r.finished = FALSE
      /\ state.tries \in Seq(TryRecord) /\ n \in DOMAIN state.tries
  <2>1. state.tries \in Seq(TryRecord) /\ DOMAIN state.tries = 1 .. Len(state.tries)
    BY <1>1, LenProperties DEF State
  <2>2. /\ r \in TryRecord /\ r.finished \in BOOLEAN
        /\ r.pipe = "open" <=> n = state.conn
        /\ r.pipe = "open" => state.conn # 0 /\ state.phase \in {"connecting", "attached"}
        /\ r.finished = FALSE <=> state.phase = "connecting" /\ n = Len(state.tries)
        /\ state.phase = "connecting" /\ r.pipe = "open" => r.finished = FALSE
    BY <1>1, OpenTry
  <2>3. n = state.conn /\ n # 0 /\ state.phase \in {"connecting", "attached"}
    BY <1>1, <2>2, Zenon
  <2> QED BY <1>1, <2>1, <2>2, <2>3, Zenon
<1> DEFINE read(m, ok) ==
      [state EXCEPT !.tries[n].sent = @ \ {m},
                    !.tries[n].greeted = IF m.kind # "hello" \/ @ = "yes" THEN @
                                         ELSE IF ok THEN "yes" ELSE "refused"]
<1>3. PICK m \in r.sent, ok \in BOOLEAN :
        /\ m.kind = "request" => ok
        /\ happens(m.kind = "hello" /\ queued("hello_timeout", n))
        /\ state' = IF state.conn = 0 THEN read(m, ok) ELSE dispatched(read(m, ok), m.id, ok, r.path)
  BY DEF Answered
<1>4. /\ m.kind = "request" => ok
      /\ m.kind = "hello" => \A o \in Items(state.loop) : o.kind = "hello_timeout" => o.of # n
  <2>1. DOMAIN state.loop = 1 .. Len(state.loop)
    BY <1>1, LenProperties DEF State
  <2>2. m.kind = "hello" => ~queued("hello_timeout", n)
    BY <1>3 DEF happens
  <2> QED BY <1>3, <2>1, <2>2 DEF queued, Items
<1>5. state' = dispatched(read(m, ok), m.id, ok, r.path)
  BY <1>2, <1>3
<1>6. m \in Message /\ m.id \in Nat
  BY <1>2 DEF TryRecord, Message
<1>7. ASSUME NEW t, t = state', t \in State, Tries(t), InFlight(t), Queued(t), ~Late(t), t.phase = state.phase
      PROVE  AttachSound'
  <2>1. transport' = transport /\ draining' \in BOOLEAN /\ \A y \in probes' : y.token \in Here
    BY SoundFacts DEF Answered, Uv, AttachSound
  <2> QED BY <1>1, <1>7, <2>1, SoundNext
<1>8. CASE r.finished = TRUE
  <2>1. state.phase = "attached"
    BY <1>2, <1>8
  <2>2. m.kind = "request"
    BY <1>1, <1>2, <1>8, Outstanding
  <2>3. PICK S \in SUBSET r.sent : S = r.sent \ {m}
    OBVIOUS
  <2> DEFINE s == edited(state, n, withSent(state, n, S))
  <2>4. Quiet(state) /\ Ranged(state)
    BY <1>1, <1>2, <1>8, QuietOver
  <2>5. /\ s \in State /\ Tries(s) /\ s.phase = state.phase /\ s.conn = state.conn
        /\ Len(s.tries) = Len(state.tries)
        /\ withSent(state, n, S) \in TryRecord /\ s.tries[n] = withSent(state, n, S)
        /\ s.tries[n].callbacks = r.callbacks
        /\ s.tries[n].finished = r.finished
        /\ Quiet(s) /\ Ranged(s)
        /\ s = [state EXCEPT !.tries[n].sent = S]
    BY <1>1, <2>4, SentFewer
  <2>6. read(m, ok) = s
    <3>1. PICK u : u = read(m, ok)
      OBVIOUS
    <3>2. u = [state EXCEPT !.tries[n].sent = @ \ {m},
                    !.tries[n].greeted = IF m.kind # "hello" \/ @ = "yes" THEN @
                                         ELSE IF ok THEN "yes" ELSE "refused"]
      BY <3>1
    <3>3. m.kind # "hello"
      BY <2>2
    <3>4. u = [state EXCEPT !.tries[n].sent = @ \ {m}, !.tries[n].greeted = @]
      BY <3>2, <3>3
    <3> DEFINE x == withSent(state, n, S)
    <3>5. u.tries = [state.tries EXCEPT ![n] = x]
      BY <3>4, <1>1, <1>2, <2>3 DEF State, TryRecord, withSent
    <3> HIDE DEF x
    <3>6. u = [state EXCEPT !.tries = [state.tries EXCEPT ![n] = x]]
      BY <3>4, <3>5, <1>1 DEF State
    <3> QED BY <3>1, <3>6, <1>1 DEF edited, State, x
  <2>7. s.tries[n].path = r.path /\ s.tries[n].sent \subseteq r.sent
    <3>1. withSent(state, n, S).path = r.path /\ withSent(state, n, S).sent = S
      BY <1>2 DEF withSent, TryRecord
    <3>2. s.tries[n] = withSent(state, n, S)
      BY <2>5
    <3> QED BY <3>1, <3>2, <2>3, Zenon
  <2> HIDE DEF s
  <2>8. InFlight(s)
    <3>1. /\ \A o \in r.sent : o.kind = "request"
          /\ \A c \in r.callbacks : c.kind = "request"
      BY <1>1, <1>2, <1>8, Outstanding
    <3>2. /\ \A o \in s.tries[n].sent : o.kind = "request"
          /\ \A c \in s.tries[n].callbacks : c.kind = "request"
          /\ s.tries[n].finished = TRUE /\ s.conn = n
      BY <3>1, <2>5, <2>7, <1>2, <1>8
    <3> QED BY <3>2 DEF InFlight
  <2>9. ok = TRUE
    BY <1>3, <2>2
  <2>10. state' = dispatched(s, m.id, TRUE, s.tries[n].path)
    BY <1>5, <2>6, <2>7, <2>9, Zenon
  <2>11. n \in 1 .. Len(s.tries) /\ n = s.conn /\ s.tries[n].finished = TRUE /\ s.phase = "attached" /\ ~Late(s)
    BY <1>1, <1>2, <1>8, <2>1, <2>5 DEF Late, Quiet
  <2>12. \A t : t = dispatched(s, m.id, TRUE, s.tries[n].path) =>
           /\ t \in State /\ Tries(t) /\ InFlight(t) /\ Queued(t) /\ ~Late(t) /\ t.phase = s.phase
    BY <1>6, <2>5, <2>8, <2>11, RequestAnswered
  <2>13. PICK t : t = state'
    OBVIOUS
  <2>14. t \in State /\ Tries(t) /\ InFlight(t) /\ Queued(t) /\ ~Late(t) /\ t.phase = s.phase
    BY <2>10, <2>12, <2>13, Zenon
  <2> QED BY <1>7, <2>5, <2>13, <2>14
<1>9. CASE r.finished = FALSE
  <2>1. r.greeted = "no" /\ \E id \in Nat : /\ r.sent = {[id |-> id, kind |-> "hello"]}
                                            /\ r.callbacks = {[id |-> id, kind |-> "hello", of |-> n]}
    BY <1>1, <1>2, <1>9, HelloOut
  <2>2. PICK id \in Nat : /\ r.sent = {[id |-> id, kind |-> "hello"]}
                          /\ r.callbacks = {[id |-> id, kind |-> "hello", of |-> n]}
    BY <2>1
  <2>3. m = [id |-> id, kind |-> "hello"] /\ m.id = id /\ m.kind = "hello"
    BY <2>2
  <2>4. PICK g \in {"yes", "refused"} : g = IF ok THEN "yes" ELSE "refused"
    OBVIOUS
  <2>5. ok = TRUE <=> g = "yes"
    BY <2>4
  <2> DEFINE x == [r EXCEPT !.sent = {}, !.greeted = g]
             s == edited(state, n, x)
  <2>6. /\ x \in TryRecord /\ x.finished = FALSE /\ x.pipe = r.pipe /\ x.path = r.path /\ x.sent = {}
        /\ x.callbacks = r.callbacks /\ x.greeted = g
    BY <1>2, <1>9 DEF TryRecord
  <2>7. read(m, ok) = s
    <3>1. PICK u : u = read(m, ok)
      OBVIOUS
    <3>2. u = [state EXCEPT !.tries[n].sent = @ \ {m},
                    !.tries[n].greeted = IF m.kind # "hello" \/ @ = "yes" THEN @
                                         ELSE IF ok THEN "yes" ELSE "refused"]
      BY <3>1
    <3>3. u = [state EXCEPT !.tries[n].sent = @ \ {m}, !.tries[n].greeted = g]
      BY <3>2, <2>1, <2>3, <2>4, <1>1, <1>2 DEF State, TryRecord
    <3>4. r.sent \ {m} = {}
      BY <2>2, <2>3
    <3>5. u.tries = [state.tries EXCEPT ![n] = x]
      BY <3>3, <3>4, <1>1, <1>2 DEF State, TryRecord
    <3> HIDE DEF x
    <3>6. u = [state EXCEPT !.tries = [state.tries EXCEPT ![n] = x]]
      BY <3>3, <3>5, <1>1 DEF State
    <3> QED BY <3>1, <3>6, <1>1 DEF edited, State
  <2> HIDE DEF x
  <2>8. state' = dispatched(edited(state, n, x), id, ok, r.path)
    BY <1>5, <2>3, <2>7, Zenon
  <2>9. \A o \in Items(state.loop) : o.kind = "hello_timeout" => o.of # n
    BY <1>4, <2>3
  <2>10. \A t : t = dispatched(edited(state, n, x), id, ok, state.tries[n].path) =>
           /\ t \in State /\ Tries(t) /\ InFlight(t) /\ Queued(t) /\ ~Late(t) /\ t.phase = state.phase
    <3>1. /\ n \in 1 .. Len(state.tries) /\ n = state.conn
          /\ state.tries[n].finished = FALSE /\ state.tries[n].greeted = "no"
      BY <1>1, <1>2, <1>9, <2>1, Zenon
    <3>2. /\ state.tries[n].sent = {[id |-> id, kind |-> "hello"]}
          /\ state.tries[n].callbacks = {[id |-> id, kind |-> "hello", of |-> n]}
      BY <2>2, Zenon
    <3>3. /\ x \in TryRecord /\ x.finished = FALSE /\ x.pipe = state.tries[n].pipe
          /\ x.path = state.tries[n].path /\ x.sent = {} /\ x.callbacks = state.tries[n].callbacks
          /\ x.greeted = g
      BY <2>6, Zenon
    <3> QED BY <3>1, <3>2, <3>3, <2>5, <2>9, HelloAnswered, ZenonT(120)
  <2>11. PICK t : t = state'
    OBVIOUS
  <2>12. t \in State /\ Tries(t) /\ InFlight(t) /\ Queued(t) /\ ~Late(t) /\ t.phase = state.phase
    BY <2>8, <2>10, <2>11, Zenon
  <2> QED BY <1>7, <2>11, <2>12
<1> QED BY <1>2, <1>8, <1>9
-----------------------------------------------------------------------------
(***************************************************************************)
(* The theorem.                                                            *)
(***************************************************************************)

\* The invariant holds before the first attach.
LEMMA InitSound ==
  Init => AttachSound
<1> SUFFICES ASSUME Init PROVE AttachSound
  OBVIOUS
<1>1. state = [phase |-> "off", conn |-> 0, waiting |-> {}, pairing_waiter |-> 0,
               tries |-> <<>>, timers |-> {}, loop |-> <<>>]
  BY DEF Init
<1>2. <<>> \in Seq(TryRecord) /\ <<>> \in Seq(Item) /\ Len(<<>>) = 0 /\ 1 .. 0 = {}
  BY EmptySeq
<1>3. state \in State
  BY <1>1, <1>2 DEF State
<1>4. Tries(state)
  BY <1>1, <1>2 DEF Tries
<1>5. InFlight(state)
  BY <1>1 DEF InFlight
<1>6. Items(state.loop) = {}
  BY <1>1, <1>2 DEF Items
<1>7. Quiet(state) /\ Ranged(state) /\ allOver(state) /\ ~Late(state)
  BY <1>1, <1>2, <1>6 DEF Quiet, Ranged, allOver, Late
<1>8. Queued(state)
  BY <1>3, <1>7, QuietQueued
<1>9. transport = FALSE /\ draining = FALSE /\ probes = {}
  BY DEF Init
<1>10. state.phase = "off"
  BY <1>1
<1> QED BY <1>3, <1>4, <1>5, <1>7, <1>8, <1>9, <1>10 DEF AttachSound

\* Every step of Neovim, of libuv, of the helpers and of the terminal keeps the invariant.
LEMMA NextSound ==
  ASSUME AttachSound, mishaps = 0, mishaps' = 0, [Next]_vars
  PROVE  AttachSound'
<1>1. CASE UNCHANGED vars
  BY <1>1, ProbeUnheardKeeps
<1>2. CASE ProbeUnheard
  BY <1>2, ProbeUnheardKeeps
<1>3. ASSUME NEW n \in tries,
             \/ Connects(n) \/ ConnectFails(n) \/ Answered(n) \/ Presented(n) \/ Closed(n)
             \/ WriteFails(n) \/ HelloTimer(n) \/ PairingTimer(n)
      PROVE  AttachSound'
  BY <1>3, ConnectsKeeps, ConnectFailsKeeps, AnsweredKeeps, PresentedKeeps, ClosedKeeps,
     WriteFailsKeeps, HelloTimerKeeps, PairingTimerKeeps
<1>4. CASE RunLoop
  <2>1. draining' = (state'.loop # <<>>)
    BY <1>4 DEF RunLoop
  <2>2. \/ SendHello \/ Greeted \/ Refused \/ HelloTimesOut \/ PairingTimesOut \/ Paired \/ CallBack
    BY <1>4 DEF RunLoop
  <2> QED BY <2>1, <2>2, SendHelloKeeps, GreetedKeeps, RefusedKeeps, HelloTimesOutKeeps,
          PairingTimesOutKeeps, PairedKeeps, CallBackKeeps
<1>5. CASE \E a \in Attaches : Attach(a)
  BY <1>5, AttachKeeps
<1>6. CASE \E q \in Requests : Request(q)
  BY <1>6, RequestKeeps
<1> QED BY <1>1, <1>2, <1>3, <1>4, <1>5, <1>6 DEF Next

\* The bookkeeping is sound until the first accident.
SoundUntilMishap == mishaps \in Nat /\ (mishaps = 0 => AttachSound)

\* While the transport is set, the phase is "attached" and the open socket is the paired one;
\* a try that is not over is the last one.
LEMMA SoundIsOneTransport ==
  SoundUntilMishap => OneTransport
<1> SUFFICES ASSUME AttachSound PROVE TransportIsPaired /\ OneTry
  BY DEF SoundUntilMishap, OneTransport
<1>1. /\ state \in State /\ Tries(state) /\ transport \in BOOLEAN
      /\ (transport = TRUE <=> state.phase = "attached") /\ tries = 1 .. Len(state.tries)
  BY SoundFacts
<1>2. TransportIsPaired
  BY <1>1 DEF TransportIsPaired, Tries
<1>3. OneTry
  <2> SUFFICES ASSUME NEW m \in tries, NEW n \in tries,
                      ~state.tries[m].finished, ~state.tries[n].finished
               PROVE  m = n
    BY DEF OneTry
  <2>1. state.tries[m].finished \in BOOLEAN /\ state.tries[n].finished \in BOOLEAN
    BY <1>1, OpenTry
  <2>2. state.tries[m].finished = FALSE /\ state.tries[n].finished = FALSE
    BY <2>1
  <2>3. m = Len(state.tries) /\ n = Len(state.tries)
    BY <1>1, <2>2, OpenTry
  <2> QED BY <2>3
<1> QED BY <1>2, <1>3

\* Accidents are counted, never forgotten.
LEMMA MishapsCounted ==
  ASSUME mishaps \in Nat, [Next]_vars
  PROVE  mishaps' \in Nat /\ (mishaps' = 0 => mishaps = 0)
<1>1. CASE mishaps' = mishaps
  BY <1>1
<1>2. CASE \E n \in tries : Answered(n) \/ Closed(n) \/ WriteFails(n) \/ HelloTimer(n)
  <2>1. \E b : happens(b)
    BY <1>2 DEF Answered, Closed, WriteFails, HelloTimer
  <2> QED BY <2>1 DEF happens
<1>3. mishaps' = mishaps \/ \E n \in tries : Answered(n) \/ Closed(n) \/ WriteFails(n) \/ HelloTimer(n)
  <2>1. ASSUME NEW n \in tries, Connects(n) \/ ConnectFails(n) \/ Presented(n) \/ PairingTimer(n)
        PROVE  mishaps' = mishaps
    BY <2>1 DEF Connects, ConnectFails, Presented, PairingTimer
  <2>2. RunLoop => mishaps' = mishaps
    BY DEF RunLoop, SendHello, Greeted, Refused, HelloTimesOut, PairingTimesOut, Paired, CallBack, Runs
  <2>3. /\ \A a \in Attaches : Attach(a) => mishaps' = mishaps
        /\ \A q \in Requests : Request(q) => mishaps' = mishaps
        /\ ProbeUnheard \/ UNCHANGED vars => mishaps' = mishaps
    BY DEF Attach, Request, Command, ProbeUnheard, vars
  <2> QED BY <2>1, <2>2, <2>3 DEF Next
<1> QED BY <1>1, <1>2, <1>3

LEMMA NextSoundUntilMishap ==
  ASSUME SoundUntilMishap, [Next]_vars
  PROVE  SoundUntilMishap'
<1>1. mishaps' \in Nat /\ (mishaps' = 0 => mishaps = 0)
  BY MishapsCounted DEF SoundUntilMishap
<1>2. ASSUME mishaps' = 0 PROVE AttachSound'
  <2>1. mishaps = 0 /\ AttachSound
    BY <1>1, <1>2 DEF SoundUntilMishap
  <2> QED BY <2>1, <1>2, NextSound
<1> QED BY <1>1, <1>2 DEF SoundUntilMishap

\* Two helpers are never cross-wired until an accident befalls a try: requests go to the
\* paired socket of this terminal and one socket is tried at a time (localrender.lua).
THEOREM OneTransportHolds == Spec => []OneTransport
<1>1. Init => SoundUntilMishap
  <2>1. Init => mishaps = 0
    BY DEF Init
  <2> QED BY <2>1, InitSound DEF SoundUntilMishap
<1>2. SoundUntilMishap /\ [Next]_vars => SoundUntilMishap'
  BY NextSoundUntilMishap
<1> QED BY <1>1, <1>2, SoundIsOneTransport, PTL DEF Spec
-----------------------------------------------------------------------------
(***************************************************************************)
(* Calls: a request made is called back once.  It waits on the open socket *)
(* or its callback is queued, and never both.                              *)
(***************************************************************************)

\* Where the request r is: the callbacks C of the open socket, and the queue l.
waitsFor(r, C) == {c \in C : c.kind = "request" /\ c.of = r}
queuedFor(r, l) == {i \in 1 .. Len(l) : l[i].kind = "request" /\ l[i].of = r}

Nowhere(r, C, l) == waitsFor(r, C) = {} /\ queuedFor(r, l) = {}
Once(r, C, l) ==
  \/ queuedFor(r, l) = {} /\ \E c : waitsFor(r, C) = {c}
  \/ waitsFor(r, C) = {} /\ \E i : queuedFor(r, l) = {i}

openCalls(s) == IF s.conn = 0 THEN {} ELSE s.tries[s.conn].callbacks

\* The callbacks of the open socket have ids of their own, none beyond the last given.
Numbered(s) ==
  /\ s.loop \in Seq(Item) /\ openCalls(s) \subseteq Callback /\ IsFiniteSet(openCalls(s))
  /\ \A c, d \in openCalls(s) : c.id = d.id => c = d
  /\ s.conn # 0 => \A c \in openCalls(s) : c.id <= s.tries[s.conn].next_id

\* From s to t no request is lost, found or doubled.
Moves(C, l, D, m) ==
  \A r \in Requests : /\ Nowhere(r, C, l) => Nowhere(r, D, m)
                      /\ Once(r, C, l) => Once(r, D, m)
Carries(s, t) == Numbered(s) => Numbered(t) /\ Moves(openCalls(s), s.loop, openCalls(t), t.loop)

\* A callback is posted behind the others.
LEMMA QueuedAppend ==
  ASSUME NEW l \in Seq(Item), NEW x \in Item, NEW r \in Requests
  PROVE  /\ ~(x.kind = "request" /\ x.of = r) => queuedFor(r, Append(l, x)) = queuedFor(r, l)
         /\ x.kind = "request" /\ x.of = r /\ queuedFor(r, l) = {} =>
              queuedFor(r, Append(l, x)) = {Len(l) + 1}
<1> DEFINE u == Append(l, x)
<1>1. /\ Len(l) \in Nat /\ Len(u) = Len(l) + 1 /\ u[Len(l) + 1] = x
      /\ \A i \in 1 .. Len(l) : u[i] = l[i]
  BY AppendProperties, LenProperties
<1> HIDE DEF u
<1>2. \A i \in 1 .. Len(u) : i \in 1 .. Len(l) \/ i = Len(l) + 1
  BY <1>1
<1>3. \A i \in 1 .. Len(l) : i \in 1 .. Len(u) /\ i # Len(l) + 1
  BY <1>1
<1>4. Len(l) + 1 \in 1 .. Len(u)
  BY <1>1
<1>5. ASSUME ~(x.kind = "request" /\ x.of = r) PROVE queuedFor(r, u) = queuedFor(r, l)
  BY <1>1, <1>2, <1>3, <1>5 DEF queuedFor
<1>6. ASSUME x.kind = "request", x.of = r, queuedFor(r, l) = {} PROVE queuedFor(r, u) = {Len(l) + 1}
  BY <1>1, <1>2, <1>3, <1>4, <1>6 DEF queuedFor
<1> QED BY <1>5, <1>6 DEF u

\* The first callback of the queue is taken.
LEMMA QueuedTail ==
  ASSUME NEW l \in Seq(Item), l # <<>>, NEW r \in Requests
  PROVE  /\ queuedFor(r, l) = {} => queuedFor(r, Tail(l)) = {}
         /\ ~(Head(l).kind = "request" /\ Head(l).of = r) =>
              \A i : queuedFor(r, l) = {i} => queuedFor(r, Tail(l)) = {i - 1}
         /\ Head(l).kind = "request" /\ Head(l).of = r =>
              /\ queuedFor(r, l) # {}
              /\ \A i : queuedFor(r, l) = {i} => queuedFor(r, Tail(l)) = {}
<1> DEFINE u == Tail(l)
           h == Head(l)
<1>1. /\ Len(l) \in Nat \ {0} /\ Len(u) = Len(l) - 1 /\ h = l[1]
      /\ \A i \in 1 .. Len(u) : u[i] = l[i + 1]
  BY HeadTailProperties, EmptySeq
<1> HIDE DEF u, h
<1>2. /\ \A i \in 1 .. Len(l) : i = 1 \/ (i - 1 \in 1 .. Len(u) /\ u[i - 1] = l[i])
      /\ \A i \in 1 .. Len(u) : i + 1 \in 1 .. Len(l) /\ i + 1 # 1 /\ u[i] = l[i + 1] /\ (i + 1) - 1 = i
      /\ 1 \in 1 .. Len(l)
  BY <1>1
<1>3. \A j : j \in queuedFor(r, u) => j + 1 \in queuedFor(r, l) /\ j \in Nat
  BY <1>2 DEF queuedFor
<1>4. queuedFor(r, l) = {} => queuedFor(r, u) = {}
  BY <1>3
<1>5. ASSUME ~(h.kind = "request" /\ h.of = r), NEW i, queuedFor(r, l) = {i}
      PROVE  queuedFor(r, u) = {i - 1}
  <2>1. i \in 1 .. Len(l) /\ l[i].kind = "request" /\ l[i].of = r /\ i # 1
    BY <1>1, <1>5 DEF queuedFor
  <2>2. i - 1 \in queuedFor(r, u)
    BY <1>2, <2>1 DEF queuedFor
  <2>3. \A j \in queuedFor(r, u) : j = i - 1
    <3> SUFFICES ASSUME NEW j \in queuedFor(r, u) PROVE j = i - 1
      OBVIOUS
    <3>1. j + 1 = i /\ j \in Nat
      BY <1>3, <1>5
    <3> QED BY <3>1
  <2> QED BY <2>2, <2>3
<1>6. ASSUME h.kind = "request", h.of = r PROVE 1 \in queuedFor(r, l)
  BY <1>1, <1>2, <1>6 DEF queuedFor
<1>7. ASSUME h.kind = "request", h.of = r, NEW i, queuedFor(r, l) = {i}
      PROVE  queuedFor(r, u) = {}
  <2>1. i = 1
    BY <1>6, <1>7
  <2>2. \A j \in queuedFor(r, u) : j + 1 = 1 /\ j \in 1 .. Len(u)
    BY <1>3, <1>7, <2>1 DEF queuedFor
  <2> QED BY <1>2, <2>2
<1> QED BY <1>4, <1>5, <1>6, <1>7 DEF u, h

\* The callbacks m are posted behind those of l.
LEMMA QueuedConcat ==
  ASSUME NEW l \in Seq(Item), NEW m \in Seq(Item), NEW r \in Requests
  PROVE  /\ queuedFor(r, m) = {} => queuedFor(r, l \o m) = queuedFor(r, l)
         /\ queuedFor(r, l) = {} => \A i : queuedFor(r, m) = {i} => queuedFor(r, l \o m) = {Len(l) + i}
<1> DEFINE u == l \o m
<1>1. /\ Len(u) = Len(l) + Len(m) /\ Len(l) \in Nat /\ Len(m) \in Nat
      /\ \A i \in 1 .. Len(l) + Len(m) : u[i] = IF i <= Len(l) THEN l[i] ELSE m[i - Len(l)]
  BY ConcatProperties, LenProperties
<1> HIDE DEF u
<1>2. \A i \in 1 .. Len(l) : i \in 1 .. Len(u) /\ u[i] = l[i]
  BY <1>1
<1>3. \A i \in 1 .. Len(m) : Len(l) + i \in 1 .. Len(u) /\ u[Len(l) + i] = m[i]
  <2> SUFFICES ASSUME NEW i \in 1 .. Len(m) PROVE Len(l) + i \in 1 .. Len(u) /\ u[Len(l) + i] = m[i]
    OBVIOUS
  <2>1. Len(l) + i \in 1 .. Len(l) + Len(m) /\ ~(Len(l) + i <= Len(l)) /\ (Len(l) + i) - Len(l) = i
    BY <1>1
  <2> QED BY <2>1, <1>1
<1>4. \A i \in 1 .. Len(u) : \/ i \in 1 .. Len(l) /\ u[i] = l[i]
                             \/ /\ i - Len(l) \in 1 .. Len(m) /\ u[i] = m[i - Len(l)]
                                /\ i = Len(l) + (i - Len(l))
  BY <1>1
<1>5. ASSUME queuedFor(r, m) = {} PROVE queuedFor(r, u) = queuedFor(r, l)
  <2>1. \A i \in queuedFor(r, u) : i \in queuedFor(r, l)
    BY <1>4, <1>5 DEF queuedFor
  <2>2. \A i \in queuedFor(r, l) : i \in queuedFor(r, u)
    BY <1>2 DEF queuedFor
  <2> QED BY <2>1, <2>2
<1>6. ASSUME queuedFor(r, l) = {}, NEW i, queuedFor(r, m) = {i} PROVE queuedFor(r, u) = {Len(l) + i}
  <2>1. i \in 1 .. Len(m) /\ m[i].kind = "request" /\ m[i].of = r
    BY <1>6 DEF queuedFor
  <2>2. Len(l) + i \in queuedFor(r, u)
    BY <1>3, <2>1 DEF queuedFor
  <2>3. \A j \in queuedFor(r, u) : j = Len(l) + i
    <3> SUFFICES ASSUME NEW j \in queuedFor(r, u) PROVE j = Len(l) + i
      OBVIOUS
    <3>1. j \in 1 .. Len(u) /\ u[j].kind = "request" /\ u[j].of = r
      BY DEF queuedFor
    <3>2. j \notin 1 .. Len(l) \/ u[j] # l[j]
      BY <1>6, <3>1 DEF queuedFor
    <3>3. j - Len(l) \in queuedFor(r, m) /\ j = Len(l) + (j - Len(l))
      BY <1>4, <3>1, <3>2 DEF queuedFor
    <3>4. j - Len(l) = i
      BY <1>6, <3>3
    <3> QED BY <3>3, <3>4
  <2> QED BY <2>2, <2>3
<1> QED BY <1>5, <1>6 DEF u

\* In a set put in some order each callback comes once.
LEMMA QueuedOfSet ==
  ASSUME NEW S \in SUBSET Item, IsFiniteSet(S), NEW r \in Requests
  PROVE  /\ (\A x \in S : ~(x.kind = "request" /\ x.of = r)) => queuedFor(r, SetToSeq(S)) = {}
         /\ \A y \in S :
              y.kind = "request" /\ y.of = r /\ (\A x \in S : x.kind = "request" /\ x.of = r => x = y)
                => \E i : queuedFor(r, SetToSeq(S)) = {i}
<1> DEFINE n == Cardinality(S)
           f == SetToSeq(S)
<1>1. n \in Nat /\ ExistsBijection(1 .. n, S)
  BY FS_CardinalityType
<1>2. PICK g \in Bijection(1 .. n, S) : TRUE
  BY <1>1 DEF ExistsBijection
<1>3. g \in [1 .. n -> S] /\ \A a, b \in 1 .. n : g[a] = g[b] => a = b
  BY <1>2 DEF Bijection, Injection, Surjection, IsInjective
<1>4. IsInjective(g)
  BY <1>3 DEF IsInjective
<1>5. f \in [1 .. n -> S] /\ IsInjective(f)
  BY <1>3, <1>4 DEF SetToSeq
<1>6. f \in Seq(Item) /\ Items(f) = S
  BY ItemsOfSet
<1> HIDE DEF f
<1>7. DOMAIN f = 1 .. Len(f)
  BY <1>6, LenProperties
<1>8. /\ \A i \in 1 .. Len(f) : f[i] \in S
      /\ \A i, j \in 1 .. Len(f) : f[i] = f[j] => i = j
  BY <1>5, <1>7 DEF IsInjective
<1>9. ASSUME \A x \in S : ~(x.kind = "request" /\ x.of = r) PROVE queuedFor(r, f) = {}
  BY <1>8, <1>9 DEF queuedFor
<1>10. ASSUME NEW y \in S, y.kind = "request", y.of = r,
              \A x \in S : x.kind = "request" /\ x.of = r => x = y
       PROVE  \E i : queuedFor(r, f) = {i}
  <2>1. PICK i \in 1 .. Len(f) : f[i] = y
    BY <1>6 DEF Items
  <2>2. \A j \in queuedFor(r, f) : j = i
    BY <1>8, <1>10, <2>1 DEF queuedFor
  <2>3. i \in queuedFor(r, f)
    BY <1>10, <2>1 DEF queuedFor
  <2> QED BY <2>2, <2>3
<1> QED BY <1>9, <1>10 DEF f

\* The open socket, its callbacks and its ids are those of s, or there is none any more.
sameSocket(s, t) == t.conn = s.conn /\ (s.conn # 0 => t.tries[s.conn].next_id = s.tries[s.conn].next_id)

\* One step after the other.
LEMMA CarriesOn ==
  ASSUME NEW s, NEW t, NEW u, Carries(s, t), Carries(t, u)
  PROVE  Carries(s, u)
BY DEF Carries, Moves

\* Neither the callbacks nor the queue changes.
LEMMA CarriesSame ==
  ASSUME NEW s, NEW t, sameSocket(s, t), openCalls(t) = openCalls(s), t.loop = s.loop
  PROVE  Carries(s, t)
BY DEF Carries, Moves, Numbered, sameSocket

\* Something else than a request's callback is posted.
LEMMA CarriesPost ==
  ASSUME NEW s, NEW t, sameSocket(s, t), openCalls(t) = openCalls(s),
         NEW x \in Item, x.kind # "request", t.loop = Append(s.loop, x)
  PROVE  Carries(s, t)
<1> SUFFICES ASSUME Numbered(s)
             PROVE  Numbered(t) /\ Moves(openCalls(s), s.loop, openCalls(t), t.loop)
  BY DEF Carries
<1>1. s.loop \in Seq(Item) /\ t.loop \in Seq(Item)
  BY AppendProperties DEF Numbered
<1>2. Numbered(t)
  BY <1>1 DEF Numbered, sameSocket
<1>3. \A r \in Requests : queuedFor(r, t.loop) = queuedFor(r, s.loop)
  BY <1>1, QueuedAppend
<1> QED BY <1>2, <1>3 DEF Moves, Nowhere, Once

\* Something else than a request's callback is taken from the queue.
LEMMA CarriesTail ==
  ASSUME NEW s, NEW t, sameSocket(s, t), openCalls(t) = openCalls(s),
         s.loop # <<>>, Head(s.loop).kind # "request", t.loop = Tail(s.loop)
  PROVE  Carries(s, t)
<1> SUFFICES ASSUME Numbered(s)
             PROVE  Numbered(t) /\ Moves(openCalls(s), s.loop, openCalls(t), t.loop)
  BY DEF Carries
<1>1. s.loop \in Seq(Item) /\ t.loop \in Seq(Item)
  BY HeadTailProperties DEF Numbered
<1>2. Numbered(t)
  BY <1>1 DEF Numbered, sameSocket
<1>3. \A r \in Requests : /\ queuedFor(r, s.loop) = {} => queuedFor(r, t.loop) = {}
                          /\ \A i : queuedFor(r, s.loop) = {i} => queuedFor(r, t.loop) = {i - 1}
  <2> SUFFICES ASSUME NEW r \in Requests
               PROVE  /\ queuedFor(r, s.loop) = {} => queuedFor(r, t.loop) = {}
                      /\ \A i : queuedFor(r, s.loop) = {i} => queuedFor(r, t.loop) = {i - 1}
    OBVIOUS
  <2>1. PICK l \in Seq(Item) : l = s.loop
    BY <1>1
  <2>2. /\ queuedFor(r, l) = {} => queuedFor(r, Tail(l)) = {}
        /\ \A i : queuedFor(r, l) = {i} => queuedFor(r, Tail(l)) = {i - 1}
    <3>1. l # <<>> /\ Head(l).kind # "request"
      BY <2>1
    <3> QED BY <3>1, QueuedTail
  <2> QED BY <2>1, <2>2
<1>4. ASSUME NEW r \in Requests
      PROVE  /\ Nowhere(r, openCalls(s), s.loop) => Nowhere(r, openCalls(t), t.loop)
             /\ Once(r, openCalls(s), s.loop) => Once(r, openCalls(t), t.loop)
  BY <1>3 DEF Nowhere, Once
<1> QED BY <1>2, <1>4 DEF Moves

\* A callback of the socket is looked up and posted.
LEMMA CarriesDispatch ==
  ASSUME NEW s, NEW t, sameSocket(s, t), s.conn # 0, NEW b \in openCalls(s),
         openCalls(t) = openCalls(s) \ {b},
         NEW x \in Item, x.kind = b.kind, x.of = b.of, t.loop = Append(s.loop, x)
  PROVE  Carries(s, t)
<1> SUFFICES ASSUME Numbered(s)
             PROVE  Numbered(t) /\ Moves(openCalls(s), s.loop, openCalls(t), t.loop)
  BY DEF Carries
<1>1. s.loop \in Seq(Item) /\ t.loop \in Seq(Item)
  BY AppendProperties DEF Numbered
<1>2. Numbered(t)
  <2>1. IsFiniteSet(openCalls(s)) /\ openCalls(t) \subseteq openCalls(s)
    BY DEF Numbered
  <2>2. IsFiniteSet(openCalls(t))
    BY <2>1, FS_Subset
  <2> QED BY <1>1, <2>1, <2>2 DEF Numbered, sameSocket
<1>3. ASSUME NEW r \in Requests
      PROVE  /\ Nowhere(r, openCalls(s), s.loop) => Nowhere(r, openCalls(t), t.loop)
             /\ Once(r, openCalls(s), s.loop) => Once(r, openCalls(t), t.loop)
  <2>1. CASE b.kind = "request" /\ b.of = r
    <3>1. b \in waitsFor(r, openCalls(s))
      BY <2>1 DEF waitsFor
    <3>2. waitsFor(r, openCalls(t)) = waitsFor(r, openCalls(s)) \ {b}
      BY DEF waitsFor
    <3>3. queuedFor(r, s.loop) = {} => queuedFor(r, t.loop) = {Len(s.loop) + 1}
      BY <1>1, <2>1, QueuedAppend
    <3> QED BY <3>1, <3>2, <3>3 DEF Nowhere, Once
  <2>2. CASE ~(b.kind = "request" /\ b.of = r)
    <3>1. waitsFor(r, openCalls(t)) = waitsFor(r, openCalls(s))
      BY <2>2 DEF waitsFor
    <3>2. queuedFor(r, t.loop) = queuedFor(r, s.loop)
      BY <1>1, <2>2, QueuedAppend
    <3> QED BY <3>1, <3>2 DEF Nowhere, Once
  <2> QED BY <2>1, <2>2
<1> QED BY <1>2, <1>3 DEF Moves

\* The connection is closed: its callbacks are posted, each with an error.
LEMMA CarriesClose ==
  ASSUME NEW s, NEW t, t.conn = 0,
         t.loop = s.loop \o SetToSeq({failing(c) : c \in openCalls(s)})
  PROVE  Carries(s, t)
<1> DEFINE S == {failing(c) : c \in openCalls(s)}
           m == SetToSeq(S)
<1> SUFFICES ASSUME Numbered(s)
             PROVE  Numbered(t) /\ Moves(openCalls(s), s.loop, openCalls(t), t.loop)
  BY DEF Carries
<1>0. s.loop \in Seq(Item) /\ openCalls(s) \subseteq Callback /\ IsFiniteSet(openCalls(s))
  BY DEF Numbered
<1>1. S \in SUBSET Item
  BY <1>0, FailingQuiet
<1>2. IsFiniteSet(S)
  <2>1. PICK f : f = [c \in openCalls(s) |-> failing(c)]
    OBVIOUS
  <2>2. f \in Surjection(openCalls(s), S)
    BY <2>1 DEF Surjection
  <2> QED BY <1>0, <2>2, FS_Surjection
<1>3. m \in Seq(Item)
  BY <1>1, <1>2, ItemsOfSet
<1>4. s.loop \o m \in Seq(Item) /\ openCalls(t) = {} /\ IsFiniteSet({})
  BY <1>0, <1>3, ConcatProperties, FS_EmptySet DEF openCalls
<1>5. Numbered(t)
  BY <1>4 DEF Numbered
<1>6. ASSUME NEW r \in Requests
      PROVE  /\ waitsFor(r, openCalls(s)) = {} => queuedFor(r, m) = {}
             /\ \A c : waitsFor(r, openCalls(s)) = {c} => \E i : queuedFor(r, m) = {i}
  <2>1. \A c \in openCalls(s) : failing(c).kind = c.kind /\ failing(c).of = c.of
    BY <1>0, FailingQuiet
  <2>2. ASSUME waitsFor(r, openCalls(s)) = {} PROVE queuedFor(r, m) = {}
    <3>1. \A x \in S : ~(x.kind = "request" /\ x.of = r)
      BY <2>1, <2>2 DEF waitsFor
    <3> QED BY <1>1, <1>2, <3>1, QueuedOfSet
  <2>3. ASSUME NEW c, waitsFor(r, openCalls(s)) = {c} PROVE \E i : queuedFor(r, m) = {i}
    <3>1. c \in openCalls(s) /\ c.kind = "request" /\ c.of = r
      BY <2>3 DEF waitsFor
    <3>2. \A d \in openCalls(s) : d.kind = "request" /\ d.of = r => d = c
      BY <2>3 DEF waitsFor
    <3>3. failing(c) \in S /\ failing(c).kind = "request" /\ failing(c).of = r
      BY <2>1, <3>1
    <3>4. \A x \in S : x.kind = "request" /\ x.of = r => x = failing(c)
      BY <2>1, <3>2
    <3>5. PICK y \in S : y = failing(c)
      BY <3>3
    <3>6. /\ y.kind = "request" /\ y.of = r
          /\ \A x \in S : x.kind = "request" /\ x.of = r => x = y
      BY <3>3, <3>4, <3>5, Zenon
    <3>7. PICK T \in SUBSET Item : T = S
      BY <1>1
    <3>8. \E i : queuedFor(r, SetToSeq(T)) = {i}
      <4>1. /\ IsFiniteSet(T) /\ y \in T
            /\ \A x \in T : x.kind = "request" /\ x.of = r => x = y
        BY <1>2, <3>6, <3>7, Zenon
      <4>2. y.kind = "request" /\ y.of = r
        BY <3>6
      <4>3. \A z \in T :
              z.kind = "request" /\ z.of = r /\ (\A x \in T : x.kind = "request" /\ x.of = r => x = z)
                => \E i : queuedFor(r, SetToSeq(T)) = {i}
        BY <4>1, QueuedOfSet, Zenon
      <4> QED BY <4>1, <4>2, <4>3, Zenon
    <3> QED BY <3>7, <3>8, Zenon
  <2> QED BY <2>2, <2>3
<1> HIDE DEF m
<1>7. ASSUME NEW r \in Requests
      PROVE  /\ Nowhere(r, openCalls(s), s.loop) => Nowhere(r, openCalls(t), t.loop)
             /\ Once(r, openCalls(s), s.loop) => Once(r, openCalls(t), t.loop)
  <2>1. waitsFor(r, openCalls(t)) = {}
    BY <1>4 DEF waitsFor
  <2>2. /\ queuedFor(r, m) = {} => queuedFor(r, t.loop) = queuedFor(r, s.loop)
        /\ queuedFor(r, s.loop) = {} => \A i : queuedFor(r, m) = {i} => queuedFor(r, t.loop) = {Len(s.loop) + i}
    <3>1. t.loop = s.loop \o m
      BY DEF m
    <3>2. PICK l \in Seq(Item) : l = s.loop
      BY <1>0
    <3>3. /\ queuedFor(r, m) = {} => queuedFor(r, l \o m) = queuedFor(r, l)
          /\ queuedFor(r, l) = {} =>
               \A i : queuedFor(r, m) = {i} => queuedFor(r, l \o m) = {Len(l) + i}
      BY <1>3, QueuedConcat, SMTT(30)
    <3> QED BY <3>1, <3>2, <3>3, Zenon
  <2> QED BY <1>6, <2>1, <2>2 DEF Nowhere, Once
<1> QED BY <1>5, <1>7 DEF Moves

\* One try is changed, but for its callbacks and ids.
LEMMA EditCarries ==
  ASSUME NEW s \in State, NEW n \in 1 .. Len(s.tries), NEW x \in TryRecord,
         x.callbacks = s.tries[n].callbacks, x.next_id = s.tries[n].next_id,
         s.conn \in 0 .. Len(s.tries)
  PROVE  Carries(s, edited(s, n, x))
<1> DEFINE t == edited(s, n, x)
<1>1. /\ t.tries[n] = x /\ \A m \in 1 .. Len(s.tries) : m # n => t.tries[m] = s.tries[m]
      /\ t.conn = s.conn /\ t.loop = s.loop
  BY TryEdited
<1> HIDE DEF t
<1>2. s.conn # 0 => s.conn \in 1 .. Len(s.tries)
  BY LenProperties DEF State
<1>3. openCalls(t) = openCalls(s) /\ sameSocket(s, t)
  BY <1>1, <1>2 DEF openCalls, sameSocket
<1>4. Carries(s, t)
  BY <1>1, <1>3, CarriesSame
<1> QED BY <1>4 DEF t

\* close_conn fails the callbacks of the connection, each once.
LEMMA CloseCarries ==
  ASSUME NEW s \in State, s.conn \in 0 .. Len(s.tries)
  PROVE  Carries(s, close_conn(s))
<1> DEFINE t == close_conn(s)
<1>1. CASE s.conn = 0
  <2>1. close_conn(s) = s
    BY <1>1 DEF close_conn
  <2> QED BY <2>1 DEF Carries, Moves
<1>2. CASE s.conn # 0
  <2> DEFINE F == {failing(c) : c \in s.tries[s.conn].callbacks}
             L == SetToSeq(F)
  <2>1. t = [s EXCEPT !.conn = 0, !.tries[s.conn].pipe = "closed", !.tries[s.conn].callbacks = {},
                      !.loop = @ \o L]
    BY <1>2 DEF close_conn
  <2> HIDE DEF L, t
  <2>2. t.conn = 0 /\ t.loop = s.loop \o L
    BY <2>1 DEF State
  <2>3. L = SetToSeq({failing(c) : c \in openCalls(s)})
    BY <1>2 DEF openCalls, L
  <2>4. Carries(s, t)
    BY <2>2, <2>3, CarriesClose
  <2> QED BY <2>4 DEF t
<1> QED BY <1>1, <1>2

\* So does demote.
LEMMA DemoteCarries ==
  ASSUME NEW s \in State, s.conn \in 0 .. Len(s.tries)
  PROVE  Carries(s, demoted(s))
<1> DEFINE t == close_conn(s)
           u == [t EXCEPT !.phase = "fallback"]
<1>1. Carries(s, t)
  BY CloseCarries
<1>2. t.conn = 0 /\ u.conn = t.conn /\ u.loop = t.loop
  <2>1. CASE s.conn = 0
    <3>1. t = s
      BY <2>1 DEF close_conn
    <3> QED BY <2>1, <3>1 DEF State
  <2>2. CASE s.conn # 0
    <3>1. PICK L : L = SetToSeq({failing(c) : c \in s.tries[s.conn].callbacks})
      OBVIOUS
    <3>2. t = [s EXCEPT !.conn = 0, !.tries[s.conn].pipe = "closed", !.tries[s.conn].callbacks = {},
                        !.loop = @ \o L]
      BY <2>2, <3>1 DEF close_conn
    <3> HIDE DEF t
    <3> QED BY <3>2 DEF State
  <2> QED BY <2>1, <2>2
<1> HIDE DEF t, u
<1>5. Carries(t, u)
  BY <1>2, CarriesSame DEF sameSocket, openCalls
<1>6. Carries(s, u)
  BY <1>1, <1>5, CarriesOn
<1>7. CASE s.phase \in {"attached", "connecting"}
  <2>1. demoted(s) = u
    BY <1>7 DEF demoted, u, t
  <2> QED BY <1>6, <2>1
<1>8. CASE s.phase \notin {"attached", "connecting"}
  <2>1. demoted(s) = s
    BY <1>8 DEF demoted
  <2> QED BY <2>1 DEF Carries, Moves
<1> QED BY <1>7, <1>8

\* What try_next begins has no callbacks, and there is no connection before it.
LEMMA NextCarries ==
  ASSUME NEW s \in State, s.conn = 0, NEW rest, NEW k
  PROVE  Carries(s, try_next(s, rest, k))
<1>1. PICK t : t = try_next(s, rest, k)
  OBVIOUS
<1>2. t.conn = 0 /\ t.loop = s.loop
  <2>1. CASE k = Len(rest)
    BY <1>1, <2>1 DEF try_next, settle, State
  <2>2. CASE k # Len(rest)
    BY <1>1, <2>2 DEF try_next, State
  <2> QED BY <2>1, <2>2
<1>3. Carries(s, t)
  BY <1>2, CarriesSame DEF sameSocket, openCalls
<1> QED BY <1>1, <1>3

\* So does finish, which closes the connection and tries the next candidate.
LEMMA FinishCarries ==
  ASSUME NEW s \in State, Tries(s), HellosRanged(s), NEW n \in 1 .. Len(s.tries), NEW k
  PROVE  Carries(s, finish(s, n, k))
<1> DEFINE r == s.tries[n]
           x == [r EXCEPT !.finished = TRUE]
           s1 == edited(s, n, x)
           s2 == close_conn(s1)
           y == [s2.tries[n] EXCEPT !.pipe = "closed"]
           s3 == edited(s2, n, y)
<1>1. s.tries \in Seq(TryRecord) /\ s.conn \in 0 .. Len(s.tries) /\ r \in TryRecord
  BY ElementOfSeq DEF State, Tries
<1>2. CASE r.finished
  <2>1. finish(s, n, k) = s
    BY <1>2 DEF finish
  <2> QED BY <2>1 DEF Carries, Moves
<1>3. CASE ~r.finished
  <2>1. /\ x \in TryRecord /\ x.callbacks = r.callbacks /\ x.next_id = r.next_id
    BY <1>1 DEF TryRecord
  <2> HIDE DEF x
  <2>2. /\ s1 \in State /\ Len(s1.tries) = Len(s.tries) /\ s1.tries[n] = x
        /\ \A m \in 1 .. Len(s.tries) : m # n => s1.tries[m] = s.tries[m]
        /\ s1.conn = s.conn
    BY <2>1, TryEdited
  <2>3. Carries(s, s1)
    BY <1>1, <2>1, EditCarries
  <2>4. [s EXCEPT !.tries[n].finished = TRUE] = s1
    BY <1>1 DEF edited, x, State
  <2> HIDE DEF s1
  <2>5. /\ s1.conn \in 0 .. Len(s1.tries)
        /\ \A m \in 1 .. Len(s1.tries) : IsFiniteSet(s1.tries[m].callbacks)
        /\ HellosRanged(s1)
    <3>1. \A m \in 1 .. Len(s.tries) : s1.tries[m].callbacks = s.tries[m].callbacks
      BY <2>1, <2>2
    <3>2. \A m \in 1 .. Len(s.tries) : IsFiniteSet(s.tries[m].callbacks)
      BY DEF Tries
    <3>3. s1.conn # 0 => s1.conn \in 1 .. Len(s.tries)
      BY <1>1, <2>2
    <3> QED BY <1>1, <2>2, <3>1, <3>2, <3>3 DEF HellosRanged
  <2>6. s2 \in State /\ s2.conn = 0 /\ Len(s2.tries) = Len(s.tries)
    BY <2>2, <2>5, ConnClosed
  <2>7. Carries(s1, s2)
    BY <2>2, <2>5, CloseCarries
  <2>8. finish(s, n, k) = try_next([s2 EXCEPT !.tries[n].pipe = "closed"], r.rest, k)
    BY <1>3, <2>4 DEF finish
  <2> HIDE DEF s2
  <2>9. s2.tries[n] \in TryRecord
    BY <2>6, ElementOfSeq DEF State
  <2>10. y \in TryRecord /\ y.callbacks = s2.tries[n].callbacks /\ y.next_id = s2.tries[n].next_id
    BY <2>9 DEF TryRecord
  <2>11. [s2 EXCEPT !.tries[n].pipe = "closed"] = s3
    BY <2>6, <2>9 DEF edited, State
  <2> HIDE DEF y
  <2>12. s3 \in State /\ s3.conn = 0
    BY <2>6, <2>10, TryEdited
  <2>13. n \in 1 .. Len(s2.tries) /\ s2.conn \in 0 .. Len(s2.tries)
    BY <2>6, LenProperties DEF State
  <2>14. Carries(s2, s3)
    BY <2>6, <2>10, <2>13, EditCarries
  <2> HIDE DEF s3
  <2>15. Carries(s3, try_next(s3, r.rest, k))
    BY <2>12, NextCarries
  <2>16. Carries(s, s3)
    BY <2>3, <2>7, <2>14, CarriesOn
  <2>17. finish(s, n, k) = try_next(s3, r.rest, k)
    BY <2>8, <2>11, Zenon
  <2> HIDE DEF r
  <2>18. Carries(s, try_next(s3, r.rest, k))
    BY <2>15, <2>16, CarriesOn
  <2> QED BY <2>17, <2>18, Zenon
<1> QED BY <1>2, <1>3

\* dispatch_line takes one callback from the connection and posts it, or does nothing.
LEMMA DispatchCarries ==
  ASSUME NEW s \in State, NEW n \in 1 .. Len(s.tries), n = s.conn, NEW id \in Nat, NEW ok \in BOOLEAN,
         NEW token \in Paths \cup {"none"}, NEW d, d = dispatched(s, id, ok, token)
  PROVE  Carries(s, d) /\ d \in State /\ d.conn = s.conn /\ Len(d.tries) = Len(s.tries)
<1>1. d = s \/ Called(s, n, id, ok, token, d)
  BY Dispatch
<1>2. CASE d = s
  BY <1>2 DEF Carries, Moves
<1>3. CASE Called(s, n, id, ok, token, d)
  <2>1. PICK b \in s.tries[n].callbacks, x \in TryRecord :
          /\ b.id = id
          /\ x = [s.tries[n] EXCEPT !.callbacks = @ \ {c \in s.tries[n].callbacks : c.id = id}]
          /\ d = post(edited(s, n, x), [kind |-> b.kind, of |-> b.of, ok |-> ok, token |-> token])
    BY <1>3 DEF Called
  <2> DEFINE e == edited(s, n, x)
             it == [kind |-> b.kind, of |-> b.of, ok |-> ok, token |-> token]
  <2>2. s.tries[n] \in TryRecord /\ n # 0
    BY ElementOfSeq DEF State
  <2>3. b \in Callback
    BY <2>2 DEF TryRecord
  <2>4. it \in Item /\ it.kind = b.kind /\ it.of = b.of
    BY <2>3 DEF Callback, Item
  <2>5. /\ x.callbacks = s.tries[n].callbacks \ {c \in s.tries[n].callbacks : c.id = id}
        /\ x.next_id = s.tries[n].next_id
    BY <2>1, <2>2 DEF TryRecord
  <2>6. e \in State /\ e.tries[n] = x /\ Len(e.tries) = Len(s.tries) /\ e.conn = s.conn /\ e.loop = s.loop
    BY TryEdited
  <2>7. d = post(e, it)
    BY <2>1, Zenon
  <2> HIDE DEF e, it
  <2>8. d \in State /\ d.tries = e.tries /\ d.conn = e.conn
    BY <2>4, <2>6, <2>7, Posted
  <2>9. d.loop = Append(e.loop, it)
    BY <2>6, <2>7 DEF post, State
  <2>10. SUFFICES ASSUME Numbered(s) PROVE Carries(s, d)
    BY <2>6, <2>8 DEF Carries
  <2>11. openCalls(s) = s.tries[n].callbacks /\ openCalls(d) = x.callbacks
    BY <2>2, <2>6, <2>8 DEF openCalls
  <2>12. {c \in s.tries[n].callbacks : c.id = id} = {b}
    BY <2>1, <2>10, <2>11, ZenonT(60) DEF Numbered
  <2>13. openCalls(d) = openCalls(s) \ {b} /\ b \in openCalls(s)
    BY <2>1, <2>5, <2>11, <2>12
  <2>14. sameSocket(s, d) /\ s.conn # 0
    BY <2>2, <2>5, <2>6, <2>8 DEF sameSocket
  <2>15. d.loop = Append(s.loop, it)
    BY <2>6, <2>9
  <2> QED BY <2>4, <2>13, <2>14, <2>15, CarriesDispatch
<1> QED BY <1>1, <1>2, <1>3

\* send_request gives the callback the next id of the connection.
LEMMA Sends ==
  ASSUME NEW s \in State, NEW n \in 1 .. Len(s.tries), n = s.conn, NEW kind, NEW of,
         \A id \in Nat : [id |-> id, kind |-> kind, of |-> of] \in Callback,
         NEW t, t = send_request(s, kind, of)
  PROVE  \E c \in Callback :
           /\ c.kind = kind /\ c.of = of
           /\ t.conn = s.conn /\ t.loop = s.loop /\ openCalls(t) = openCalls(s) \cup {c}
           /\ Numbered(s) => Numbered(t)
<1> DEFINE r == s.tries[n]
<1>1. r \in TryRecord /\ s.tries \in Seq(TryRecord) /\ n # 0 /\ n \in DOMAIN s.tries
  BY ElementOfSeq, LenProperties DEF State
<1>2. PICK id \in Nat : id = r.next_id + 1
  BY <1>1 DEF TryRecord
<1>3. PICK c \in Callback : c = [id |-> id, kind |-> kind, of |-> of]
  OBVIOUS
<1>4. c.id = id /\ c.kind = kind /\ c.of = of
  BY <1>3
<1>5. t = [s EXCEPT !.tries[n].next_id = id, !.tries[n].callbacks = @ \cup {c},
                    !.tries[n].sent = @ \cup {[id |-> id, kind |-> kind]}]
  BY <1>1, <1>2, <1>3 DEF send_request
<1>6. t.conn = n /\ t.loop = s.loop /\ t.tries[n].callbacks = r.callbacks \cup {c} /\ t.tries[n].next_id = id
  BY <1>1, <1>5 DEF State, TryRecord
<1>7. openCalls(s) = r.callbacks /\ openCalls(t) = r.callbacks \cup {c}
  BY <1>1, <1>6 DEF openCalls
<1>8. ASSUME Numbered(s) PROVE Numbered(t)
  <2>1. IsFiniteSet(openCalls(s)) /\ s.loop \in Seq(Item) /\ openCalls(s) \subseteq Callback
    BY <1>8 DEF Numbered
  <2>2. IsFiniteSet(openCalls(s) \cup {c})
    BY <2>1, FS_AddElement, Zenon
  <2>3. \A d \in openCalls(s) : d.id <= r.next_id /\ d.id \in Nat
    BY <1>1, <1>8, <2>1 DEF Numbered, Callback
  <2>4. \A d \in openCalls(s) : d.id # id /\ d.id <= id
    BY <1>1, <1>2, <2>3, SMTT(30) DEF TryRecord
  <2>5. \A d, e \in openCalls(t) : d.id = e.id => d = e
    BY <1>4, <1>7, <1>8, <2>4 DEF Numbered
  <2>6. \A d \in openCalls(t) : d.id <= t.tries[t.conn].next_id
    BY <1>2, <1>4, <1>6, <1>7, <2>4
  <2> QED BY <1>6, <1>7, <2>1, <2>2, <2>5, <2>6 DEF Numbered
<1> QED BY <1>4, <1>6, <1>7, <1>8

\* A callback that is not a request's is taken from the queue, and more may change, but not
\* the tries.
LEMMA TakenCarries ==
  ASSUME AttachSound, state.loop # <<>>, item.kind # "request",
         NEW s, s.tries = state.tries, s.conn = state.conn, s.loop = taken.loop
  PROVE  Carries(state, s)
<1>1. PICK u \in State : u = state
  BY SoundFacts
<1>2. taken.loop = Tail(u.loop)
  BY <1>1 DEF taken, State
<1>3. sameSocket(u, s) /\ openCalls(s) = openCalls(u)
  BY <1>1 DEF sameSocket, openCalls
<1>4. u.loop # <<>> /\ Head(u.loop).kind # "request" /\ s.loop = Tail(u.loop)
  BY <1>1, <1>2 DEF item
<1>5. Carries(u, s)
  BY <1>3, <1>4, CarriesTail
<1> QED BY <1>1, <1>5

\* A callback of libuv posts something to Neovim's queue, and more may change, but not
\* the tries.
LEMMA PostedCarries ==
  ASSUME NEW s \in State, NEW t, t.tries = s.tries, t.conn = s.conn,
         NEW x \in Item, x.kind # "request", t.loop = Append(s.loop, x)
  PROVE  Carries(s, t)
<1>1. sameSocket(s, t) /\ openCalls(t) = openCalls(s)
  BY DEF sameSocket, openCalls
<1> QED BY <1>1, CarriesPost

\* A connection begins with no callbacks, where there was none.
LEMMA ConnectsCarries ==
  ASSUME AttachSound, NEW n \in tries, Connects(n)
  PROVE  Carries(state, state')
<1> DEFINE r == state.tries[n]
           x == [kind |-> "connected", of |-> n]
<1>1. /\ n \in 1 .. Len(state.tries) /\ state \in State /\ Tries(state) /\ n \in Nat /\ n # 0
  BY SoundFacts, OpenTry DEF Connects
<1>2. r \in TryRecord /\ state.conn = 0 /\ r.callbacks = {}
  BY <1>1, OpenTry DEF Connects, Tries
<1>3. state' = post([state EXCEPT !.tries[n].pipe = "open", !.conn = n], x)
  BY DEF Connects
<1>4. PICK t : t = state'
  OBVIOUS
<1>5. x \in Item /\ x.kind = "connected"
  BY <1>1 DEF Item, Signals
<1> HIDE DEF x
<1>6. t.conn = n /\ t.loop = Append(state.loop, x) /\ t.tries[n].callbacks = {}
  BY <1>1, <1>2, <1>3, <1>4 DEF post, State, TryRecord
<1>7. openCalls(t) = {} /\ openCalls(state) = {}
  BY <1>2, <1>6 DEF openCalls
<1>8. PICK l : l = state.loop
  OBVIOUS
<1>9. l \in Seq(Item) /\ t.loop = Append(l, x)
  BY <1>1, <1>6, <1>8 DEF State
<1>10. t.loop \in Seq(Item)
  BY <1>5, <1>9, AppendProperties
<1>11. Numbered(t)
  BY <1>7, <1>10, FS_EmptySet DEF Numbered
<1>12. \A q \in Requests : queuedFor(q, t.loop) = queuedFor(q, l)
  BY <1>5, <1>9, QueuedAppend
<1>13. Carries(state, t)
  BY <1>7, <1>8, <1>11, <1>12 DEF Carries, Moves, Nowhere, Once
<1> QED BY <1>4, <1>13

\* A refused connection ends its try.
LEMMA ConnectFailsCarries ==
  ASSUME AttachSound, NEW n \in tries, ConnectFails(n)
  PROVE  Carries(state, state')
<1>1. PICK k : state' = finish(state, n, k)
  BY DEF ConnectFails
<1>2. n \in 1 .. Len(state.tries) /\ state \in State /\ Tries(state) /\ InFlight(state)
  BY SoundFacts
<1>3. HellosRanged(state)
  BY <1>2, HellosRangedSound
<1>4. Carries(state, finish(state, n, k))
  BY <1>2, <1>3, FinishCarries
<1> QED BY <1>1, <1>4

\* The answer read, or the message that could not be written, is no longer in flight.
LEMMA ReadCarries ==
  ASSUME AttachSound, NEW n \in tries, NEW x \in TryRecord,
         x.callbacks = state.tries[n].callbacks, x.next_id = state.tries[n].next_id
  PROVE  /\ Carries(state, edited(state, n, x)) /\ edited(state, n, x) \in State
         /\ edited(state, n, x).conn = state.conn
         /\ Len(edited(state, n, x).tries) = Len(state.tries)
<1>1. n \in 1 .. Len(state.tries) /\ state \in State /\ Tries(state)
  BY SoundFacts
<1>2. state.conn \in 0 .. Len(state.tries)
  BY <1>1 DEF Tries
<1>3. PICK s \in State : s = state
  BY <1>1
<1>4. Carries(s, edited(s, n, x))
  BY <1>1, <1>2, <1>3, EditCarries
<1>5. edited(s, n, x) \in State /\ edited(s, n, x).conn = s.conn /\ Len(edited(s, n, x).tries) = Len(s.tries)
  BY <1>1, <1>3, TryEdited
<1> QED BY <1>3, <1>4, <1>5

\* An answer takes its callback from the connection to the queue.
LEMMA AnsweredCarries ==
  ASSUME AttachSound, NEW n \in tries, Answered(n)
  PROVE  Carries(state, state')
<1> DEFINE r == state.tries[n]
<1>1. /\ n \in 1 .. Len(state.tries) /\ state \in State /\ Tries(state) /\ n \in Nat
      /\ r \in TryRecord /\ n # 0 /\ n \in DOMAIN state.tries
  BY SoundFacts, OpenTry, LenProperties DEF State
<1>2. n = state.conn
  BY <1>1, OpenTry DEF Answered
<1>3. PICK m \in r.sent, ok \in BOOLEAN :
        state' = IF state.conn = 0
                 THEN [state EXCEPT !.tries[n].sent = @ \ {m},
                                    !.tries[n].greeted = IF m.kind # "hello" \/ @ = "yes" THEN @
                                                         ELSE IF ok THEN "yes" ELSE "refused"]
                 ELSE dispatched([state EXCEPT !.tries[n].sent = @ \ {m},
                                    !.tries[n].greeted = IF m.kind # "hello" \/ @ = "yes" THEN @
                                                         ELSE IF ok THEN "yes" ELSE "refused"],
                                 m.id, ok, r.path)
  BY DEF Answered
<1>4. PICK g \in {"no", "yes", "refused"} :
        g = IF m.kind # "hello" \/ r.greeted = "yes" THEN r.greeted ELSE IF ok THEN "yes" ELSE "refused"
  BY <1>1 DEF TryRecord
<1> DEFINE x == [r EXCEPT !.sent = @ \ {m}, !.greeted = g]
           e == edited(state, n, x)
<1>5. x \in TryRecord /\ x.callbacks = r.callbacks /\ x.next_id = r.next_id
  BY <1>1 DEF TryRecord
<1>6. PICK u : u = [state EXCEPT !.tries[n].sent = @ \ {m},
                                 !.tries[n].greeted = IF m.kind # "hello" \/ @ = "yes" THEN @
                                                      ELSE IF ok THEN "yes" ELSE "refused"]
  OBVIOUS
<1>7. u = [state EXCEPT !.tries[n].sent = @ \ {m}, !.tries[n].greeted = g]
  BY <1>1, <1>4, <1>6 DEF State, TryRecord
<1>8. u.tries = [state.tries EXCEPT ![n] = x]
  BY <1>1, <1>7 DEF State, TryRecord
<1> HIDE DEF x
<1>9. u = [state EXCEPT !.tries = [state.tries EXCEPT ![n] = x]]
  BY <1>1, <1>7, <1>8 DEF State
<1>10. u = e
  BY <1>1, <1>9 DEF edited, State
<1>11. /\ Carries(state, e) /\ e \in State /\ e.conn = state.conn /\ Len(e.tries) = Len(state.tries)
  BY <1>5, ReadCarries
<1> HIDE DEF e
<1>12. state' = dispatched(e, m.id, ok, r.path)
  BY <1>1, <1>2, <1>3, <1>6, <1>10, Zenon
<1>13. m.id \in Nat /\ r.path \in Paths \cup {"none"}
  BY <1>1, <1>3 DEF TryRecord, Message
<1>14. PICK t : t = state'
  OBVIOUS
<1>15. n \in 1 .. Len(e.tries) /\ n = e.conn
  BY <1>1, <1>2, <1>11
<1>16. t = dispatched(e, m.id, ok, r.path)
  BY <1>12, <1>14, Zenon
<1>17. Carries(e, t)
  BY <1>11, <1>13, <1>15, <1>16, DispatchCarries, Zenon
<1>18. Carries(state, t)
  BY <1>11, <1>17, CarriesOn, Zenon
<1> QED BY <1>14, <1>18, Zenon

\* The probe's report posts the waiter of the pairing.
LEMMA PresentedCarries ==
  ASSUME AttachSound, NEW n \in tries, Presented(n)
  PROVE  Carries(state, state')
<1>1. state \in State
  BY SoundFacts
<1>2. CASE state' = state
  BY <1>2 DEF Carries, Moves
<1>3. CASE state' # state
  <2>1. PICK x \in Item : x = [kind |-> "waiter", of |-> state.pairing_waiter]
    BY <1>1 DEF State, Item, Signals
  <2>2. state' = post([state EXCEPT !.pairing_waiter = 0], x)
    BY <1>3, <2>1 DEF Presented
  <2>3. PICK t : t = state'
    OBVIOUS
  <2>4. t.tries = state.tries /\ t.conn = state.conn /\ t.loop = Append(state.loop, x)
    BY <1>1, <2>2, <2>3 DEF post, State
  <2>5. x.kind # "request"
    BY <2>1
  <2>6. Carries(state, t)
    BY <1>1, <2>4, <2>5, PostedCarries
  <2> QED BY <2>3, <2>6
<1> QED BY <1>2, <1>3

\* A timer posts its timeout.
LEMMA TimerCarries ==
  ASSUME AttachSound, NEW n \in tries, HelloTimer(n) \/ PairingTimer(n)
  PROVE  Carries(state, state')
<1>1. state \in State /\ n \in Nat
  BY SoundFacts, LenProperties DEF State
<1>2. PICK k \in {"hello", "pairing"}, x \in Item :
        /\ x = [kind |-> IF k = "hello" THEN "hello_timeout" ELSE "pairing_timeout", of |-> n]
        /\ state' = post([state EXCEPT !.timers = @ \ {<<k, n>>}], x)
  <2>1. [kind |-> "hello_timeout", of |-> n] \in Item /\ [kind |-> "pairing_timeout", of |-> n] \in Item
    BY <1>1 DEF Item, Signals
  <2>2. CASE HelloTimer(n)
    BY <2>1, <2>2 DEF HelloTimer
  <2>3. CASE PairingTimer(n)
    BY <2>1, <2>3 DEF PairingTimer
  <2> QED BY <2>2, <2>3
<1>3. PICK t : t = state'
  OBVIOUS
<1>4. t.tries = state.tries /\ t.conn = state.conn /\ t.loop = Append(state.loop, x)
  BY <1>1, <1>2, <1>3 DEF post, State
<1>5. x.kind # "request"
  BY <1>2
<1>6. Carries(state, t)
  BY <1>1, <1>4, <1>5, PostedCarries
<1> QED BY <1>3, <1>6

\* A closed socket demotes, or ends its try.
LEMMA ClosedCarries ==
  ASSUME AttachSound, NEW n \in tries, Closed(n)
  PROVE  Carries(state, state')
<1> DEFINE x == withSent(state, n, {})
           ended == edited(state, n, x)
<1>1. /\ n \in 1 .. Len(state.tries) /\ state \in State /\ Tries(state) /\ InFlight(state)
      /\ state.tries[n].pipe = "open" /\ state.tries[n] \in TryRecord /\ state.conn = n
  BY SoundFacts, OpenTry DEF Closed
<1>2. HellosRanged(state)
  BY <1>1, HellosRangedSound
<1>3. {} \in SUBSET state.tries[n].sent
  OBVIOUS
<1>4. /\ ended \in State /\ Tries(ended) /\ HellosRanged(ended) /\ Len(ended.tries) = Len(state.tries)
      /\ x \in TryRecord /\ ended.tries[n] = x /\ x.pipe = "open"
      /\ ended = [state EXCEPT !.tries[n].sent = {}]
  <2>1. /\ ended \in State /\ Tries(ended)
        /\ HellosRanged(state) => HellosRanged(ended)
        /\ Len(ended.tries) = Len(state.tries)
        /\ x \in TryRecord /\ ended.tries[n] = x /\ ended.tries[n].pipe = state.tries[n].pipe
        /\ ended = [state EXCEPT !.tries[n].sent = {}]
    BY <1>1, <1>3, SentFewer
  <2> QED BY <1>1, <1>2, <2>1
<1>5. x.callbacks = state.tries[n].callbacks /\ x.next_id = state.tries[n].next_id
  BY <1>1 DEF withSent, TryRecord
<1> HIDE DEF x
<1>6. Carries(state, ended)
  BY <1>4, <1>5, ReadCarries
<1> HIDE DEF ended
<1>7. CASE state.phase = "attached"
  <2>1. [ended EXCEPT !.tries[n].pipe = IF state.conn = n THEN @ ELSE "closed"] = ended
    <3>1. ended.tries \in Seq(TryRecord) /\ n \in DOMAIN ended.tries
      BY <1>1, <1>4, LenProperties DEF State
    <3>2. [ended.tries[n] EXCEPT !.pipe = IF state.conn = n THEN @ ELSE "closed"] = ended.tries[n]
      BY <1>1, <1>4 DEF TryRecord
    <3>3. [ended.tries EXCEPT ![n] = ended.tries[n]] = ended.tries
      BY <3>1
    <3>4. [ended EXCEPT !.tries = ended.tries] = ended
      BY <1>4 DEF State
    <3>5. [ended EXCEPT !.tries[n].pipe = IF state.conn = n THEN @ ELSE "closed"]
            = [ended EXCEPT !.tries = [ended.tries EXCEPT ![n] =
                  [ended.tries[n] EXCEPT !.pipe = IF state.conn = n THEN @ ELSE "closed"]]]
      BY <1>4 DEF State
    <3> QED BY <3>2, <3>3, <3>4, <3>5
  <2>2. demote([ended EXCEPT !.tries[n].pipe = IF state.conn = n THEN @ ELSE "closed"])
    BY <1>4, <1>7 DEF Closed
  <2>3. demote(ended)
    BY <2>1, <2>2, Zenon
  <2>4. state' = demoted(ended)
    BY <2>3 DEF demote
  <2>5. Carries(ended, demoted(ended))
    <3>1. ended.conn \in 0 .. Len(ended.tries)
      BY <1>4 DEF Tries
    <3> QED BY <1>4, <3>1, DemoteCarries
  <2>6. Carries(state, demoted(ended))
    BY <1>6, <2>5, CarriesOn
  <2> QED BY <2>4, <2>6
<1>8. CASE state.phase # "attached"
  <2>1. PICK k : state' = finish(ended, n, k)
    BY <1>4, <1>8 DEF Closed
  <2>2. Carries(ended, finish(ended, n, k))
    BY <1>1, <1>4, FinishCarries
  <2>3. Carries(state, finish(ended, n, k))
    BY <1>6, <2>2, CarriesOn
  <2> QED BY <2>1, <2>3
<1> QED BY <1>7, <1>8

\* A write that fails is told to the callback of its message, and then all others are.
LEMMA WriteFailsCarries ==
  ASSUME AttachSound, NEW n \in tries, WriteFails(n)
  PROVE  Carries(state, state')
<1> DEFINE r == state.tries[n]
<1>1. /\ n \in 1 .. Len(state.tries) /\ state \in State /\ Tries(state)
      /\ r.pipe = "open" /\ r \in TryRecord /\ state.conn = n /\ n # 0 /\ n \in DOMAIN state.tries
  <2>1. /\ n \in 1 .. Len(state.tries) /\ state \in State /\ Tries(state) /\ r.pipe = "open"
    BY SoundFacts DEF WriteFails
  <2>2. r \in TryRecord /\ state.conn = n /\ n # 0
    BY <2>1, OpenTry
  <2>3. n \in DOMAIN state.tries
    BY <2>1, LenProperties DEF State
  <2> QED BY <2>1, <2>2, <2>3
<1>2. PICK m \in r.sent :
        demote(IF state.conn = 0 THEN [state EXCEPT !.tries[n].sent = @ \ {m}]
               ELSE dispatched([state EXCEPT !.tries[n].sent = @ \ {m}], m.id, FALSE, "none"))
  BY DEF WriteFails
<1> DEFINE S == r.sent \ {m}
           x == withSent(state, n, S)
           u == edited(state, n, x)
<1>3. S \in SUBSET r.sent
  OBVIOUS
<1>4. u = [state EXCEPT !.tries[n].sent = @ \ {m}]
  <2>1. PICK T \in SUBSET r.sent : T = S
    BY <1>3
  <2>2. edited(state, n, withSent(state, n, T)) = [state EXCEPT !.tries[n].sent = T]
    BY <1>1, SentFewer
  <2>3. u = [state EXCEPT !.tries[n].sent = S]
    BY <2>1, <2>2, Zenon
  <2> HIDE DEF u
  <2> QED BY <1>1, <2>3 DEF State, TryRecord
<1>5. x \in TryRecord /\ x.callbacks = r.callbacks /\ x.next_id = r.next_id
  BY <1>1 DEF withSent, TryRecord, Message
<1> HIDE DEF x
<1>6. Carries(state, u) /\ u \in State /\ u.conn = state.conn /\ Len(u.tries) = Len(state.tries)
  BY <1>5, ReadCarries
<1> HIDE DEF u
<1>7. PICK d : d = dispatched(u, m.id, FALSE, "none")
  OBVIOUS
<1>8. demote(d)
  BY <1>1, <1>2, <1>4, <1>7, Zenon
<1>9. m.id \in Nat
  BY <1>1, <1>2 DEF TryRecord, Message
<1>10. n \in 1 .. Len(u.tries) /\ n = u.conn
  BY <1>1, <1>6
<1>11. Carries(u, d) /\ d \in State /\ d.conn = u.conn /\ Len(d.tries) = Len(u.tries)
  <2>1. \A id \in Nat, ok \in BOOLEAN, token \in Paths \cup {"none"} : \A e :
          e = dispatched(u, id, ok, token) =>
            Carries(u, e) /\ e \in State /\ e.conn = u.conn /\ Len(e.tries) = Len(u.tries)
    BY <1>6, <1>10, DispatchCarries, Zenon
  <2>2. FALSE \in BOOLEAN /\ "none" \in Paths \cup {"none"}
    OBVIOUS
  <2> QED BY <1>7, <1>9, <2>1, <2>2, Zenon
<1>12. d.conn \in 0 .. Len(d.tries)
  BY <1>1, <1>6, <1>11 DEF Tries
<1>13. Carries(d, demoted(d))
  BY <1>11, <1>12, DemoteCarries
<1>14. state' = demoted(d)
  BY <1>8 DEF demote
<1>15. Carries(state, demoted(d))
  BY <1>6, <1>11, <1>13, CarriesOn, Zenon
<1> QED BY <1>14, <1>15, Zenon

\* The hello is one callback more, of no request.
LEMMA SendHelloCarries ==
  ASSUME AttachSound, SendHello
  PROVE  Carries(state, state')
<1>1. state.loop # <<>> /\ item.kind = "connected"
  BY DEF SendHello, Runs
<1>2. /\ state \in State /\ Queued(state) /\ Tries(state)
  BY SoundFacts
<1>3. /\ taken \in State /\ taken.tries = state.tries /\ taken.conn = state.conn
      /\ item \in Items(state.loop)
  BY <1>1, QueueTaken
<1> DEFINE s == [taken EXCEPT !.timers = @ \cup {<<"hello", n0>>}]
<1>4. state.conn # 0 /\ n0 = state.conn
  BY <1>1, <1>2, <1>3 DEF Queued, LiveIsCurrent, Live, n0
<1>5. n0 \in 1 .. Len(state.tries) /\ n0 \in Nat
  BY <1>2, <1>4, LenProperties DEF Tries, State
<1>6. s \in State /\ s.tries = state.tries /\ s.conn = state.conn /\ s.loop = taken.loop
  BY <1>3, <1>5 DEF State
<1>7. state' = send_request(s, "hello", n0)
  BY DEF SendHello
<1> HIDE DEF s
<1>8. Carries(state, s)
  BY <1>1, <1>6, TakenCarries
<1>9. PICK n \in Nat : n = n0
  BY <1>5
<1>10. PICK t : t = state'
  OBVIOUS
<1>11. \A id \in Nat : [id |-> id, kind |-> "hello", of |-> n] \in Callback
  BY DEF Callback
<1>12. /\ n \in 1 .. Len(s.tries) /\ n = s.conn /\ t = send_request(s, "hello", n)
  BY <1>4, <1>5, <1>6, <1>7, <1>9, <1>10
<1>13. PICK c \in Callback :
         /\ c.kind = "hello" /\ t.loop = s.loop /\ openCalls(t) = openCalls(s) \cup {c}
         /\ Numbered(s) => Numbered(t)
  BY <1>6, <1>11, <1>12, Sends
<1>14. \A r : waitsFor(r, openCalls(t)) = waitsFor(r, openCalls(s))
  BY <1>13 DEF waitsFor
<1>15. Carries(s, t)
  BY <1>13, <1>14 DEF Carries, Moves, Nowhere, Once
<1>16. Carries(state, t)
  BY <1>8, <1>15, CarriesOn
<1> QED BY <1>10, <1>16

\* The pairing begins: the tries are as they were.
LEMMA GreetedCarries ==
  ASSUME AttachSound, Greeted
  PROVE  Carries(state, state')
<1>1. state.loop # <<>> /\ item.kind = "hello"
  BY DEF Greeted, Runs
<1>2. taken \in State /\ taken.tries = state.tries /\ taken.conn = state.conn
  BY <1>1, QueueTaken
<1>3. PICK t : t = state'
  OBVIOUS
<1>4. t.tries = state.tries /\ t.conn = state.conn /\ t.loop = taken.loop
  BY <1>2, <1>3 DEF Greeted, State
<1>5. Carries(state, t)
  BY <1>1, <1>4, TakenCarries
<1> QED BY <1>3, <1>5

\* What is taken from the queue ends a try.
LEMMA EndsCarries ==
  ASSUME AttachSound, state.loop # <<>>, item.kind # "request",
         NEW s \in State, s.tries = state.tries, s.conn = state.conn, s.loop = taken.loop,
         s.phase = state.phase, NEW n \in 1 .. Len(state.tries), NEW k
  PROVE  Carries(state, finish(s, n, k))
<1>1. Tries(state) /\ InFlight(state)
  BY SoundFacts
<1>2. Tries(s) /\ InFlight(s)
  BY <1>1 DEF Tries, InFlight
<1>3. HellosRanged(s)
  BY <1>2, HellosRangedSound
<1>4. Carries(state, s)
  BY TakenCarries
<1>5. Carries(s, finish(s, n, k))
  BY <1>2, <1>3, FinishCarries
<1> QED BY <1>4, <1>5, CarriesOn

\* A refusal and both timeouts end a try, or find it ended.
LEMMA TimesOutCarries ==
  ASSUME AttachSound, Refused \/ HelloTimesOut \/ PairingTimesOut
  PROVE  Carries(state, state')
<1>1. state.loop # <<>> /\ item.kind \in {"hello", "hello_timeout", "pairing_timeout"}
  BY DEF Refused, HelloTimesOut, PairingTimesOut, Runs
<1>2. /\ taken \in State /\ taken.tries = state.tries /\ taken.conn = state.conn
      /\ taken.phase = state.phase /\ item \in Items(state.loop)
  BY <1>1, QueueTaken
<1>3. n0 \in 1 .. Len(state.tries)
  BY <1>1, <1>2, SoundFacts DEF n0, Queued, Ranged, Signals
<1>4. CASE state' = taken
  <2>1. Carries(state, taken)
    BY <1>1, <1>2, TakenCarries
  <2> QED BY <1>4, <2>1
<1>5. CASE state' # taken
  <2>1. PICK s, k :
          /\ s \in State
          /\ s.tries = state.tries /\ s.conn = state.conn /\ s.loop = taken.loop /\ s.phase = state.phase
          /\ state' = finish(s, n0, k)
    <3>1. CASE Refused
      <4> DEFINE s == [taken EXCEPT !.timers = @ \ {<<"hello", n0>>}]
      <4>1. s \in State /\ s.tries = taken.tries /\ s.conn = taken.conn /\ s.loop = taken.loop /\ s.phase = taken.phase
        BY <1>2 DEF State
      <4>2. PICK k : state' = finish(s, n0, k)
        BY <3>1 DEF Refused
      <4> HIDE DEF s
      <4> QED BY <1>2, <4>1, <4>2
    <3>2. CASE HelloTimesOut
      <4>1. PICK k : state' = finish(taken, n0, k)
        BY <3>2 DEF HelloTimesOut
      <4> QED BY <1>2, <4>1
    <3>3. CASE PairingTimesOut
      <4> DEFINE s == [taken EXCEPT !.pairing_waiter = 0]
      <4>1. s \in State /\ s.tries = taken.tries /\ s.conn = taken.conn /\ s.loop = taken.loop /\ s.phase = taken.phase
        BY <1>2 DEF State
      <4>2. PICK k : state' = finish(s, n0, k)
        BY <3>3, <1>5 DEF PairingTimesOut
      <4> HIDE DEF s
      <4> QED BY <1>2, <4>1, <4>2
    <3> QED BY <3>1, <3>2, <3>3
  <2>2. Carries(state, finish(s, n0, k))
    BY <1>1, <1>3, <2>1, EndsCarries
  <2> QED BY <2>1, <2>2
<1> QED BY <1>4, <1>5

\* The pairing ends its try and leaves the callbacks alone.
LEMMA PairedCarries ==
  ASSUME AttachSound, Paired
  PROVE  Carries(state, state')
<1>1. state.loop # <<>> /\ item.kind = "waiter"
  BY DEF Paired, Runs
<1>2. /\ taken \in State /\ taken.tries = state.tries /\ taken.conn = state.conn
      /\ taken.phase = state.phase /\ item \in Items(state.loop)
  BY <1>1, QueueTaken
<1>3. n0 \in 1 .. Len(state.tries) /\ Tries(state) /\ state.conn \in 0 .. Len(state.tries)
  BY <1>1, <1>2, SoundFacts DEF n0, Queued, Ranged, Signals, Tries
<1> DEFINE s == [taken EXCEPT !.timers = @ \ {<<"pairing", n0>>}, !.phase = "attached"]
           x == [s.tries[n0] EXCEPT !.finished = TRUE]
<1>4. s \in State /\ s.tries = state.tries /\ s.conn = state.conn /\ s.loop = taken.loop
  BY <1>2 DEF State
<1>5. state' = IF s.tries[n0].finished THEN s ELSE settle([s EXCEPT !.tries[n0].finished = TRUE])
  BY DEF Paired
<1> HIDE DEF s
<1>6. Carries(state, s)
  BY <1>1, <1>4, TakenCarries
<1>7. CASE s.tries[n0].finished
  BY <1>5, <1>6, <1>7
<1>8. CASE ~s.tries[n0].finished
  <2>1. s.tries[n0] \in TryRecord /\ n0 \in DOMAIN s.tries
    BY <1>3, <1>4, ElementOfSeq, LenProperties DEF State
  <2>2. x \in TryRecord /\ x.callbacks = s.tries[n0].callbacks /\ x.next_id = s.tries[n0].next_id
    BY <2>1 DEF TryRecord
  <2>3. [s EXCEPT !.tries[n0].finished = TRUE] = edited(s, n0, x)
    BY <1>4, <2>1 DEF edited, State
  <2> HIDE DEF x
  <2>4. PICK n \in 1 .. Len(s.tries) : n = n0
    BY <1>3, <1>4
  <2>5. edited(s, n, x) \in State
    BY <1>4, <2>2, TryEdited
  <2>6. Carries(s, edited(s, n, x))
    BY <1>3, <1>4, <2>2, <2>4, EditCarries
  <2>7. PICK e \in State : e = edited(s, n, x)
    BY <2>5
  <2>8. PICK t : t = settle(e)
    OBVIOUS
  <2>9. t.conn = e.conn /\ t.tries = e.tries /\ t.loop = e.loop
    BY <2>8 DEF settle, State
  <2>10. Carries(e, t)
    BY <2>9, CarriesSame DEF sameSocket, openCalls
  <2>11. Carries(state, t)
    BY <1>6, <2>6, <2>7, <2>10, CarriesOn, Zenon
  <2>12. state' = t
    BY <1>5, <1>8, <2>3, <2>4, <2>7, <2>8, Zenon
  <2> QED BY <2>11, <2>12, Zenon
<1> QED BY <1>7, <1>8

\* attach makes no request.
LEMMA AttachCarries ==
  ASSUME AttachSound, NEW a \in Attaches, Attach(a)
  PROVE  Carries(state, state')
<1>1. state \in State /\ Tries(state)
  BY SoundFacts
<1>2. CASE state.phase = "attached"
  <2>1. state' = state
    BY <1>2 DEF Attach
  <2> QED BY <2>1 DEF Carries, Moves
<1>3. CASE state.phase = "connecting"
  <2>1. PICK t : t = state' /\ t = [state EXCEPT !.waiting = @ \cup {a}]
    BY <1>3 DEF Attach
  <2>2. t.conn = state.conn /\ t.tries = state.tries /\ t.loop = state.loop
    BY <1>1, <2>1 DEF State
  <2>3. Carries(state, t)
    BY <2>2, CarriesSame DEF sameSocket, openCalls
  <2> QED BY <2>1, <2>3
<1>4. CASE state.phase \notin {"attached", "connecting"}
  <2> DEFINE s == [state EXCEPT !.phase = "connecting", !.waiting = @ \cup {a}]
  <2>1. PICK k : state' = try_next(s, Candidates, k)
    BY <1>4 DEF Attach
  <2>2. state.conn = 0
    BY <1>1, <1>4 DEF Tries, State
  <2>3. s \in State /\ s.conn = state.conn /\ s.tries = state.tries /\ s.loop = state.loop
    BY <1>1 DEF State
  <2> HIDE DEF s
  <2>4. Carries(state, s)
    BY <2>3, CarriesSame DEF sameSocket, openCalls
  <2>5. Carries(s, try_next(s, Candidates, k))
    BY <2>2, <2>3, NextCarries
  <2>6. Carries(state, try_next(s, Candidates, k))
    BY <2>4, <2>5, CarriesOn
  <2> QED BY <2>1, <2>6
<1> QED BY <1>2, <1>3, <1>4

\* A request not made is nowhere, one made is in one place until it is called back.
CallsSound ==
  /\ Numbered(state)
  /\ answered \in [Requests -> Nat]
  /\ \A r \in Requests :
       \/ r \in unused /\ answered[r] = 0 /\ Nowhere(r, openCalls(state), state.loop)
       \/ r \notin unused /\ answered[r] = 0 /\ Once(r, openCalls(state), state.loop)
       \/ r \notin unused /\ answered[r] = 1 /\ Nowhere(r, openCalls(state), state.loop)

\* An action that neither makes a request nor calls one back.
LEMMA CallsCarried ==
  ASSUME CallsSound, Carries(state, state'), answered' = answered,
         \A r \in Requests : r \in unused' <=> r \in unused
  PROVE  CallsSound'
<1>1. PICK s, t : s = state /\ t = state'
  OBVIOUS
<1>2. Numbered(s) /\ Carries(s, t)
  BY <1>1, Zenon DEF CallsSound
<1>3. Numbered(t) /\ Moves(openCalls(s), s.loop, openCalls(t), t.loop)
  BY <1>2 DEF Carries
<1>4. ASSUME NEW r \in Requests
      PROVE  \/ r \in unused' /\ answered'[r] = 0 /\ Nowhere(r, openCalls(t), t.loop)
             \/ r \notin unused' /\ answered'[r] = 0 /\ Once(r, openCalls(t), t.loop)
             \/ r \notin unused' /\ answered'[r] = 1 /\ Nowhere(r, openCalls(t), t.loop)
  <2>1. \/ r \in unused /\ answered[r] = 0 /\ Nowhere(r, openCalls(s), s.loop)
        \/ r \notin unused /\ answered[r] = 0 /\ Once(r, openCalls(s), s.loop)
        \/ r \notin unused /\ answered[r] = 1 /\ Nowhere(r, openCalls(s), s.loop)
    BY <1>1, Zenon DEF CallsSound
  <2>2. /\ Nowhere(r, openCalls(s), s.loop) => Nowhere(r, openCalls(t), t.loop)
        /\ Once(r, openCalls(s), s.loop) => Once(r, openCalls(t), t.loop)
    BY <1>3 DEF Moves
  <2> QED BY <2>1, <2>2
<1>5. answered' \in [Requests -> Nat]
  BY DEF CallsSound
<1> QED BY <1>1, <1>3, <1>4, <1>5, Zenon DEF CallsSound

\* A request that is made waits on the connection: there is one, as the transport is set.
LEMMA RequestCalls ==
  ASSUME AttachSound, CallsSound, NEW q \in Requests, Request(q)
  PROVE  CallsSound'
<1>1. /\ state \in State /\ Tries(state) /\ (transport = TRUE <=> state.phase = "attached")
      /\ transport \in BOOLEAN
  BY SoundFacts
<1>2. /\ transport /\ state' = send_request(state, "request", q)
      /\ q \in unused /\ unused' = unused \ {q} /\ answered' = answered
  BY DEF Request, Command
<1>3. PICK s, t, n : s \in State /\ n \in Nat /\ s = state /\ t = state' /\ n = state.conn
  <2>1. state.conn \in Nat
    BY <1>1 DEF State
  <2> QED BY <1>1, <2>1
<1>4. n \in 1 .. Len(s.tries) /\ n = s.conn
  <2>1. state.conn # 0 /\ state.conn \in 0 .. Len(state.tries) /\ Len(state.tries) \in Nat
    BY <1>1, <1>2, LenProperties DEF Tries, State
  <2> QED BY <1>3, <2>1
<1>5. \A id \in Nat : [id |-> id, kind |-> "request", of |-> q] \in Callback
  BY DEF Callback
<1>6. PICK c \in Callback :
        /\ c.kind = "request" /\ c.of = q
        /\ t.loop = s.loop /\ openCalls(t) = openCalls(s) \cup {c}
        /\ Numbered(s) => Numbered(t)
  <2>1. t = send_request(s, "request", q)
    BY <1>2, <1>3
  <2>2. \E c \in Callback :
           /\ c.kind = "request" /\ c.of = q
           /\ t.conn = s.conn /\ t.loop = s.loop /\ openCalls(t) = openCalls(s) \cup {c}
           /\ Numbered(s) => Numbered(t)
    BY <1>3, <1>4, <1>5, <2>1, Sends
  <2> QED BY <2>2
<1>7. Numbered(t)
  BY <1>3, <1>6, Zenon DEF CallsSound
<1>8. Nowhere(q, openCalls(s), s.loop) /\ answered[q] = 0
  BY <1>2, <1>3, Zenon DEF CallsSound
<1>9. Once(q, openCalls(t), t.loop)
  <2>1. waitsFor(q, openCalls(t)) = {c}
    BY <1>6, <1>8 DEF Nowhere, waitsFor
  <2> QED BY <1>6, <1>8, <2>1 DEF Nowhere, Once
<1>10. ASSUME NEW r \in Requests, r # q
       PROVE  \/ r \in unused' /\ answered'[r] = 0 /\ Nowhere(r, openCalls(t), t.loop)
              \/ r \notin unused' /\ answered'[r] = 0 /\ Once(r, openCalls(t), t.loop)
              \/ r \notin unused' /\ answered'[r] = 1 /\ Nowhere(r, openCalls(t), t.loop)
  <2>1. waitsFor(r, openCalls(t)) = waitsFor(r, openCalls(s))
    BY <1>6, <1>10 DEF waitsFor
  <2>2. \/ r \in unused /\ answered[r] = 0 /\ Nowhere(r, openCalls(s), s.loop)
        \/ r \notin unused /\ answered[r] = 0 /\ Once(r, openCalls(s), s.loop)
        \/ r \notin unused /\ answered[r] = 1 /\ Nowhere(r, openCalls(s), s.loop)
    BY <1>3, Zenon DEF CallsSound
  <2> QED BY <1>2, <1>6, <1>10, <2>1, <2>2 DEF Nowhere, Once
<1>11. ASSUME NEW r \in Requests
       PROVE  \/ r \in unused' /\ answered'[r] = 0 /\ Nowhere(r, openCalls(t), t.loop)
              \/ r \notin unused' /\ answered'[r] = 0 /\ Once(r, openCalls(t), t.loop)
              \/ r \notin unused' /\ answered'[r] = 1 /\ Nowhere(r, openCalls(t), t.loop)
  <2>1. CASE r = q
    <3>1. q \notin unused' /\ answered'[q] = 0
      BY <1>2, <1>8
    <3> QED BY <1>9, <2>1, <3>1
  <2>2. CASE r # q
    BY <1>10, <2>2
  <2> QED BY <2>1, <2>2
<1>12. answered' \in [Requests -> Nat]
  BY <1>2 DEF CallsSound
<1> QED BY <1>3, <1>7, <1>11, <1>12, Zenon DEF CallsSound

\* A request's callback is run: it was queued once, and is now nowhere.
LEMMA CallBackCalls ==
  ASSUME AttachSound, CallsSound, CallBack
  PROVE  CallsSound'
<1>1. /\ state.loop # <<>> /\ item.kind = "request" /\ state' = taken
      /\ answered' = [answered EXCEPT ![n0] = @ + 1] /\ unused' = unused
  BY DEF CallBack, Runs
<1>2. /\ taken \in State /\ taken.tries = state.tries /\ taken.conn = state.conn
      /\ item \in Item
  BY <1>1, QueueTaken
<1>3. PICK q \in Requests : q = n0
  BY <1>1, <1>2 DEF n0, Item, Signals
<1>4. PICK s, t : s \in State /\ s = state /\ t = state'
  BY SoundFacts
<1>5. /\ s.loop # <<>> /\ s.loop \in Seq(Item) /\ t.loop = Tail(s.loop)
      /\ Head(s.loop).kind = "request" /\ Head(s.loop).of = q
  BY <1>1, <1>3, <1>4 DEF taken, item, n0, State
<1>6. openCalls(t) = openCalls(s) /\ sameSocket(s, t)
  BY <1>1, <1>2, <1>4 DEF openCalls, sameSocket
<1>7. PICK l \in Seq(Item) : l = s.loop
  BY <1>5
<1>8. Numbered(s)
  BY <1>4, Zenon DEF CallsSound
<1>9. Numbered(t)
  <2>1. t.loop \in Seq(Item)
    BY <1>5, HeadTailProperties
  <2> QED BY <1>6, <1>8, <2>1 DEF Numbered, sameSocket
<1>10. \A r \in Requests :
         /\ queuedFor(r, l) = {} => queuedFor(r, Tail(l)) = {}
         /\ r # q => \A i : queuedFor(r, l) = {i} => queuedFor(r, Tail(l)) = {i - 1}
         /\ r = q => /\ queuedFor(r, l) # {}
                     /\ \A i : queuedFor(r, l) = {i} => queuedFor(r, Tail(l)) = {}
  <2>1. l # <<>> /\ Head(l).kind = "request" /\ Head(l).of = q
    BY <1>5, <1>7
  <2> QED BY <2>1, QueuedTail
<1>11. ASSUME NEW r \in Requests
       PROVE  \/ r \in unused /\ answered[r] = 0 /\ Nowhere(r, openCalls(s), l)
              \/ r \notin unused /\ answered[r] = 0 /\ Once(r, openCalls(s), l)
              \/ r \notin unused /\ answered[r] = 1 /\ Nowhere(r, openCalls(s), l)
  BY <1>4, <1>7, Zenon DEF CallsSound
<1>12. answered \in [Requests -> Nat]
  BY DEF CallsSound
<1>13. ASSUME NEW r \in Requests, r # q
       PROVE  \/ r \in unused' /\ answered'[r] = 0 /\ Nowhere(r, openCalls(t), Tail(l))
              \/ r \notin unused' /\ answered'[r] = 0 /\ Once(r, openCalls(t), Tail(l))
              \/ r \notin unused' /\ answered'[r] = 1 /\ Nowhere(r, openCalls(t), Tail(l))
  <2>1. answered'[r] = answered[r] /\ unused' = unused
    BY <1>1, <1>3, <1>12, <1>13
  <2>2. /\ Nowhere(r, openCalls(s), l) => Nowhere(r, openCalls(t), Tail(l))
        /\ Once(r, openCalls(s), l) => Once(r, openCalls(t), Tail(l))
    BY <1>6, <1>10, <1>13 DEF Nowhere, Once
  <2> QED BY <1>11, <2>1, <2>2
<1>14. q \notin unused' /\ answered'[q] = 1 /\ Nowhere(q, openCalls(t), Tail(l))
  <2>1. queuedFor(q, l) # {}
    BY <1>10
  <2>2. q \notin unused /\ answered[q] = 0 /\ Once(q, openCalls(s), l)
    BY <1>11, <2>1 DEF Nowhere
  <2>3. waitsFor(q, openCalls(t)) = {} /\ queuedFor(q, Tail(l)) = {}
    BY <1>6, <1>10, <2>1, <2>2 DEF Once
  <2>4. answered'[q] = 1
    BY <1>1, <1>3, <1>12, <2>2
  <2> QED BY <1>1, <2>2, <2>3, <2>4 DEF Nowhere
<1>15. ASSUME NEW r \in Requests
       PROVE  \/ r \in unused' /\ answered'[r] = 0 /\ Nowhere(r, openCalls(t), Tail(l))
              \/ r \notin unused' /\ answered'[r] = 0 /\ Once(r, openCalls(t), Tail(l))
              \/ r \notin unused' /\ answered'[r] = 1 /\ Nowhere(r, openCalls(t), Tail(l))
  BY <1>13, <1>14, Zenon
<1>16. answered' \in [Requests -> Nat]
  BY <1>1, <1>3, <1>12
<1>17. Tail(l) = t.loop
  BY <1>5, <1>7
<1> QED BY <1>4, <1>9, <1>15, <1>16, <1>17, Zenon DEF CallsSound

\* Before the first request none is anywhere.
LEMMA InitCalls ==
  Init => CallsSound
<1> SUFFICES ASSUME Init PROVE CallsSound
  OBVIOUS
<1>1. state.loop = <<>> /\ state.conn = 0
  BY DEF Init
<1>2. unused = Attaches \cup Requests /\ answered = [r \in Requests |-> 0]
  BY DEF Init
<1>3. openCalls(state) = {} /\ <<>> \in Seq(Item) /\ Len(<<>>) = 0 /\ 1 .. 0 = {}
  BY <1>1, EmptySeq DEF openCalls
<1>4. Numbered(state)
  BY <1>1, <1>3, FS_EmptySet DEF Numbered
<1>5. \A r \in Requests : Nowhere(r, openCalls(state), state.loop)
  BY <1>1, <1>3 DEF Nowhere, waitsFor, queuedFor
<1> QED BY <1>2, <1>4, <1>5 DEF CallsSound

\* Every step moves what it moves, or makes or calls back one request.
LEMMA NextCalls ==
  ASSUME AttachSound, CallsSound, [Next]_vars
  PROVE  CallsSound'
<1>1. CASE UNCHANGED vars \/ ProbeUnheard
  <2>1. state' = state /\ answered' = answered /\ unused' = unused
    BY <1>1 DEF vars, ProbeUnheard
  <2>2. Carries(state, state')
    BY <2>1 DEF Carries, Moves
  <2> QED BY <2>1, <2>2, CallsCarried
<1>2. ASSUME NEW n \in tries,
             \/ Connects(n) \/ ConnectFails(n) \/ Answered(n) \/ Presented(n) \/ Closed(n)
             \/ WriteFails(n) \/ HelloTimer(n) \/ PairingTimer(n)
      PROVE  CallsSound'
  <2>1. Carries(state, state')
    BY <1>2, ConnectsCarries, ConnectFailsCarries, AnsweredCarries, PresentedCarries,
       ClosedCarries, WriteFailsCarries, TimerCarries
  <2>2. answered' = answered /\ unused' = unused
    BY <1>2 DEF Connects, ConnectFails, Answered, Presented, Closed, WriteFails, HelloTimer, PairingTimer, Uv
  <2> QED BY <2>1, <2>2, CallsCarried
<1>3. CASE RunLoop
  <2>1. CASE CallBack
    BY <2>1, CallBackCalls
  <2>2. CASE SendHello \/ Greeted \/ Refused \/ HelloTimesOut \/ PairingTimesOut \/ Paired
    <3>1. Carries(state, state')
      BY <2>2, SendHelloCarries, GreetedCarries, TimesOutCarries, PairedCarries
    <3>2. answered' = answered /\ unused' = unused
      BY <2>2 DEF SendHello, Greeted, Refused, HelloTimesOut, PairingTimesOut, Paired, Runs
    <3> QED BY <3>1, <3>2, CallsCarried
  <2> QED BY <1>3, <2>1, <2>2 DEF RunLoop
<1>4. ASSUME NEW a \in Attaches, Attach(a) PROVE CallsSound'
  <2>1. Carries(state, state')
    BY <1>4, AttachCarries
  <2>2. answered' = answered /\ unused' = unused \ {a}
    BY <1>4 DEF Attach, Command
  <2>3. a \notin Requests
    BY AttachAssumption
  <2> QED BY <2>1, <2>2, <2>3, CallsCarried
<1>5. ASSUME NEW q \in Requests, Request(q) PROVE CallsSound'
  BY <1>5, RequestCalls
<1> QED BY <1>1, <1>2, <1>3, <1>4, <1>5 DEF Next

\* A request made is in one place until the first accident.
CallsUntilMishap == mishaps = 0 => CallsSound

LEMMA NextCallsUntilMishap ==
  ASSUME SoundUntilMishap, CallsUntilMishap, [Next]_vars
  PROVE  CallsUntilMishap'
<1>1. mishaps' = 0 => mishaps = 0
  BY MishapsCounted DEF SoundUntilMishap
<1>2. ASSUME mishaps' = 0 PROVE CallsSound'
  <2>1. AttachSound /\ CallsSound
    BY <1>1, <1>2 DEF SoundUntilMishap, CallsUntilMishap
  <2> QED BY <2>1, NextCalls
<1> QED BY <1>2 DEF CallsUntilMishap

\* One place is one callback to count, and nowhere is none.
LEMMA SoundIsKept ==
  SoundUntilMishap /\ CallsUntilMishap => CallbacksKept
<1> DEFINE kept(r) == answered[r] + pendingCalls(r, tries \cap {state.conn}) = 1
<1> SUFFICES ASSUME AttachSound, CallsSound, NEW r \in Requests, r \notin unused
             PROVE  kept(r)
  BY DEF SoundUntilMishap, CallsUntilMishap, CallbacksKept
<1>1. \/ answered[r] = 0 /\ Once(r, openCalls(state), state.loop)
      \/ answered[r] = 1 /\ Nowhere(r, openCalls(state), state.loop)
  BY Zenon DEF CallsSound
<1>2. /\ Cardinality({}) = 0
      /\ \A x : Cardinality({x}) = 1
  BY FS_EmptySet, FS_Singleton
<1>3. state.loop \in Seq(Item) /\ DOMAIN state.loop = 1 .. Len(state.loop)
  BY LenProperties DEF CallsSound, Numbered
<1> DEFINE W == waitsFor(r, openCalls(state))
           Q == queuedFor(r, state.loop)
           there == UNION {waits(r, n) \X {n} : n \in tries \cap {state.conn}}
<1>4. pendingCalls(r, tries \cap {state.conn}) = Cardinality(there) + Cardinality(Q)
  <2>1. {i \in DOMAIN state.loop : state.loop[i].kind = "request" /\ state.loop[i].of = r} = Q
    BY <1>3, Zenon DEF queuedFor
  <2> QED BY <2>1 DEF pendingCalls
<1>5. there = W \X {state.conn}
  <2>1. /\ state.conn \in 0 .. Len(state.tries) /\ tries = 1 .. Len(state.tries)
        /\ Len(state.tries) \in Nat
    BY SoundFacts, LenProperties DEF Tries, State, tries
  <2>2. CASE state.conn = 0
    <3>1. W = {} /\ tries \cap {state.conn} = {}
      BY <2>1, <2>2 DEF waitsFor, openCalls
    <3> QED BY <3>1
  <2>3. CASE state.conn # 0
    <3>1. tries \cap {state.conn} = {state.conn}
      BY <2>1, <2>3
    <3>2. waits(r, state.conn) = W
      BY <2>3 DEF waits, waitsFor, openCalls
    <3> QED BY <3>1, <3>2
  <2> QED BY <2>2, <2>3
<1> HIDE DEF W, Q, there
<1>6. CASE answered[r] = 0 /\ Once(r, openCalls(state), state.loop)
  <2>1. \/ Q = {} /\ \E c : W = {c}
        \/ W = {} /\ \E i : Q = {i}
    BY <1>6 DEF Once, W, Q
  <2>2. \A c : {c} \X {state.conn} = {<<c, state.conn>>}
    OBVIOUS
  <2>3. {} \X {state.conn} = {}
    OBVIOUS
  <2>4. \/ Cardinality(Q) = 0 /\ Cardinality(there) = 1
        \/ Cardinality(there) = 0 /\ Cardinality(Q) = 1
    <3>1. CASE Q = {} /\ \E c : W = {c}
      <4>1. PICK c : W = {c}
        BY <3>1
      <4>2. there = {<<c, state.conn>>}
        BY <1>5, <2>2, <4>1
      <4> QED BY <1>2, <3>1, <4>2
    <3>2. CASE W = {} /\ \E i : Q = {i}
      <4>1. PICK i : Q = {i}
        BY <3>2
      <4>2. there = {}
        BY <1>5, <2>3, <3>2
      <4> QED BY <1>2, <4>1, <4>2
    <3> QED BY <2>1, <3>1, <3>2
  <2> QED BY <1>4, <1>6, <2>4
<1>7. CASE answered[r] = 1 /\ Nowhere(r, openCalls(state), state.loop)
  <2>1. W = {} /\ Q = {}
    BY <1>7 DEF Nowhere, W, Q
  <2>2. there = {}
    BY <1>5, <2>1
  <2> QED BY <1>2, <1>4, <1>7, <2>1, <2>2
<1> QED BY <1>1, <1>6, <1>7

\* Until an accident befalls a try, every request made is called back once, however its
\* socket ends: its callback is on the open socket or queued, in one place and once
\* (localrender.lua).
THEOREM CallbacksKeptHolds == Spec => []CallbacksKept
<1>1. Init => SoundUntilMishap /\ CallsUntilMishap
  <2>1. Init => mishaps = 0
    BY DEF Init
  <2> QED BY <2>1, InitSound, InitCalls DEF SoundUntilMishap, CallsUntilMishap
<1>2. SoundUntilMishap /\ [Next]_vars => SoundUntilMishap'
  BY NextSoundUntilMishap
<1>3. SoundUntilMishap /\ CallsUntilMishap /\ [Next]_vars => CallsUntilMishap'
  BY NextCallsUntilMishap
<1> QED BY <1>1, <1>2, <1>3, SoundIsKept, PTL DEF Spec
=============================================================================
