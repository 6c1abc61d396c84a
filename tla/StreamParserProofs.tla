--------------------------- MODULE StreamParserProofs ---------------------------
(***************************************************************************)
(* The filter of the local render helper, for any token, any bound on a    *)
(* marker, any stream and any chunks: queued stderr is never stranded, the *)
(* stream is passed on verbatim but for whole markers with the token, and  *)
(* what the helper writes of its own falls between two of its sequences.   *)
(***************************************************************************)
EXTENDS StreamParser, SequenceTheorems, WellFoundedInduction, TLAPS

ErrType == err = [n |-> err.n, timer |-> err.timer] /\ err.n \in Nat

\* Cleanup comes between two chunks, and nothing is read after it.
IInv ==
  /\ ErrType
  /\ exiting => chunk = 0
  /\ StderrNotStranded

LEMMA InitIInv == Init => IInv
<1> SUFFICES ASSUME Init PROVE IInv
  OBVIOUS
<1>1. err = [n |-> 0, timer |-> FALSE] /\ ~exiting
  BY DEF Init
<1>2. ErrType /\ ~(err.n > 0)
  BY <1>1 DEF ErrType
<1>3. QED
  BY <1>1, <1>2 DEF IInv, StderrNotStranded

\* Flushing drains the queue or leaves it, and never touches the timer.
LEMMA FlushedFacts ==
  ASSUME IInv, NEW q
  PROVE  /\ flushed(q) \in {err, [n |-> 0, timer |-> err.timer]}
         /\ flushed(q).n \in {0, err.n}
  BY DEF flushed, IInv, ErrType

\* Three kinds of step keep the invariant: one that leaves the queue and the
\* helper as they are, one that empties the queue, and one that sets the timer
\* by what is queued while the helper runs.
LEMMA ErrSteps ==
  ASSUME IInv, exiting' => chunk' = 0,
         \/ err' = err /\ exiting' = exiting
         \/ err' = [n |-> 0, timer |-> err.timer]
         \/ \E n \in Nat : err' = [n |-> n, timer |-> n > 0] /\ ~exiting'
  PROVE  IInv'
<1>1. CASE err' = err /\ exiting' = exiting
  BY <1>1, Zenon DEF IInv, ErrType, StderrNotStranded
<1>2. CASE err' = [n |-> 0, timer |-> err.timer]
  <2>1. ErrType' /\ err'.n = 0 /\ ~(err'.n > 0)
    BY <1>2 DEF ErrType
  <2>2. QED
    BY <2>1, Zenon DEF IInv, StderrNotStranded
<1>3. CASE \E n \in Nat : err' = [n |-> n, timer |-> n > 0] /\ ~exiting'
  <2>1. PICK n \in Nat : err' = [n |-> n, timer |-> n > 0] /\ ~exiting'
    BY <1>3
  <2>2. ErrType' /\ err'.n = n /\ err'.timer = (n > 0)
    BY <2>1 DEF ErrType
  <2>3. QED
    BY <2>1, <2>2, Zenon DEF IInv, StderrNotStranded
<1>4. QED
  BY <1>1, <1>2, <1>3

LEMMA NextIInv == IInv /\ [Next]_vars => IInv'
<1> SUFFICES ASSUME IInv, [Next]_vars PROVE IInv'
  OBVIOUS
<1>1. ASSUME NEW b \in Bytes, ReadByte(b) PROVE IInv'
  <2>1. ~exiting' /\ err' = err /\ exiting' = exiting
    BY <1>1 DEF ReadByte
  <2>2. QED
    BY <2>1, ErrSteps
<1>2. CASE EndChunk
  <2>1. chunk' = 0 /\ exiting' = exiting /\ err' = flushed(emitRun(p))
    BY <1>2 DEF EndChunk
  <2>2. QED
    BY <2>1, FlushedFacts, ErrSteps
<1>3. CASE SurfaceReady \/ onClientChange \/ UNCHANGED vars
  <2>1. err' = err /\ exiting' = exiting /\ chunk' = chunk
    BY <1>3 DEF SurfaceReady, onClientChange, vars
  <2>2. exiting' => chunk' = 0
    BY <2>1 DEF IInv
  <2>3. QED
    BY <2>1, <2>2, ErrSteps
<1>4. CASE queueStderr
  <2>1. ~exiting'
    BY <1>4 DEF queueStderr
  <2>2. CASE err' = [err EXCEPT !.n = 0]
    <3>1. err' = [n |-> 0, timer |-> err.timer]
      BY <2>2 DEF IInv, ErrType
    <3>2. QED
      BY <2>1, <3>1, ErrSteps
  <2>3. CASE err' = [n |-> err.n + 1, timer |-> TRUE]
    <3>1. err.n + 1 \in Nat /\ (err.n + 1 > 0) = TRUE
      BY DEF IInv, ErrType
    <3>2. err' = [n |-> err.n + 1, timer |-> err.n + 1 > 0]
      BY <2>3, <3>1
    <3>3. QED
      BY <2>1, <3>1, <3>2, ErrSteps
  <2>4. QED
    BY <1>4, <2>2, <2>3 DEF queueStderr
<1>5. CASE stderrTimer
  <2>1. ~exiting' /\ err' = [n |-> flushed(p).n, timer |-> flushed(p).n > 0]
    BY <1>5 DEF stderrTimer
  <2>2. flushed(p).n \in Nat
    BY FlushedFacts DEF IInv, ErrType
  <2>3. QED
    BY <2>1, <2>2, ErrSteps
<1>6. CASE cleanup
  <2>1. err' = [err EXCEPT !.n = 0] /\ chunk' = 0
    BY <1>6 DEF cleanup
  <2>2. err' = [n |-> 0, timer |-> err.timer]
    BY <2>1 DEF IInv, ErrType
  <2>3. QED
    BY <2>1, <2>2, ErrSteps
<1>7. QED
  BY <1>1, <1>2, <1>3, <1>4, <1>5, <1>6 DEF Next

\* Whatever is queued has a timer that will drain it, and nothing is left at exit,
\* although the queue is emptied in four places and the timer re-armed in two
\* (local-main.js queueStderr, flushStderr, cleanup).
THEOREM StderrNotStrandedHolds == Spec => []StderrNotStranded
<1>1. IInv => StderrNotStranded
  BY DEF IInv
<1>2. QED
  BY <1>1, InitIInv, NextIInv, PTL DEF Spec
-----------------------------------------------------------------------------
(***************************************************************************)
(* The stream is passed on verbatim.  Framed says what the parser          *)
(* withholds in each of its states: nothing, the ESC that may begin a      *)
(* sequence or end one, or what may yet be a marker with the token.        *)
(***************************************************************************)
Control == [done : BOOLEAN, fields : SUBSET {"m"}]
Parser ==
  [state : {"ground", "esc", "esc-int", "csi", "string"},
   kind : {"none", "osc", "str", "apc-intro", "apc", "kitty", "marker"},
   esc : BOOLEAN, utf : Nat, ctl : Control, open : BOOLEAN,
   run : Seq(Bytes), pending : Seq(Bytes), committed : BOOLEAN, pos : Nat,
   out : Seq(Bytes), swallowed : Seq(Bytes)]

\* What a step has passed on and what it withholds, in order.
Total(q) == q.out \o (q.pending \o q.run)
OneKept(q) == q.pending = <<>> \/ q.run = <<>>

\* What is withheld of a marker: the introduction, the bytes of the token that have
\* matched, and all that follows once the whole token has.
MarkerHeld(q) ==
  /\ q.pos <= Len(Prefix) /\ (q.committed = TRUE <=> q.pos = Len(Prefix))
  /\ Len(q.pending) >= 3 + q.pos
  /\ q.committed = FALSE /\ q.esc = FALSE => Len(q.pending) = 3 + q.pos
  /\ q.esc = TRUE => Len(q.pending) >= 4 + q.pos /\ q.pending[Len(q.pending)] = ESC
  /\ q.pending[1] = ESC /\ q.pending[2] = "_" /\ q.pending[3] = "M"
  /\ \A i \in 1 .. q.pos : q.pending[3 + i] = Prefix[i]

Framed(q) ==
  /\ q.state \in {"ground", "csi", "esc-int"} => q.pending = <<>>
  /\ q.state = "esc" => q.pending = <<ESC>>
  /\ q.esc = TRUE => q.state = "string"
  /\ q.state = "string" =>
       /\ q.kind = "apc-intro" =>
            q.pending = IF q.esc = TRUE THEN <<ESC, "_", ESC>> ELSE <<ESC, "_">>
       /\ q.kind = "marker" => MarkerHeld(q)
       /\ q.kind \notin {"apc-intro", "marker"} =>
            q.pending = IF q.esc = TRUE THEN <<ESC>> ELSE <<>>

Withholds ==
  /\ p \in Parser /\ p.out = <<>> /\ p.swallowed = <<>> /\ OneKept(p)
  /\ lost = FALSE /\ owed = p.pending \o p.run
  /\ chunk \in Nat /\ (chunk = 0 => p.run = <<>>)
  /\ exiting \in BOOLEAN
  /\ exiting = TRUE => owed = <<>> /\ chunk = 0
  /\ exiting = FALSE => Framed(p)
-----------------------------------------------------------------------------
\* The parser starts with nothing read.
LEMMA ParserStarts ==
  /\ Parser0 \in Parser /\ Parser0.out = <<>> /\ Parser0.swallowed = <<>>
  /\ Parser0.pending = <<>> /\ Parser0.run = <<>>
  /\ Parser0.state = "ground" /\ Parser0.esc = FALSE
  <1>1. Parser0 = [state |-> "ground", kind |-> "none", esc |-> FALSE, utf |-> 0,
                   ctl |-> NoControl, open |-> FALSE, run |-> <<>>, pending |-> <<>>,
                   committed |-> FALSE, pos |-> 0, out |-> <<>>, swallowed |-> <<>>]
    BY DEF Parser0
  <1>2. NoControl \in Control
    BY DEF NoControl, Control
  <1> QED BY <1>1, <1>2 DEF Parser

\* What stays as it was when bytes are moved.
Same(r, q) ==
  /\ r.state = q.state /\ r.kind = q.kind /\ r.esc = q.esc /\ r.ctl = q.ctl
  /\ r.open = q.open /\ r.utf = q.utf /\ r.swallowed = q.swallowed

\* Concatenation, as the library states it, for sequences of bytes.
LEMMA Concatenated ==
  /\ \A x, y, z \in Seq(Bytes) : (x \o y) \o z = x \o (y \o z)
  /\ \A x, y \in Seq(Bytes) :
       /\ x \o y \in Seq(Bytes) /\ Len(x \o y) = Len(x) + Len(y)
       /\ \A i \in 1 .. Len(x) + Len(y) :
            (x \o y)[i] = IF i <= Len(x) THEN x[i] ELSE y[i - Len(x)]
  <1>1. ASSUME NEW x \in Seq(Bytes), NEW y \in Seq(Bytes), NEW z \in Seq(Bytes)
        PROVE (x \o y) \o z = x \o (y \o z)
    BY ConcatAssociative
  <1>2. ASSUME NEW x \in Seq(Bytes), NEW y \in Seq(Bytes)
        PROVE /\ x \o y \in Seq(Bytes) /\ Len(x \o y) = Len(x) + Len(y)
              /\ \A i \in 1 .. Len(x) + Len(y) :
                   (x \o y)[i] = IF i <= Len(x) THEN x[i] ELSE y[i - Len(x)]
    BY ConcatProperties
  <1> QED BY <1>1, <1>2

\* Concatenation of three parts, one of the last two empty.
LEMMA ThreeParts ==
  ASSUME NEW x \in Seq(Bytes), NEW y \in Seq(Bytes), NEW z \in Seq(Bytes), NEW b \in Bytes
  PROVE /\ (x \o y) \o (<<>> \o z) = x \o (y \o z)
        /\ (x \o z) \o (<<>> \o <<>>) = x \o (<<>> \o z)
        /\ (x \o y) \o (<<>> \o <<>>) = x \o (y \o <<>>)
        /\ x \o (<<>> \o Append(z, b)) = Append(x \o (<<>> \o z), b)
        /\ x \o (Append(y, b) \o <<>>) = Append(x \o (y \o <<>>), b)
  <1>1. <<>> \o z = z /\ <<>> \o <<>> = <<>> /\ y \o <<>> = y
    OBVIOUS
  <1>2. (x \o y) \o z = x \o (y \o z)
    BY ConcatAssociative
  <1>3. (x \o z) \o <<>> = x \o z /\ (x \o y) \o <<>> = x \o y
    OBVIOUS
  <1>4. Append(z, b) = z \o <<b>> /\ Append(x \o z, b) = (x \o z) \o <<b>>
    BY AppendIsConcat
  <1>5. (x \o z) \o <<b>> = x \o (z \o <<b>>)
    BY ConcatAssociative
  <1>6. Append(y, b) = y \o <<b>> /\ Append(x \o y, b) = (x \o y) \o <<b>>
    BY AppendIsConcat
  <1>7. (x \o y) \o <<b>> = x \o (y \o <<b>>)
    BY ConcatAssociative
  <1>8. Append(z, b) \in Seq(Bytes) /\ Append(y, b) \in Seq(Bytes)
    OBVIOUS
  <1>9. <<>> \o Append(z, b) = Append(z, b) /\ Append(y, b) \o <<>> = Append(y, b)
    BY <1>8
  <1>10. x \o Append(z, b) = Append(x \o z, b)
    BY <1>4, <1>5, Zenon
  <1>11. x \o Append(y, b) = Append(x \o y, b)
    BY <1>6, <1>7, Zenon
  <1>12. (x \o y) \o (<<>> \o z) = x \o (y \o z)
    BY <1>1, <1>2, Zenon
  <1>13. (x \o z) \o (<<>> \o <<>>) = x \o (<<>> \o z)
    BY <1>1, <1>3, Zenon
  <1>14. (x \o y) \o (<<>> \o <<>>) = x \o (y \o <<>>)
    BY <1>1, <1>3, Zenon
  <1>15. x \o (<<>> \o Append(z, b)) = Append(x \o (<<>> \o z), b)
    BY <1>1, <1>9, <1>10, Zenon
  <1>16. x \o (Append(y, b) \o <<>>) = Append(x \o (y \o <<>>), b)
    BY <1>1, <1>9, <1>11, Zenon
  <1> QED BY <1>12, <1>13, <1>14, <1>15, <1>16, Zenon

\* Short sequences of bytes, as they are built up.
LEMMA Appended ==
  /\ Append(<<ESC>>, "_") = <<ESC, "_">> /\ Append(<<ESC, "_">>, ESC) = <<ESC, "_", ESC>>
  /\ Append(<<ESC, "_">>, "M") = <<ESC, "_", "M">>
  <1>1. ESC \in Bytes /\ "_" \in Bytes /\ "M" \in Bytes
    BY DEF Bytes, Final
  <1>2. ASSUME NEW x \in Bytes, NEW y \in Bytes
        PROVE Append(<<x>>, y) = <<x, y>>
    <2> DEFINE s == Append(<<x>>, y)
               t == <<x, y>>
    <2>1. s \in Seq(Bytes) /\ Len(s) = 2 /\ s[1] = x /\ s[2] = y
      OBVIOUS
    <2>2. t \in Seq(Bytes) /\ Len(t) = 2 /\ t[1] = x /\ t[2] = y
      OBVIOUS
    <2> HIDE DEF s, t
    <2>3. \A i \in 1 .. Len(s) : s[i] = t[i]
      BY <2>1, <2>2
    <2> QED BY <2>1, <2>2, <2>3, SeqEqual DEF s, t
  <1>3. ASSUME NEW x \in Bytes, NEW y \in Bytes, NEW z \in Bytes
        PROVE Append(<<x, y>>, z) = <<x, y, z>>
    <2> DEFINE s == Append(<<x, y>>, z)
               t == <<x, y, z>>
    <2>1. s \in Seq(Bytes) /\ Len(s) = 3 /\ s[1] = x /\ s[2] = y /\ s[3] = z
      OBVIOUS
    <2>2. t \in Seq(Bytes) /\ Len(t) = 3 /\ t[1] = x /\ t[2] = y /\ t[3] = z
      OBVIOUS
    <2> HIDE DEF s, t
    <2>3. \A i \in 1 .. Len(s) : s[i] = t[i]
      BY <2>1, <2>2
    <2> QED BY <2>1, <2>2, <2>3, SeqEqual DEF s, t
  <1> QED BY <1>1, <1>2, <1>3, Zenon

\* The fields of a parser.
LEMMA ParserFields ==
  ASSUME NEW q \in Parser
  PROVE /\ q.out \in Seq(Bytes) /\ q.pending \in Seq(Bytes) /\ q.run \in Seq(Bytes)
        /\ q.swallowed \in Seq(Bytes) /\ q.esc \in BOOLEAN /\ q.committed \in BOOLEAN
        /\ q.pos \in Nat /\ q.utf \in Nat /\ q.ctl \in Control /\ q.open \in BOOLEAN
        /\ q.state \in {"ground", "esc", "esc-int", "csi", "string"}
        /\ q.kind \in {"none", "osc", "str", "apc-intro", "apc", "kitty", "marker"}
  BY DEF Parser

\* emitRun passes the run on.
LEMMA RunEmitted ==
  ASSUME NEW q \in Parser, OneKept(q)
  PROVE /\ emitRun(q) \in Parser /\ Same(emitRun(q), q)
        /\ emitRun(q).pending = q.pending /\ emitRun(q).run = <<>>
        /\ emitRun(q).committed = q.committed /\ emitRun(q).pos = q.pos
        /\ Total(emitRun(q)) = Total(q)
  <1> DEFINE r == emitRun(q)
             longer == q.out \o q.run
  <1>1. r = [q EXCEPT !.out = longer, !.run = <<>>]
    BY DEF emitRun
  <1>2. q.out \in Seq(Bytes) /\ q.run \in Seq(Bytes) /\ q.pending \in Seq(Bytes)
    BY ParserFields
  <1>3. longer \in Seq(Bytes) /\ <<>> \in Seq(Bytes)
    BY <1>2
  <1> HIDE DEF longer
  <1>4. r \in Parser
    BY <1>1, <1>3 DEF Parser
  <1>5. /\ r.out = longer /\ r.run = <<>> /\ r.pending = q.pending
        /\ r.committed = q.committed /\ r.pos = q.pos /\ Same(r, q)
    BY <1>1 DEF Parser, Same
  <1>6. Total(r) = Total(q)
    <2>1. CASE q.pending = <<>>
      <3>1. longer \o (<<>> \o <<>>) = q.out \o (<<>> \o q.run)
        <4>1. PICK b \in Bytes : TRUE
          BY DEF Bytes, ESC
        <4> QED BY <1>2, ThreeParts DEF longer
      <3> QED BY <1>5, <2>1, <3>1, Zenon DEF Total
    <2>2. CASE q.run = <<>>
      <3>1. longer = q.out
        BY <1>2, <2>2 DEF longer
      <3> QED BY <1>5, <2>2, <3>1, Zenon DEF Total
    <2> QED BY <2>1, <2>2 DEF OneKept
  <1> QED BY <1>4, <1>5, <1>6

\* hold passes the run on and withholds the byte.
LEMMA ByteHeld ==
  ASSUME NEW q \in Parser, OneKept(q), NEW b \in Bytes
  PROVE /\ hold(q, b) \in Parser /\ Same(hold(q, b), q)
        /\ hold(q, b).pending = Append(q.pending, b) /\ hold(q, b).run = <<>>
        /\ hold(q, b).committed = q.committed /\ hold(q, b).pos = q.pos
        /\ Total(hold(q, b)) = Append(Total(q), b)
  <1> DEFINE e == emitRun(q)
             r == hold(q, b)
             more == Append(e.pending, b)
  <1>1. /\ e \in Parser /\ Same(e, q) /\ e.pending = q.pending /\ e.run = <<>>
        /\ e.committed = q.committed /\ e.pos = q.pos /\ Total(e) = Total(q)
    BY RunEmitted
  <1>2. r = [e EXCEPT !.pending = more]
    BY DEF hold
  <1> HIDE DEF e
  <1>3. e.out \in Seq(Bytes) /\ e.pending \in Seq(Bytes)
    BY <1>1, ParserFields
  <1>4. more \in Seq(Bytes)
    BY <1>3
  <1> HIDE DEF r, more
  <1>5. r \in Parser
    BY <1>1, <1>2, <1>4 DEF Parser
  <1>6. /\ r.out = e.out /\ r.run = <<>> /\ r.pending = more
        /\ r.committed = e.committed /\ r.pos = e.pos /\ Same(r, e)
    BY <1>1, <1>2 DEF Parser, Same
  <1>7. e.out \o (Append(e.pending, b) \o <<>>) = Append(e.out \o (e.pending \o <<>>), b)
    BY <1>3, ThreeParts
  <1>8. Total(r) = Append(Total(q), b)
    BY <1>1, <1>6, <1>7, Zenon DEF Total, more
  <1>9. Same(r, q)
    BY <1>1, <1>6 DEF Same
  <1> QED BY <1>1, <1>5, <1>6, <1>8, <1>9 DEF r, more

\* With nothing withheld the byte joins the run.
LEMMA ByteStreamed ==
  ASSUME NEW q \in Parser, q.pending = <<>>, NEW b \in Bytes
  PROVE /\ stream(q, b) \in Parser /\ Same(stream(q, b), q)
        /\ stream(q, b).pending = <<>>
        /\ stream(q, b).committed = q.committed /\ stream(q, b).pos = q.pos
        /\ Total(stream(q, b)) = Append(Total(q), b)
  <1> DEFINE r == stream(q, b)
             more == Append(q.run, b)
  <1>1. r = [q EXCEPT !.run = more]
    BY DEF stream
  <1>2. q.out \in Seq(Bytes) /\ q.run \in Seq(Bytes)
    BY ParserFields
  <1>3. more \in Seq(Bytes)
    BY <1>2
  <1> HIDE DEF r, more
  <1>4. r \in Parser
    BY <1>1, <1>3 DEF Parser
  <1>5. /\ r.out = q.out /\ r.run = more /\ r.pending = <<>>
        /\ r.committed = q.committed /\ r.pos = q.pos /\ Same(r, q)
    BY <1>1 DEF Parser, Same
  <1>6. q.out \o (<<>> \o Append(q.run, b)) = Append(q.out \o (<<>> \o q.run), b)
    BY <1>2, ThreeParts
  <1>7. Total(r) = Append(Total(q), b)
    BY <1>5, <1>6, Zenon DEF Total, more
  <1> QED BY <1>4, <1>5, <1>7 DEF r

\* releasePending passes on what was withheld.
LEMMA PendingReleased ==
  ASSUME NEW q \in Parser
  PROVE /\ releasePending(q) \in Parser /\ Same(releasePending(q), q)
        /\ releasePending(q).pending = <<>> /\ releasePending(q).run = q.run
        /\ releasePending(q).committed = FALSE /\ releasePending(q).pos = 0
        /\ releasePending(q).out = q.out \o q.pending
        /\ Total(releasePending(q)) = Total(q)
  <1> DEFINE r == releasePending(q)
             longer == q.out \o q.pending
  <1>1. r = [q EXCEPT !.out = longer, !.pending = <<>>, !.committed = FALSE, !.pos = 0]
    BY DEF releasePending
  <1>2. q.out \in Seq(Bytes) /\ q.run \in Seq(Bytes) /\ q.pending \in Seq(Bytes)
    BY ParserFields
  <1>3. longer \in Seq(Bytes) /\ <<>> \in Seq(Bytes)
    BY <1>2
  <1> HIDE DEF r, longer
  <1>4. r \in Parser
    BY <1>1, <1>3 DEF Parser
  <1>5. /\ r.out = longer /\ r.run = q.run /\ r.pending = <<>>
        /\ r.committed = FALSE /\ r.pos = 0 /\ Same(r, q)
    BY <1>1 DEF Parser, Same
  <1>6. (q.out \o q.pending) \o (<<>> \o q.run) = q.out \o (q.pending \o q.run)
    <2>1. PICK b \in Bytes : TRUE
      BY DEF Bytes, ESC
    <2> QED BY <1>2, ThreeParts
  <1>7. Total(r) = Total(q)
    BY <1>5, <1>6, Zenon DEF Total, longer
  <1> QED BY <1>4, <1>5, <1>7 DEF r, longer

\* The byte and what was withheld before it are passed on at once.
LEMMA ByteReleased ==
  ASSUME NEW q \in Parser, q.run = <<>>, NEW b \in Bytes
  PROVE /\ pushAndRelease(q, b) \in Parser /\ Same(pushAndRelease(q, b), q)
        /\ pushAndRelease(q, b).pending = <<>> /\ pushAndRelease(q, b).run = <<>>
        /\ Total(pushAndRelease(q, b)) = Append(Total(q), b)
  <1> DEFINE more == Append(q.pending, b)
             q1 == [q EXCEPT !.pending = more]
             r1 == releasePending(q1)
             r == pushAndRelease(q, b)
  <1>1. r = [r1 EXCEPT !.run = <<>>]
    BY DEF pushAndRelease
  <1>2. q.out \in Seq(Bytes) /\ q.pending \in Seq(Bytes)
    BY ParserFields
  <1>3. more \in Seq(Bytes)
    BY <1>2
  <1> HIDE DEF more
  <1>4. q1 \in Parser
    BY <1>3 DEF Parser
  <1>5. q1.out = q.out /\ q1.run = <<>> /\ q1.pending = more /\ Same(q1, q)
    BY DEF Parser, Same
  <1> HIDE DEF q1
  <1>6. /\ r1 \in Parser /\ Same(r1, q1) /\ r1.pending = <<>> /\ r1.run = <<>>
        /\ Total(r1) = Total(q1)
    BY <1>4, <1>5, PendingReleased
  <1> HIDE DEF r1, r
  <1>7. <<>> \in Seq(Bytes)
    OBVIOUS
  <1>8. r \in Parser
    BY <1>1, <1>6, <1>7 DEF Parser
  <1>9. r.out = r1.out /\ r.pending = <<>> /\ r.run = <<>> /\ Same(r, r1)
    BY <1>1, <1>6 DEF Parser, Same
  <1>10. q.out \o (Append(q.pending, b) \o <<>>) = Append(q.out \o (q.pending \o <<>>), b)
    BY <1>2, ThreeParts
  <1>11. Total(q1) = Append(Total(q), b)
    BY <1>5, <1>10, Zenon DEF Total, more
  <1>12. Total(r) = Total(r1)
    BY <1>6, <1>9, Zenon DEF Total
  <1>13. Same(r, q)
    BY <1>5, <1>6, <1>9 DEF Same
  <1> QED BY <1>6, <1>8, <1>9, <1>11, <1>12, <1>13 DEF r
-----------------------------------------------------------------------------
(***************************************************************************)
(* One byte in each state: what has been passed on and what is withheld    *)
(* make up what was read, and what is withheld is framed.                  *)
(***************************************************************************)
Passes(r, seen) ==
  r \in Parser /\ OneKept(r) /\ Framed(r) /\ r.swallowed = <<>> /\ Total(r) = seen

\* Where the bytes are, for a step that moves none.
Stays(r, q) ==
  /\ r.out = q.out /\ r.pending = q.pending /\ r.run = q.run /\ r.swallowed = q.swallowed
  /\ r.committed = q.committed /\ r.pos = q.pos

\* Moving no byte changes nothing of what was read.
LEMMA StaysTotal ==
  ASSUME NEW r, NEW q, Stays(r, q)
  PROVE Total(r) = Total(q) /\ (OneKept(q) => OneKept(r))
  BY Zenon DEF Stays, Total, OneKept

\* With nothing withheld, outside of what may be a marker, a parser is framed.
LEMMA QuietFramed ==
  ASSUME NEW r \in Parser, r.pending = <<>>, r.esc = FALSE, r.state # "esc",
         r.state = "string" => r.kind \notin {"apc-intro", "marker"}
  PROVE Framed(r) /\ OneKept(r)
  BY DEF Framed, OneKept

\* So is one that withholds the ESC that may begin a sequence.
LEMMA EscFramed ==
  ASSUME NEW r \in Parser, r.pending = <<ESC>>, r.run = <<>>, r.esc = FALSE, r.state = "esc"
  PROVE Framed(r) /\ OneKept(r)
  BY DEF Framed, OneKept

\* utf8After counts down.
LEMMA UtfNatural == ASSUME NEW n \in Nat, NEW b \in Bytes PROVE utf8After(n, b) \in Nat
  <1>1. CASE b = "lead"
    BY <1>1 DEF utf8After, LeadLength
  <1>2. CASE b = "cont" /\ n > 0
    BY <1>2 DEF utf8After
  <1>3. CASE b # "lead" /\ ~(b = "cont" /\ n > 0)
    BY <1>3 DEF utf8After
  <1> QED BY <1>1, <1>2, <1>3

\* An ESC outside of a string is withheld.
LEMMA EscWithheld ==
  ASSUME NEW q \in Parser, q.pending = <<>>, q.esc = FALSE, q.state = "esc", q.swallowed = <<>>
  PROVE Passes(hold(q, ESC), Append(Total(q), ESC))
  <1> DEFINE r == hold(q, ESC)
  <1>1. OneKept(q) /\ ESC \in Bytes
    BY DEF OneKept, Bytes
  <1>2. /\ r \in Parser /\ Same(r, q) /\ r.pending = Append(<<>>, ESC) /\ r.run = <<>>
        /\ Total(r) = Append(Total(q), ESC)
    BY <1>1, ByteHeld
  <1>3. Append(<<>>, ESC) = <<ESC>>
    BY <1>1
  <1> HIDE DEF r
  <1>4. Framed(r) /\ OneKept(r)
    BY <1>2, <1>3, EscFramed DEF Same
  <1> QED BY <1>2, <1>4 DEF Passes, Same, r

\* A byte of the ground state.
LEMMA GroundPasses ==
  ASSUME NEW q \in Parser, Framed(q), q.swallowed = <<>>, q.state = "ground", NEW b \in Bytes
  PROVE Passes(inGround(q, b), Append(Total(q), b))
  <1>1. q.pending = <<>> /\ q.esc = FALSE /\ q.utf \in Nat
    BY ParserFields DEF Framed
  <1>2. CASE b = ESC
    <2> DEFINE e == [q EXCEPT !.state = "esc", !.utf = 0]
    <2>1. inGround(q, b) = hold(e, ESC)
      BY <1>2 DEF inGround
    <2>2. e \in Parser
      BY DEF Parser
    <2>3. e.state = "esc" /\ e.esc = FALSE /\ Stays(e, q)
      BY <1>1 DEF Parser, Stays
    <2> HIDE DEF e
    <2>4. Total(e) = Total(q)
      BY <2>3, StaysTotal
    <2>5. e.pending = <<>> /\ e.swallowed = <<>>
      BY <1>1, <2>3 DEF Stays
    <2>6. Passes(hold(e, ESC), Append(Total(e), ESC))
      BY <2>2, <2>3, <2>5, EscWithheld
    <2> QED BY <1>2, <2>1, <2>4, <2>6
  <1>3. CASE b # ESC
    <2> DEFINE n == utf8After(q.utf, b)
               e == [q EXCEPT !.utf = n]
               r == stream(e, b)
    <2>1. inGround(q, b) = r
      BY <1>3 DEF inGround
    <2>2. n \in Nat
      BY <1>1, UtfNatural
    <2> HIDE DEF n
    <2>3. e \in Parser
      BY <2>2 DEF Parser
    <2>4. e.state = "ground" /\ e.esc = FALSE /\ Stays(e, q)
      BY <1>1 DEF Parser, Stays
    <2> HIDE DEF e
    <2>5. Total(e) = Total(q) /\ e.pending = <<>> /\ e.swallowed = <<>>
      BY <1>1, <2>4, StaysTotal DEF Stays
    <2>6. r \in Parser /\ Same(r, e) /\ r.pending = <<>> /\ Total(r) = Append(Total(e), b)
      BY <2>3, <2>5, ByteStreamed
    <2> HIDE DEF r
    <2>7. Framed(r) /\ OneKept(r)
      BY <2>4, <2>6, QuietFramed DEF Same
    <2> QED BY <2>1, <2>5, <2>6, <2>7 DEF Passes, Same
  <1> QED BY <1>2, <1>3

\* A byte of an intermediate escape sequence, or of a control sequence.
LEMMA SequencePasses ==
  ASSUME NEW q \in Parser, Framed(q), q.swallowed = <<>>, q.state \in {"esc-int", "csi"},
         NEW b \in Bytes, NEW r, r = inEscInt(q, b) \/ r = inCsi(q, b)
  PROVE Passes(r, Append(Total(q), b))
  <1>1. q.pending = <<>> /\ q.esc = FALSE
    BY ParserFields DEF Framed
  <1>2. CASE b = ESC
    <2> DEFINE e == [q EXCEPT !.state = "esc"]
    <2>1. r = hold(e, ESC)
      BY <1>2 DEF inEscInt, inCsi
    <2>2. e \in Parser
      BY DEF Parser
    <2>3. e.state = "esc" /\ e.esc = FALSE /\ Stays(e, q)
      BY <1>1 DEF Parser, Stays
    <2> HIDE DEF e
    <2>4. Total(e) = Total(q)
      BY <2>3, StaysTotal
    <2>5. e.pending = <<>> /\ e.swallowed = <<>>
      BY <1>1, <2>3 DEF Stays
    <2>6. Passes(hold(e, ESC), Append(Total(e), ESC))
      BY <2>2, <2>3, <2>5, EscWithheld
    <2> QED BY <1>2, <2>1, <2>4, <2>6
  <1>3. CASE b # ESC
    <2>1. PICK st \in {"esc-int", "csi", "ground"} : r = stream([q EXCEPT !.state = st], b)
      BY <1>3 DEF inEscInt, inCsi
    <2> DEFINE e == [q EXCEPT !.state = st]
    <2>2. e \in Parser
      BY DEF Parser
    <2>3. e.state = st /\ e.esc = FALSE /\ Stays(e, q)
      BY <1>1 DEF Parser, Stays
    <2>4. r = stream(e, b)
      BY <2>1
    <2> HIDE DEF e
    <2>5. Total(e) = Total(q) /\ e.pending = <<>> /\ e.swallowed = <<>>
      BY <1>1, <2>3, StaysTotal DEF Stays
    <2>6. r \in Parser /\ Same(r, e) /\ r.pending = <<>> /\ Total(r) = Append(Total(e), b)
      BY <2>2, <2>4, <2>5, ByteStreamed
    <2>7. Framed(r) /\ OneKept(r)
      BY <2>3, <2>6, QuietFramed DEF Same
    <2> QED BY <2>3, <2>5, <2>6, <2>7 DEF Passes, Same
  <1> QED BY <1>2, <1>3

\* The byte after the ESC that begins a sequence.
LEMMA EscPasses ==
  ASSUME NEW q \in Parser, q.state = "esc", q.esc = FALSE, q.pending = <<ESC>>, q.run = <<>>,
         q.swallowed = <<>>, NEW b \in Bytes
  PROVE Passes(inEsc(q, b), Append(Total(q), b))
  <1>1. CASE b = "_"
    <2> DEFINE e == [q EXCEPT !.state = "string", !.kind = "apc-intro"]
               r == hold(e, b)
    <2>1. inEsc(q, b) = r
      BY <1>1 DEF inEsc, ESC
    <2>2. e \in Parser
      BY DEF Parser
    <2>3. e.state = "string" /\ e.kind = "apc-intro" /\ e.esc = FALSE /\ Stays(e, q)
      BY DEF Parser, Stays
    <2> HIDE DEF e
    <2>4. Total(e) = Total(q) /\ e.pending = <<ESC>> /\ e.run = <<>> /\ e.swallowed = <<>>
      BY <2>3, StaysTotal DEF Stays
    <2>5. /\ r \in Parser /\ Same(r, e) /\ r.pending = Append(<<ESC>>, b) /\ r.run = <<>>
          /\ Total(r) = Append(Total(e), b)
      BY <2>2, <2>4, ByteHeld DEF OneKept
    <2> HIDE DEF r
    <2>6. Append(<<ESC>>, b) = <<ESC, "_">>
      BY <1>1, Appended
    <2>7. Framed(r) /\ OneKept(r)
      BY <2>3, <2>5, <2>6 DEF Framed, OneKept, Same
    <2> QED BY <2>1, <2>4, <2>5, <2>7 DEF Passes, Same
  <1>2. CASE b = ESC
    <2> DEFINE e == releasePending(q)
    <2>1. inEsc(q, b) = hold(e, ESC)
      BY <1>2 DEF inEsc, ESC
    <2>2. /\ e \in Parser /\ Same(e, q) /\ e.pending = <<>> /\ e.run = <<>> /\ Total(e) = Total(q)
      BY PendingReleased
    <2> HIDE DEF e
    <2>3. Passes(hold(e, ESC), Append(Total(e), ESC))
      BY <2>2, EscWithheld DEF Same
    <2> QED BY <1>2, <2>1, <2>2, <2>3
  <1>3. CASE b # "_" /\ b # ESC
    <2> DEFINE a == pushAndRelease(q, b)
    <2>1. PICK st \in {"csi", "string", "esc-int", "ground"}, k \in {"osc", "str", "none"} :
            inEsc(q, b) = [a EXCEPT !.state = st, !.kind = k]
      <3>1. openerState(b) \in {"csi", "string", "esc-int", "ground"}
        BY DEF openerState
      <3>2. openerKind(b) \in {"osc", "str", "none"}
        BY DEF openerKind
      <3>3. inEsc(q, b) = [a EXCEPT !.state = openerState(b), !.kind = openerKind(b)]
        BY <1>3 DEF inEsc
      <3> QED BY <3>1, <3>2, <3>3
    <2>2. /\ a \in Parser /\ Same(a, q) /\ a.pending = <<>> /\ a.run = <<>>
          /\ Total(a) = Append(Total(q), b)
      BY ByteReleased
    <2> DEFINE r == [a EXCEPT !.state = st, !.kind = k]
    <2> HIDE DEF a
    <2>3. r \in Parser
      BY <2>2 DEF Parser
    <2>4. r.state = st /\ r.kind = k /\ r.esc = a.esc /\ Stays(r, a)
      BY <2>2 DEF Parser, Stays
    <2>5. inEsc(q, b) = r
      BY <2>1
    <2> HIDE DEF r
    <2>6. Total(r) = Total(a) /\ r.pending = <<>> /\ r.esc = FALSE /\ r.swallowed = <<>>
      BY <2>2, <2>4, StaysTotal DEF Stays, Same
    <2>7. Framed(r) /\ OneKept(r)
      BY <2>3, <2>4, <2>6, QuietFramed
    <2> QED BY <2>2, <2>3, <2>5, <2>6, <2>7 DEF Passes
  <1> QED BY <1>1, <1>2, <1>3

\* An ESC inside a string is the last of the bytes withheld.
LEMMA EscIsLast ==
  ASSUME NEW q \in Parser, OneKept(q), Framed(q), q.esc = TRUE
  PROVE /\ q.state = "string" /\ q.run = <<>> /\ Len(q.pending) >= 1
        /\ q.pending[Len(q.pending)] = ESC
  <1>1. q.state = "string" /\ q.pending \in Seq(Bytes) /\ q.pos \in Nat
    BY ParserFields DEF Framed
  <1>2. Len(q.pending) >= 1 /\ q.pending[Len(q.pending)] = ESC
    <2>1. CASE q.kind = "marker"
      <3>1. MarkerHeld(q)
        BY <1>1, <2>1 DEF Framed
      <3>2. Len(q.pending) >= 4 + q.pos /\ q.pending[Len(q.pending)] = ESC
        BY <3>1 DEF MarkerHeld
      <3>3. Len(q.pending) \in Nat
        BY <1>1
      <3> QED BY <1>1, <3>2, <3>3
    <2>2. CASE q.kind = "apc-intro"
      <3>1. q.pending = <<ESC, "_", ESC>>
        BY <1>1, <2>2 DEF Framed
      <3>2. Len(<<ESC, "_", ESC>>) = 3 /\ <<ESC, "_", ESC>>[3] = ESC
        OBVIOUS
      <3>3. Len(q.pending) = 3 /\ q.pending[3] = ESC
        BY <3>1, <3>2, Zenon
      <3> QED BY <3>3
    <2>3. CASE q.kind \notin {"marker", "apc-intro"}
      <3>1. q.pending = <<ESC>>
        BY <1>1, <2>3 DEF Framed
      <3> QED BY <3>1
    <2> QED BY <2>1, <2>2, <2>3
  <1>3. q.pending # <<>>
    BY <1>2
  <1> QED BY <1>1, <1>2, <1>3 DEF OneKept

\* The ESC was no terminator: it begins a sequence of its own, and all before it goes.
LEMMA AbortPasses ==
  ASSUME NEW q \in Parser, OneKept(q), Framed(q), q.swallowed = <<>>, q.esc = TRUE, NEW b \in Bytes
  PROVE Passes(abortStringToEsc(q, b), Append(Total(q), b))
  <1> DEFINE front == Front(q.pending)
             e == [q EXCEPT !.pending = front]
             f == releasePending(e)
             g == [f EXCEPT !.pending = <<Last(q.pending)>>, !.esc = FALSE,
                            !.kind = "none", !.state = "esc"]
  <1>1. abortStringToEsc(q, b) = inEsc(g, b)
    BY DEF abortStringToEsc
  <1>2. /\ q.run = <<>> /\ Len(q.pending) >= 1 /\ q.pending[Len(q.pending)] = ESC
    BY EscIsLast
  <1>3. Last(q.pending) = ESC
    BY <1>2 DEF Last
  <1>4. q.pending \in Seq(Bytes) /\ q.out \in Seq(Bytes) /\ ESC \in Bytes
    BY ParserFields DEF Bytes
  <1>5. front \in Seq(Bytes) /\ front \o <<ESC>> = q.pending
    <2> DEFINE n == Len(q.pending)
    <2>1. n \in Nat /\ n >= 1
      BY <1>2, <1>4
    <2>2. front = SubSeq(q.pending, 1, n - 1)
      BY DEF Front
    <2>3. front \in Seq(Bytes) /\ Len(front) = n - 1 /\ \A i \in 1 .. n - 1 : front[i] = q.pending[i]
      BY <1>4, <2>1, <2>2
    <2> HIDE DEF front
    <2>4. Append(front, ESC) = front \o <<ESC>>
      BY <1>4, <2>3, AppendIsConcat
    <2> DEFINE s == Append(front, ESC)
    <2>5. /\ s \in Seq(Bytes) /\ Len(s) = n /\ s[n] = ESC
          /\ \A i \in 1 .. n - 1 : s[i] = front[i]
      BY <1>4, <2>1, <2>3
    <2> HIDE DEF s
    <2>6. \A i \in 1 .. n : s[i] = q.pending[i]
      BY <1>2, <2>1, <2>3, <2>5
    <2>7. s = q.pending
      BY <1>4, <2>5, <2>6, SeqEqual
    <2> QED BY <2>3, <2>4, <2>7 DEF s
  <1> HIDE DEF front
  <1>6. e \in Parser
    BY <1>5 DEF Parser
  <1>7. e.out = q.out /\ e.pending = front /\ e.run = <<>> /\ e.swallowed = <<>>
    BY <1>2 DEF Parser
  <1> HIDE DEF e
  <1>8. /\ f \in Parser /\ f.out = q.out \o front /\ f.run = <<>> /\ f.swallowed = <<>>
    BY <1>6, <1>7, PendingReleased DEF Same
  <1> HIDE DEF f
  <1>9. <<ESC>> \in Seq(Bytes)
    BY <1>4
  <1>10. g \in Parser
    BY <1>3, <1>8, <1>9 DEF Parser
  <1>11. /\ g.out = q.out \o front /\ g.pending = <<ESC>> /\ g.run = <<>> /\ g.swallowed = <<>>
         /\ g.state = "esc" /\ g.esc = FALSE
    BY <1>3, <1>8 DEF Parser
  <1> HIDE DEF g
  <1>12. Total(g) = Total(q)
    <2>1. (q.out \o front) \o <<ESC>> = q.out \o (front \o <<ESC>>)
      <3>1. q.out \in Seq(Bytes) /\ front \in Seq(Bytes) /\ <<ESC>> \in Seq(Bytes)
        BY <1>4, <1>5, <1>9, Zenon
      <3>2. PICK x \in Seq(Bytes), y \in Seq(Bytes), z \in Seq(Bytes) :
              x = q.out /\ y = front /\ z = <<ESC>>
        BY <3>1, Zenon
      <3>3. (x \o y) \o z = x \o (y \o z)
        BY ConcatAssociative
      <3> QED BY <3>2, <3>3, Zenon
    <2>2. <<ESC>> \o <<>> = <<ESC>> /\ q.pending \o <<>> = q.pending
      BY <1>4, <1>9, ConcatEmptySeq
    <2>3. Total(g) = (q.out \o front) \o <<ESC>>
      BY <1>11, <2>2, Zenon DEF Total
    <2>4. Total(q) = q.out \o q.pending
      BY <1>2, <2>2, Zenon DEF Total
    <2> QED BY <1>5, <2>1, <2>3, <2>4, Zenon
  <1>13. Passes(inEsc(g, b), Append(Total(g), b))
    BY <1>10, <1>11, EscPasses
  <1> QED BY <1>1, <1>12, <1>13, Zenon

\* A marker is swallowed only whole, from the first byte that was withheld.
Swallows(r, q, b) ==
  /\ q.kind = "marker" /\ q.esc = TRUE /\ b = "bslash"
  /\ r \in Parser /\ OneKept(r) /\ Framed(r)
  /\ r.out = q.out /\ r.pending = <<>> /\ r.run = <<>>
  /\ r.swallowed = Append(q.pending, b) /\ IsMarker(r.swallowed) /\ q.run = <<>>

\* What is withheld of a whole token, and the terminator, is a marker.
LEMMA HeldIsMarker ==
  ASSUME NEW q \in Parser, MarkerHeld(q), q.esc = TRUE, q.committed = TRUE
  PROVE IsMarker(Append(q.pending, "bslash"))
  <1> DEFINE s == Append(q.pending, "bslash")
             L == Len(Prefix)
             n == Len(q.pending)
  <1>1. q.pending \in Seq(Bytes) /\ "bslash" \in Bytes /\ Prefix \in Seq(Bytes)
    BY ParserFields, StreamAssumption DEF StreamAssumption, Bytes, Final
  <1>2. L \in Nat /\ n \in Nat /\ n >= 4 + L /\ q.pos = L
    <2>1. L \in Nat /\ n \in Nat
      BY <1>1
    <2>2. q.pos = L /\ n >= 4 + q.pos
      BY DEF MarkerHeld
    <2> QED BY <2>1, <2>2
  <1>3. /\ s \in Seq(Bytes) /\ Len(s) = n + 1 /\ s[n + 1] = "bslash"
        /\ \A i \in 1 .. n : s[i] = q.pending[i]
    BY <1>1
  <1>4. s[1] = ESC /\ s[2] = "_" /\ s[3] = "M" /\ s[n] = ESC
    <2>1. 1 \in 1 .. n /\ 2 \in 1 .. n /\ 3 \in 1 .. n /\ n \in 1 .. n
      BY <1>2
    <2>2. /\ q.pending[1] = ESC /\ q.pending[2] = "_" /\ q.pending[3] = "M"
          /\ q.pending[n] = ESC
      BY DEF MarkerHeld
    <2> HIDE DEF s
    <2> QED BY <1>3, <2>1, <2>2
  <1>5. \A i \in 1 .. L : s[3 + i] = Prefix[i]
    <2> SUFFICES ASSUME NEW i \in 1 .. L PROVE s[3 + i] = Prefix[i]
      OBVIOUS
    <2>1. 3 + i \in 1 .. n
      BY <1>2
    <2>2. q.pending[3 + i] = Prefix[i]
      BY <1>2 DEF MarkerHeld
    <2> HIDE DEF s
    <2> QED BY <1>3, <2>1, <2>2
  <1> HIDE DEF s
  <1>6. Len(s) >= 5 + L
    BY <1>2, <1>3
  <1>7. SubSeq(s, 1, 3 + L) = <<ESC, "_", "M">> \o Prefix
    <2> DEFINE left == SubSeq(s, 1, 3 + L)
               intro == <<ESC, "_", "M">>
               right == intro \o Prefix
    <2>1. /\ left \in Seq(Bytes) /\ Len(left) = 3 + L
          /\ \A i \in 1 .. 3 + L : left[i] = s[i]
      BY <1>2, <1>3
    <2>2. intro \in Seq(Bytes) /\ Len(intro) = 3 /\ intro[1] = ESC /\ intro[2] = "_" /\ intro[3] = "M"
      BY DEF Bytes, Final
    <2> HIDE DEF left, intro
    <2>3. /\ right \in Seq(Bytes) /\ Len(right) = 3 + L
          /\ \A i \in 1 .. 3 + L : right[i] = IF i <= 3 THEN intro[i] ELSE Prefix[i - 3]
      <3>1. /\ right \in Seq(Bytes) /\ Len(right) = Len(intro) + Len(Prefix)
            /\ \A i \in 1 .. Len(intro) + Len(Prefix) :
                 right[i] = IF i <= Len(intro) THEN intro[i] ELSE Prefix[i - Len(intro)]
        BY <1>1, <2>2, Concatenated, Zenon
      <3> QED BY <2>2, <3>1, Zenon
    <2> HIDE DEF right
    <2>4. \A i \in 1 .. 3 + L : left[i] = right[i]
      <3> SUFFICES ASSUME NEW i \in 1 .. 3 + L PROVE left[i] = right[i]
        OBVIOUS
      <3>1. CASE i \in {1, 2, 3}
        <4>1. left[i] = s[i] /\ right[i] = intro[i]
          BY <2>1, <2>3, <3>1
        <4> QED BY <1>4, <2>2, <3>1, <4>1
      <3>2. CASE i > 3
        <4>1. i - 3 \in 1 .. L /\ 3 + (i - 3) = i
          BY <1>2, <3>2
        <4>2. s[3 + (i - 3)] = Prefix[i - 3]
          BY <1>5, <4>1
        <4> QED BY <2>1, <2>3, <3>2, <4>1, <4>2
      <3> QED BY <1>2, <3>1, <3>2
    <2>5. left = right
      BY <2>1, <2>3, <2>4, SeqEqual
    <2> QED BY <2>5 DEF left, right, intro
  <1>8. SubSeq(s, Len(s) - 1, Len(s)) = <<ESC, "bslash">>
    <2> DEFINE left == SubSeq(s, n, n + 1)
               right == <<ESC, "bslash">>
    <2>1. left \in Seq(Bytes) /\ Len(left) = 2 /\ left[1] = s[n] /\ left[2] = s[n + 1]
      <3>1. n \in Int /\ n + 1 \in Int /\ \A i \in n .. n + 1 : s[i] \in Bytes
        BY <1>2, <1>3
      <3>2. /\ left \in Seq(Bytes)
            /\ Len(left) = IF n <= n + 1 THEN (n + 1) - n + 1 ELSE 0
            /\ \A i \in 1 .. (n + 1) - n + 1 : left[i] = s[n + i - 1]
        BY <3>1, SubSeqProperties
      <3> HIDE DEF left
      <3>3. (n + 1) - n + 1 = 2 /\ n + 1 - 1 = n /\ n + 2 - 1 = n + 1
        BY <1>2
      <3>4. Len(left) = 2
        BY <1>2, <3>2
      <3>5. left[1] = s[n + 1 - 1] /\ left[2] = s[n + 2 - 1]
        BY <3>2, <3>3
      <3> QED BY <3>2, <3>3, <3>4, <3>5
    <2>2. right \in Seq(Bytes) /\ Len(right) = 2 /\ right[1] = ESC /\ right[2] = "bslash"
      <3>1. ESC \in Bytes /\ "bslash" \in Bytes
        BY <1>1 DEF Bytes
      <3> QED BY <3>1
    <2>3. Len(s) - 1 = n
      BY <1>2, <1>3
    <2> HIDE DEF left, right
    <2>4. \A i \in 1 .. Len(left) : left[i] = right[i]
      <3>1. \A i \in 1 .. 2 : i = 1 \/ i = 2
        OBVIOUS
      <3> QED BY <1>3, <1>4, <2>1, <2>2, <3>1
    <2>5. left = right
      BY <2>1, <2>2, <2>4, SeqEqual
    <2> QED BY <1>3, <2>3, <2>5 DEF left, right
  <1>9. IsMarker(s)
    BY <1>6, <1>7, <1>8 DEF IsMarker
  <1> QED BY <1>9 DEF s

\* The control string of a graphics command is read without moving a byte.
LEMMA ControlRead ==
  ASSUME NEW q \in Parser, NEW b \in Bytes, NEW r, r = kittyByte(q, b) \/ r = finishKittyControl(q)
  PROVE r \in Parser /\ Stays(r, q) /\ r.state = q.state /\ r.kind = q.kind /\ r.esc = q.esc
  <1>1. ASSUME NEW t \in Parser
        PROVE /\ applyKittyControl(t) \in Parser /\ Stays(applyKittyControl(t), t)
              /\ applyKittyControl(t).state = t.state /\ applyKittyControl(t).kind = t.kind
              /\ applyKittyControl(t).esc = t.esc /\ applyKittyControl(t).ctl = t.ctl
    <2>1. PICK o \in BOOLEAN : o = ("m" \in t.ctl.fields)
      <3>1. ("m" \in t.ctl.fields) \in BOOLEAN
        OBVIOUS
      <3> WITNESS ("m" \in t.ctl.fields) \in BOOLEAN
      <3> QED OBVIOUS
    <2>2. applyKittyControl(t) = [t EXCEPT !.open = o]
      BY <2>1 DEF applyKittyControl
    <2>3. [t EXCEPT !.open = o] \in Parser
      BY DEF Parser
    <2> QED BY <2>2, <2>3 DEF Parser, Stays
  <1>2. q.ctl \in Control
    BY ParserFields
  <1>3. CASE r = kittyByte(q, b)
    <2>1. CASE q.ctl.done = TRUE
      BY <1>3, <2>1 DEF kittyByte, Stays
    <2>2. CASE q.ctl.done = FALSE /\ b = ";"
      <3> DEFINE c == [q.ctl EXCEPT !.done = TRUE]
                 t == [q EXCEPT !.ctl = c]
      <3>1. r = applyKittyControl(t)
        BY <1>3, <2>2 DEF kittyByte
      <3>2. c \in Control
        BY <1>2 DEF Control
      <3> HIDE DEF c
      <3>3. t \in Parser
        BY <3>2 DEF Parser
      <3>4. Stays(t, q) /\ t.state = q.state /\ t.kind = q.kind /\ t.esc = q.esc
        BY DEF Parser, Stays
      <3> HIDE DEF t
      <3> QED BY <1>1, <3>1, <3>3, <3>4 DEF Stays
    <2>3. CASE q.ctl.done = FALSE /\ b # ";"
      <3> DEFINE c == [q.ctl EXCEPT !.fields = @ \cup ({b} \cap {"m"})]
                 t == [q EXCEPT !.ctl = c]
      <3>1. r = t
        BY <1>3, <2>3 DEF kittyByte
      <3>2. c \in Control
        BY <1>2 DEF Control
      <3> HIDE DEF c
      <3>3. t \in Parser
        BY <3>2 DEF Parser
      <3>4. Stays(t, q) /\ t.state = q.state /\ t.kind = q.kind /\ t.esc = q.esc
        BY DEF Parser, Stays
      <3> QED BY <3>1, <3>3, <3>4
    <2>4. q.ctl.done \in BOOLEAN
      BY <1>2 DEF Control
    <2> QED BY <2>1, <2>2, <2>3, <2>4
  <1>4. CASE r = finishKittyControl(q)
    <2> DEFINE t == IF q.ctl.done THEN q ELSE applyKittyControl(q)
    <2>1. r = [t EXCEPT !.ctl = NoControl]
      BY <1>4 DEF finishKittyControl
    <2>2. t \in Parser /\ Stays(t, q) /\ t.state = q.state /\ t.kind = q.kind /\ t.esc = q.esc
      <3>1. CASE q.ctl.done
        BY <3>1 DEF Stays
      <3>2. CASE ~q.ctl.done
        BY <1>1, <3>2
      <3> QED BY <3>1, <3>2
    <2> HIDE DEF t
    <2>3. NoControl \in Control
      BY DEF NoControl, Control
    <2>4. r \in Parser
      BY <2>1, <2>2, <2>3 DEF Parser
    <2>5. Stays(r, t) /\ r.state = t.state /\ r.kind = t.kind /\ r.esc = t.esc
      BY <2>1, <2>2 DEF Parser, Stays
    <2> QED BY <2>2, <2>4, <2>5 DEF Stays
  <1> QED BY <1>3, <1>4

\* A byte that joins the run outside of what may be a marker.
LEMMA StreamPasses ==
  ASSUME NEW q \in Parser, q.pending = <<>>, q.esc = FALSE, q.swallowed = <<>>, q.state # "esc",
         q.state = "string" => q.kind \notin {"apc-intro", "marker"}, NEW b \in Bytes
  PROVE Passes(stream(q, b), Append(Total(q), b))
  <1> DEFINE r == stream(q, b)
  <1>1. r \in Parser /\ Same(r, q) /\ r.pending = <<>> /\ Total(r) = Append(Total(q), b)
    BY ByteStreamed
  <1> HIDE DEF r
  <1>2. Framed(r) /\ OneKept(r)
    BY <1>1, QuietFramed DEF Same
  <1> QED BY <1>1, <1>2 DEF Passes, Same, r

\* The terminator of a string: a marker with the token goes, all else is passed on.
LEMMA EndPasses ==
  ASSUME NEW q \in Parser, OneKept(q), Framed(q), q.swallowed = <<>>, q.esc = TRUE
  PROVE \/ Passes(endString(q, "bslash"), Append(Total(q), "bslash"))
        \/ Swallows(endString(q, "bslash"), q, "bslash")
  <1> DEFINE b == "bslash"
             e == [q EXCEPT !.state = "ground", !.kind = "none", !.esc = FALSE]
  <1>1. b \in Bytes
    BY DEF Bytes, Final
  <1>2. q.state = "string" /\ q.run = <<>>
    BY EscIsLast
  <1>3. e \in Parser
    BY DEF Parser
  <1>4. e.state = "ground" /\ e.esc = FALSE /\ Stays(e, q)
    BY DEF Parser, Stays
  <1>5. Total(e) = Total(q) /\ e.run = <<>> /\ e.swallowed = <<>>
    BY <1>2, <1>4, StaysTotal DEF Stays
  <1>6. CASE q.kind = "marker" /\ q.committed = TRUE
    <2> DEFINE s == Append(q.pending, b)
               r == [e EXCEPT !.swallowed = s, !.pending = <<>>,
                              !.committed = FALSE, !.pos = 0, !.run = <<>>]
    <2>1. endString(q, b) = r
      BY <1>6 DEF endString
    <2>2. MarkerHeld(q)
      BY <1>2, <1>6 DEF Framed
    <2>3. IsMarker(s)
      BY <1>6, <2>2, HeldIsMarker
    <2>4. s \in Seq(Bytes) /\ <<>> \in Seq(Bytes)
      BY <1>1, ParserFields
    <2> HIDE DEF s, e
    <2>5. r \in Parser
      BY <1>3, <2>4 DEF Parser
    <2>6. /\ r.out = e.out /\ r.pending = <<>> /\ r.run = <<>> /\ r.swallowed = s
          /\ r.state = "ground" /\ r.esc = FALSE
      BY <1>3, <1>4 DEF Parser
    <2> HIDE DEF r
    <2>7. Framed(r) /\ OneKept(r)
      BY <2>5, <2>6, QuietFramed
    <2>8. Swallows(r, q, b)
      BY <1>2, <1>4, <1>6, <2>3, <2>5, <2>6, <2>7 DEF Swallows, Stays, s
    <2> QED BY <2>1, <2>8
  <1>7. CASE q.kind = "marker" /\ q.committed = FALSE
    <2> DEFINE r == pushAndRelease(e, b)
    <2>1. endString(q, b) = r
      BY <1>7 DEF endString
    <2> HIDE DEF e
    <2>2. /\ r \in Parser /\ Same(r, e) /\ r.pending = <<>> /\ r.run = <<>>
          /\ Total(r) = Append(Total(e), b)
      BY <1>1, <1>3, <1>5, ByteReleased
    <2> HIDE DEF r
    <2>3. Framed(r) /\ OneKept(r)
      BY <1>4, <2>2, QuietFramed DEF Same
    <2>4. Passes(r, Append(Total(q), b))
      BY <1>5, <2>2, <2>3 DEF Passes, Same
    <2> QED BY <2>1, <2>4
  <1>8. CASE q.kind # "marker"
    <2> DEFINE f == releasePending(e)
               r == stream(f, b)
    <2>1. endString(q, b) \in {r, finishKittyControl(r)}
      BY <1>8 DEF endString
    <2> HIDE DEF e
    <2>2. f \in Parser /\ Same(f, e) /\ f.pending = <<>> /\ Total(f) = Total(e)
      BY <1>3, PendingReleased
    <2> HIDE DEF f
    <2>3. Passes(r, Append(Total(f), b)) /\ r \in Parser /\ Same(r, f) /\ r.pending = <<>>
      BY <1>1, <1>4, <1>5, <2>2, StreamPasses, ByteStreamed DEF Same
    <2>4. Passes(r, Append(Total(q), b))
      BY <1>5, <2>2, <2>3
    <2> HIDE DEF r
    <2>5. CASE endString(q, b) = r
      BY <2>4, <2>5
    <2>6. CASE endString(q, b) = finishKittyControl(r)
      <3> DEFINE t == finishKittyControl(r)
      <3>1. t \in Parser /\ Stays(t, r) /\ t.state = r.state /\ t.kind = r.kind /\ t.esc = r.esc
        BY <1>1, <2>3, ControlRead
      <3> HIDE DEF t
      <3>2. Total(t) = Total(r) /\ t.pending = <<>> /\ t.swallowed = <<>>
        BY <2>3, <2>4, <3>1, StaysTotal DEF Stays, Passes
      <3>3. t.state = "ground" /\ t.esc = FALSE
        BY <1>4, <2>2, <2>3, <3>1 DEF Same
      <3>4. Framed(t) /\ OneKept(t)
        BY <3>1, <3>2, <3>3, QuietFramed
      <3>5. Passes(t, Append(Total(q), b))
        BY <2>4, <3>1, <3>2, <3>4 DEF Passes
      <3> QED BY <2>6, <3>5 DEF t
    <2> QED BY <2>1, <2>5, <2>6
  <1>9. q.committed \in BOOLEAN
    BY ParserFields
  <1> QED BY <1>6, <1>7, <1>8, <1>9

\* What may be a marker grows by one byte, of the token or after it.
LEMMA MarkerGrows ==
  ASSUME NEW q \in Parser, MarkerHeld(q), q.esc = FALSE, NEW b \in Bytes,
         NEW r \in Parser, r.pending = Append(q.pending, b),
         \/ r.esc = TRUE /\ b = ESC /\ r.pos = q.pos /\ r.committed = q.committed
         \/ r.esc = FALSE /\ r.pos = q.pos /\ r.committed = TRUE /\ q.committed = TRUE
         \/ /\ r.esc = FALSE /\ q.committed = FALSE /\ Prefix[q.pos + 1] = b
            /\ r.pos = q.pos + 1 /\ (r.committed = TRUE <=> r.pos = Len(Prefix))
  PROVE MarkerHeld(r)
  <1>1. /\ q.pending \in Seq(Bytes) /\ q.pos \in Nat /\ Len(Prefix) \in Nat
        /\ q.committed \in BOOLEAN /\ r.committed \in BOOLEAN
    BY ParserFields, StreamAssumption DEF StreamAssumption
  <1>2. PICK n \in Nat, m \in Nat, L \in Nat, s \in Seq(Bytes), t \in Seq(Bytes) :
          n = Len(q.pending) /\ m = q.pos /\ L = Len(Prefix) /\ s = q.pending /\ t = r.pending
    <2>1. Len(q.pending) \in Nat /\ r.pending \in Seq(Bytes)
      BY <1>1, ParserFields
    <2> QED BY <1>1, <2>1
  <1>3. m <= L /\ (q.committed = TRUE <=> m = L)
    BY <1>2 DEF MarkerHeld
  <1>4. n >= 3 + m /\ (q.committed = FALSE => n = 3 + m)
    BY <1>2 DEF MarkerHeld
  <1>5. s[1] = ESC /\ s[2] = "_" /\ s[3] = "M"
    BY <1>2 DEF MarkerHeld
  <1>6. \A i \in 1 .. m : s[3 + i] = Prefix[i]
    BY <1>2 DEF MarkerHeld
  <1>7. Len(t) = n + 1 /\ t[n + 1] = b /\ \A i \in 1 .. n : t[i] = s[i]
    <2>1. t = Append(s, b) /\ Len(s) = n
      BY <1>2
    <2> QED BY <2>1
  <1>8. t[1] = ESC /\ t[2] = "_" /\ t[3] = "M"
    <2>1. 1 \in 1 .. n /\ 2 \in 1 .. n /\ 3 \in 1 .. n
      BY <1>4
    <2> QED BY <1>5, <1>7, <2>1
  <1>9. \A i \in 1 .. m : t[3 + i] = Prefix[i]
    <2> SUFFICES ASSUME NEW i \in 1 .. m PROVE t[3 + i] = Prefix[i]
      OBVIOUS
    <2>1. 3 + i \in 1 .. n
      BY <1>4
    <2> QED BY <1>6, <1>7, <2>1
  <1>10. ASSUME r.esc = TRUE, b = ESC, r.pos = m, r.committed = q.committed
         PROVE MarkerHeld(r)
    <2>1. Len(t) >= 3 + m /\ Len(t) >= 4 + m /\ t[Len(t)] = ESC
      BY <1>4, <1>7, <1>10
    <2> QED BY <1>2, <1>3, <1>8, <1>9, <1>10, <2>1 DEF MarkerHeld
  <1>11. ASSUME r.esc = FALSE, r.pos = m, r.committed = TRUE, q.committed = TRUE
         PROVE MarkerHeld(r)
    <2>1. Len(t) >= 3 + m /\ m = L
      BY <1>3, <1>4, <1>7, <1>11
    <2> QED BY <1>2, <1>3, <1>8, <1>9, <1>11, <2>1 DEF MarkerHeld
  <1>12. ASSUME r.esc = FALSE, q.committed = FALSE, Prefix[m + 1] = b,
                r.pos = m + 1, r.committed = TRUE <=> r.pos = L
         PROVE MarkerHeld(r)
    <2>1. m < L /\ n = 3 + m
      <3>1. m # L
        BY <1>3, <1>12
      <3> QED BY <1>3, <1>4, <1>12, <3>1
    <2>2. m + 1 <= L /\ Len(t) = 3 + (m + 1) /\ Len(t) >= 3 + (m + 1)
      BY <1>7, <2>1
    <2>3. \A i \in 1 .. (m + 1) : t[3 + i] = Prefix[i]
      <3> SUFFICES ASSUME NEW i \in 1 .. (m + 1) PROVE t[3 + i] = Prefix[i]
        OBVIOUS
      <3>1. CASE i \in 1 .. m
        BY <1>9, <3>1
      <3>2. CASE i = m + 1
        <4>1. 3 + i = n + 1
          BY <2>1, <3>2
        <4> QED BY <1>7, <1>12, <3>2, <4>1
      <3> QED BY <3>1, <3>2
    <2> QED BY <1>2, <1>8, <1>12, <2>2, <2>3 DEF MarkerHeld
  <1> QED BY <1>2, <1>10, <1>11, <1>12

\* A parser withholding a marker is framed.
LEMMA MarkerFramed ==
  ASSUME NEW r \in Parser, r.state = "string", r.kind = "marker", r.run = <<>>, MarkerHeld(r)
  PROVE Framed(r) /\ OneKept(r)
  BY DEF Framed, OneKept

\* The byte after the introduction of an application string says which it is.
LEMMA IntroPasses ==
  ASSUME NEW q \in Parser, OneKept(q), Framed(q), q.swallowed = <<>>, q.esc = FALSE,
         q.state = "string", q.kind = "apc-intro", NEW b \in Bytes
  PROVE Passes(apcIntro(q, b), Append(Total(q), b))
  <1>1. q.pending = <<ESC, "_">> /\ q.run = <<>>
    <2>1. q.pending = <<ESC, "_">>
      BY DEF Framed
    <2>2. <<ESC, "_">> # <<>>
      <3>1. Len(<<ESC, "_">>) = 2 /\ Len(<<>>) = 0
        OBVIOUS
      <3>2. Len(<<ESC, "_">>) # Len(<<>>)
        BY <3>1
      <3> QED BY <3>2, Zenon
    <2>3. q.pending # <<>>
      BY <2>1, <2>2, Zenon
    <2> QED BY <2>1, <2>3 DEF OneKept
  <1>2. CASE b = "M"
    <2>1. PICK c \in BOOLEAN : c = (Prefix = <<>>)
      <3>1. (Prefix = <<>>) \in BOOLEAN
        OBVIOUS
      <3> WITNESS (Prefix = <<>>) \in BOOLEAN
      <3> QED OBVIOUS
    <2> DEFINE e == [q EXCEPT !.kind = "marker", !.committed = c, !.pos = 0]
               r == hold(e, b)
    <2>2. apcIntro(q, b) = r
      BY <1>2, <2>1 DEF apcIntro
    <2>3. e \in Parser
      BY DEF Parser
    <2>4. /\ e.state = "string" /\ e.kind = "marker" /\ e.esc = FALSE /\ e.committed = c /\ e.pos = 0
          /\ e.out = q.out /\ e.pending = q.pending /\ e.run = q.run /\ e.swallowed = <<>>
      BY DEF Parser
    <2> HIDE DEF e
    <2>5. Total(e) = Total(q) /\ OneKept(e)
      BY <1>1, <2>4, Zenon DEF Total, OneKept
    <2>6. /\ r \in Parser /\ Same(r, e) /\ r.pending = Append(e.pending, b) /\ r.run = <<>>
          /\ r.committed = e.committed /\ r.pos = e.pos /\ Total(r) = Append(Total(e), b)
      BY <2>3, <2>5, ByteHeld
    <2> HIDE DEF r
    <2>7. r.pending = <<ESC, "_", "M">>
      BY <1>1, <1>2, <2>4, <2>6, Appended
    <2>8. MarkerHeld(r)
      <3>1. PICK x \in Seq(Bytes), L \in Nat : x = Prefix /\ L = Len(Prefix)
        BY StreamAssumption DEF StreamAssumption
      <3>2. PICK s : s = <<ESC, "_", "M">>
        OBVIOUS
      <3>6. s[1] = ESC /\ s[2] = "_" /\ s[3] = "M" /\ Len(s) = 3
        BY <3>2
      <3>3. r.pending[1] = ESC /\ r.pending[2] = "_" /\ r.pending[3] = "M" /\ Len(r.pending) = 3
        BY <2>7, <3>2, <3>6, Zenon
      <3>7. x = <<>> <=> Len(x) = 0
        BY EmptySeq
      <3>4. c = TRUE <=> L = 0
        BY <2>1, <3>1, <3>7, Zenon
      <3>9. 0 <= L
        BY <3>1
      <3>5. r.pos = 0 /\ r.esc = FALSE /\ (r.committed = TRUE <=> c = TRUE)
        BY <2>4, <2>6 DEF Same
      <3>8. \A i \in 1 .. 0 : FALSE
        OBVIOUS
      <3>10. r.pos <= Len(Prefix) /\ (r.committed = TRUE <=> r.pos = Len(Prefix))
        BY <3>1, <3>4, <3>5, <3>9
      <3>11. /\ Len(r.pending) >= 3 + r.pos /\ Len(r.pending) = 3 + r.pos
             /\ \A i \in 1 .. r.pos : r.pending[3 + i] = Prefix[i]
        <4>1. Len(r.pending) >= 3 + r.pos /\ Len(r.pending) = 3 + r.pos
          <5>1. 3 >= 3 + 0 /\ 3 = 3 + 0
            OBVIOUS
          <5>2. r.pos = 0 /\ Len(r.pending) = 3
            BY <3>3, <3>5
          <5> QED BY <5>1, <5>2, Zenon
        <4>2. \A i \in 1 .. r.pos : r.pending[3 + i] = Prefix[i]
          BY <3>5, <3>8, Zenon
        <4> QED BY <4>1, <4>2
      <3> QED BY <3>3, <3>5, <3>10, <3>11 DEF MarkerHeld
    <2>9. Framed(r) /\ OneKept(r)
      BY <2>4, <2>6, <2>8, MarkerFramed DEF Same
    <2> QED BY <2>2, <2>4, <2>5, <2>6, <2>9 DEF Passes, Same
  <1>3. CASE b # "M"
    <2> DEFINE a == pushAndRelease(q, b)
    <2>1. /\ a \in Parser /\ Same(a, q) /\ a.pending = <<>> /\ a.run = <<>>
          /\ Total(a) = Append(Total(q), b)
      BY <1>1, ByteReleased
    <2>2. apcIntro(q, b) \in {[a EXCEPT !.kind = "kitty", !.ctl = NoControl], [a EXCEPT !.kind = "apc"]}
      BY <1>3 DEF apcIntro
    <2> HIDE DEF a
    <2> DEFINE r == apcIntro(q, b)
    <2>3. NoControl \in Control
      BY DEF NoControl, Control
    <2>4. r \in Parser
      BY <2>1, <2>2, <2>3 DEF Parser
    <2>5. r.state = a.state /\ r.kind \in {"kitty", "apc"} /\ r.esc = a.esc /\ Stays(r, a)
      BY <2>1, <2>2 DEF Parser, Stays
    <2> HIDE DEF r
    <2>6. /\ r.pending = <<>> /\ r.esc = FALSE /\ r.state = "string" /\ r.swallowed = <<>>
          /\ Total(r) = Total(a)
      BY <2>1, <2>5, StaysTotal DEF Same, Stays
    <2>7. Framed(r) /\ OneKept(r)
      BY <2>4, <2>5, <2>6, QuietFramed
    <2> QED BY <2>1, <2>4, <2>6, <2>7 DEF Passes, r
  <1> QED BY <1>2, <1>3

\* A byte of what may be a marker: withheld while it may be one, passed on with
\* all that was withheld once it cannot.
LEMMA MarkerPasses ==
  ASSUME NEW q \in Parser, OneKept(q), Framed(q), q.swallowed = <<>>, q.esc = FALSE,
         q.state = "string", q.kind = "marker", NEW b \in Bytes
  PROVE Passes(markerByte(q, b), Append(Total(q), b))
  <1> DEFINE h == hold(q, b)
             f == releasePending(h)
             o == [f EXCEPT !.kind = "apc"]
  <1>1. MarkerHeld(q)
    BY DEF Framed
  <1>2. /\ h \in Parser /\ Same(h, q) /\ h.pending = Append(q.pending, b) /\ h.run = <<>>
        /\ h.committed = q.committed /\ h.pos = q.pos /\ Total(h) = Append(Total(q), b)
    BY ByteHeld
  <1>3. q.pos \in Nat /\ q.committed \in BOOLEAN
    BY ParserFields
  <1>4. \/ markerByte(q, b) = o
        \/ markerByte(q, b) = h /\ q.committed = TRUE
        \/ /\ q.committed = FALSE /\ Prefix[q.pos + 1] = b
           /\ markerByte(q, b) = [h EXCEPT !.pos = @ + 1, !.committed = q.pos + 1 = Len(Prefix)]
    BY <1>3 DEF markerByte
  <1> HIDE DEF h
  <1>5. ASSUME markerByte(q, b) = o
        PROVE Passes(markerByte(q, b), Append(Total(q), b))
    <2>1. /\ f \in Parser /\ Same(f, h) /\ f.pending = <<>> /\ f.run = <<>> /\ Total(f) = Total(h)
      BY <1>2, PendingReleased
    <2> HIDE DEF f
    <2>2. o \in Parser
      BY <2>1 DEF Parser
    <2>3. o.state = f.state /\ o.kind = "apc" /\ o.esc = f.esc /\ Stays(o, f)
      BY <2>1 DEF Parser, Stays
    <2> HIDE DEF o
    <2>4. /\ o.pending = <<>> /\ o.esc = FALSE /\ o.state = "string" /\ o.swallowed = <<>>
          /\ Total(o) = Total(f)
      BY <1>2, <2>1, <2>3, StaysTotal DEF Same, Stays
    <2>5. Framed(o) /\ OneKept(o)
      BY <2>2, <2>3, <2>4, QuietFramed
    <2> QED BY <1>2, <1>5, <2>1, <2>2, <2>4, <2>5 DEF Passes
  <1>6. ASSUME markerByte(q, b) = h, q.committed = TRUE
        PROVE Passes(markerByte(q, b), Append(Total(q), b))
    <2>1. h.esc = FALSE /\ h.state = "string" /\ h.kind = "marker" /\ h.swallowed = <<>>
      BY <1>2 DEF Same
    <2>2. MarkerHeld(h)
      BY <1>1, <1>2, <1>6, <2>1, MarkerGrows
    <2>3. Framed(h) /\ OneKept(h)
      BY <1>2, <2>1, <2>2, MarkerFramed
    <2> QED BY <1>2, <1>6, <2>1, <2>3 DEF Passes
  <1>7. ASSUME q.committed = FALSE, Prefix[q.pos + 1] = b,
               markerByte(q, b) = [h EXCEPT !.pos = @ + 1, !.committed = q.pos + 1 = Len(Prefix)]
        PROVE Passes(markerByte(q, b), Append(Total(q), b))
    <2>1. PICK c \in BOOLEAN : c = (q.pos + 1 = Len(Prefix))
      <3>1. (q.pos + 1 = Len(Prefix)) \in BOOLEAN
        OBVIOUS
      <3> WITNESS (q.pos + 1 = Len(Prefix)) \in BOOLEAN
      <3> QED OBVIOUS
    <2>2. PICK n \in Nat : n = q.pos + 1
      BY <1>3
    <2> DEFINE r == [h EXCEPT !.pos = n, !.committed = c]
    <2>3. markerByte(q, b) = r
      BY <1>2, <1>7, <2>1, <2>2
    <2>4. r \in Parser
      BY <1>2 DEF Parser
    <2>5. /\ r.pos = n /\ r.committed = c /\ Same(r, h) /\ r.out = h.out
          /\ r.pending = h.pending /\ r.run = h.run
      BY <1>2 DEF Parser, Same
    <2> HIDE DEF r
    <2>6. /\ r.esc = FALSE /\ r.state = "string" /\ r.kind = "marker" /\ r.swallowed = <<>>
          /\ r.run = <<>> /\ r.pending = Append(q.pending, b)
      BY <1>2, <2>5 DEF Same
    <2>7. r.committed = TRUE <=> r.pos = Len(Prefix)
      BY <2>1, <2>2, <2>5
    <2>8. MarkerHeld(r)
      <3>1. r.pos = q.pos + 1
        BY <2>2, <2>5
      <3>2. /\ r.esc = FALSE /\ q.committed = FALSE /\ Prefix[q.pos + 1] = b
            /\ r.pos = q.pos + 1 /\ (r.committed = TRUE <=> r.pos = Len(Prefix))
        BY <1>7, <2>6, <2>7, <3>1, Zenon
      <3>3. r.pending = Append(q.pending, b)
        BY <2>6
      <3> HIDE DEF f, o
      <3> QED BY <1>1, <2>4, <3>2, <3>3, MarkerGrows, Zenon
    <2>9. Framed(r) /\ OneKept(r)
      BY <2>4, <2>6, <2>8, MarkerFramed
    <2>10. Total(r) = Total(h)
      BY <2>5, Zenon DEF Total
    <2> QED BY <1>2, <2>3, <2>4, <2>6, <2>9, <2>10 DEF Passes
  <1> QED BY <1>4, <1>5, <1>6, <1>7

\* The first ESC inside a string is withheld: it may be the terminator's.
LEMMA EscInStringPasses ==
  ASSUME NEW q \in Parser, OneKept(q), Framed(q), q.swallowed = <<>>, q.esc = FALSE,
         q.state = "string"
  PROVE Passes(hold([q EXCEPT !.esc = TRUE], ESC), Append(Total(q), ESC))
  <1> DEFINE e == [q EXCEPT !.esc = TRUE]
             r == hold(e, ESC)
  <1>1. e \in Parser
    BY DEF Parser
  <1>2. e.state = "string" /\ e.kind = q.kind /\ e.esc = TRUE /\ Stays(e, q)
    BY DEF Parser, Stays
  <1> HIDE DEF e
  <1>3. Total(e) = Total(q) /\ OneKept(e) /\ ESC \in Bytes
    BY <1>2, StaysTotal DEF Bytes
  <1>4. /\ r \in Parser /\ Same(r, e) /\ r.pending = Append(e.pending, ESC) /\ r.run = <<>>
        /\ r.committed = e.committed /\ r.pos = e.pos /\ Total(r) = Append(Total(e), ESC)
    BY <1>1, <1>3, ByteHeld
  <1> HIDE DEF r
  <1>5. /\ r.pending = Append(q.pending, ESC) /\ r.state = "string" /\ r.kind = q.kind
        /\ r.esc = TRUE /\ r.swallowed = <<>> /\ r.pos = q.pos /\ r.committed = q.committed
    BY <1>2, <1>4 DEF Same, Stays
  <1>6. Framed(r)
    <2>1. CASE q.kind = "marker"
      <3>1. MarkerHeld(q)
        BY <2>1 DEF Framed
      <3>2. MarkerHeld(r)
        BY <1>3, <1>4, <1>5, <3>1, MarkerGrows
      <3> QED BY <1>4, <1>5, <2>1, <3>2, MarkerFramed
    <2>2. CASE q.kind = "apc-intro"
      <3>1. q.pending = <<ESC, "_">>
        BY <2>2 DEF Framed
      <3>2. r.pending = <<ESC, "_", ESC>>
        BY <1>5, <3>1, Appended, Zenon
      <3> QED BY <1>5, <2>2, <3>2, Zenon DEF Framed
    <2>3. CASE q.kind \notin {"marker", "apc-intro"}
      <3>1. q.pending = <<>>
        BY <2>3 DEF Framed
      <3>2. Append(<<>>, ESC) = <<ESC>>
        BY <1>3
      <3>3. r.pending = <<ESC>>
        BY <1>5, <3>1, <3>2, Zenon
      <3> QED BY <1>5, <2>3, <3>3 DEF Framed
    <2> QED BY <2>1, <2>2, <2>3
  <1> QED BY <1>3, <1>4, <1>5, <1>6 DEF Passes, OneKept, r, e

\* A byte inside a string.
LEMMA StringPasses ==
  ASSUME NEW q \in Parser, OneKept(q), Framed(q), q.swallowed = <<>>, q.state = "string",
         NEW b \in Bytes
  PROVE \/ Passes(inString(q, b), Append(Total(q), b))
        \/ Swallows(inString(q, b), q, b)
  <1>1. q.esc \in BOOLEAN
    BY ParserFields
  <1>2. CASE q.esc = TRUE /\ b # "bslash"
    <2>1. inString(q, b) = abortStringToEsc(q, b)
      BY <1>2 DEF inString
    <2>2. Passes(abortStringToEsc(q, b), Append(Total(q), b))
      BY <1>2, AbortPasses
    <2> QED BY <2>1, <2>2, Zenon
  <1>3. CASE q.esc = TRUE /\ b = "bslash"
    <2>1. inString(q, b) = endString(q, b)
      BY <1>3 DEF inString
    <2>2. \/ Passes(endString(q, "bslash"), Append(Total(q), "bslash"))
          \/ Swallows(endString(q, "bslash"), q, "bslash")
      BY <1>3, EndPasses
    <2> QED BY <1>3, <2>1, <2>2, Zenon
  <1>4. CASE q.esc = FALSE /\ b = ESC
    <2>1. inString(q, b) = hold([q EXCEPT !.esc = TRUE], ESC)
      BY <1>4 DEF inString, ESC
    <2>2. Passes(hold([q EXCEPT !.esc = TRUE], ESC), Append(Total(q), ESC))
      BY <1>4, EscInStringPasses
    <2> QED BY <1>4, <2>1, <2>2, Zenon
  <1>5. CASE q.esc = FALSE /\ b # ESC
    <2>1. inString(q, b) =
            CASE q.kind = "apc-intro" -> apcIntro(q, b)
              [] q.kind = "marker"    -> markerByte(q, b)
              [] q.kind = "kitty"     -> stream(kittyByte(q, b), b)
              [] q.kind = "osc" /\ b = "bel" ->
                   stream([q EXCEPT !.state = "ground", !.kind = "none"], b)
              [] OTHER -> stream(q, b)
      BY <1>5 DEF inString
    <2>2. CASE q.kind = "apc-intro"
      <3>1. inString(q, b) = apcIntro(q, b)
        BY <2>1, <2>2
      <3>2. Passes(apcIntro(q, b), Append(Total(q), b))
        BY <1>5, <2>2, IntroPasses
      <3> QED BY <3>1, <3>2, Zenon
    <2>3. CASE q.kind = "marker"
      <3>1. inString(q, b) = markerByte(q, b)
        BY <2>1, <2>3
      <3>2. Passes(markerByte(q, b), Append(Total(q), b))
        BY <1>5, <2>3, MarkerPasses
      <3> QED BY <3>1, <3>2, Zenon
    <2>4. CASE q.kind \notin {"apc-intro", "marker"}
      <3>1. q.pending = <<>>
        BY <1>5, <2>4 DEF Framed
      <3>2. PICK t \in {kittyByte(q, b), [q EXCEPT !.state = "ground", !.kind = "none"], q} :
              inString(q, b) = stream(t, b)
        BY <2>1, <2>4
      <3>3. /\ t \in Parser /\ Stays(t, q) /\ t.esc = FALSE /\ t.state \in {"string", "ground"}
            /\ (t.state = "string" => t.kind \notin {"apc-intro", "marker"})
        <4>1. CASE t = kittyByte(q, b)
          BY <1>5, <2>4, <4>1, ControlRead
        <4>2. CASE t = [q EXCEPT !.state = "ground", !.kind = "none"]
          <5>1. t \in Parser
            BY <4>2 DEF Parser
          <5>2. t.state = "ground" /\ t.esc = FALSE /\ Stays(t, q)
            BY <1>5, <4>2 DEF Parser, Stays
          <5> QED BY <5>1, <5>2
        <4>3. CASE t = q
          BY <1>5, <2>4, <4>3 DEF Stays
        <4> QED BY <3>2, <4>1, <4>2, <4>3
      <3>4. Total(t) = Total(q) /\ t.pending = <<>> /\ t.swallowed = <<>>
        BY <3>1, <3>3, StaysTotal DEF Stays
      <3>5. Passes(stream(t, b), Append(Total(t), b))
        BY <3>3, <3>4, StreamPasses
      <3> QED BY <3>2, <3>4, <3>5, Zenon
    <2> QED BY <2>2, <2>3, <2>4
  <1> QED BY <1>1, <1>2, <1>3, <1>4, <1>5

\* A byte is passed on or withheld behind all that was read before it, or it ends a
\* marker with the token, which goes as a whole (StreamParser.byte).
LEMMA BytePasses ==
  ASSUME NEW q \in Parser, OneKept(q), Framed(q), q.swallowed = <<>>, NEW b \in Bytes
  PROVE Passes(byte(q, b), Append(Total(q), b)) \/ Swallows(byte(q, b), q, b)
  <1>1. q.state \in {"ground", "esc", "esc-int", "csi", "string"} /\ q.esc \in BOOLEAN
    BY ParserFields
  <1>2. CASE q.state = "ground"
    <2>1. byte(q, b) = inGround(q, b)
      BY <1>2 DEF byte
    <2>2. Passes(inGround(q, b), Append(Total(q), b))
      BY <1>2, GroundPasses
    <2> QED BY <2>1, <2>2, Zenon
  <1>3. CASE q.state = "esc"
    <2>1. byte(q, b) = inEsc(q, b)
      BY <1>3 DEF byte
    <2>2. q.pending = <<ESC>> /\ q.esc = FALSE
      BY <1>1, <1>3 DEF Framed
    <2>3. q.run = <<>>
      <3>1. <<ESC>> # <<>>
        OBVIOUS
      <3> QED BY <2>2, <3>1, Zenon DEF OneKept
    <2>4. Passes(inEsc(q, b), Append(Total(q), b))
      BY <1>3, <2>2, <2>3, EscPasses
    <2> QED BY <2>1, <2>4, Zenon
  <1>4. CASE q.state \in {"esc-int", "csi"}
    <2>1. byte(q, b) = inEscInt(q, b) \/ byte(q, b) = inCsi(q, b)
      BY <1>4 DEF byte
    <2>2. \A r : r = inEscInt(q, b) \/ r = inCsi(q, b) => Passes(r, Append(Total(q), b))
      BY <1>4, SequencePasses
    <2> QED BY <2>1, <2>2
  <1>5. CASE q.state = "string"
    <2>1. byte(q, b) = inString(q, b)
      BY <1>5 DEF byte
    <2>2. \/ Passes(inString(q, b), Append(Total(q), b))
          \/ Swallows(inString(q, b), q, b)
      BY <1>5, StringPasses
    <2> QED BY <2>1, <2>2, Zenon
  <1> QED BY <1>1, <1>2, <1>3, <1>4, <1>5
-----------------------------------------------------------------------------
(***************************************************************************)
(* What a step does with the bytes owed, and the steps of the helper.      *)
(***************************************************************************)
\* A sequence falls apart where its first part ends.
LEMMA FallsApart ==
  ASSUME NEW x \in Seq(Bytes), NEW y \in Seq(Bytes)
  PROVE /\ IsPrefix(x, x \o y) /\ SubSeq(x \o y, 1, Len(x)) = x
        /\ SubSeq(x \o y, Len(x) + 1, Len(x \o y)) = y
  <1> DEFINE s == x \o y
             m == Len(x)
             n == Len(y)
  <1>1. m \in Nat /\ n \in Nat
    OBVIOUS
  <1>2. /\ s \in Seq(Bytes) /\ Len(s) = m + n
        /\ \A i \in 1 .. m + n : s[i] = IF i <= m THEN x[i] ELSE y[i - m]
    BY Concatenated, Zenon
  <1> HIDE DEF s
  <1>3. SubSeq(s, 1, m) = x
    <2> DEFINE u == SubSeq(s, 1, m)
    <2>1. u \in Seq(Bytes) /\ Len(u) = m /\ \A i \in 1 .. m : u[i] = s[i]
      BY <1>1, <1>2
    <2>2. \A i \in 1 .. m : u[i] = x[i]
      BY <1>1, <1>2, <2>1
    <2> HIDE DEF u
    <2>3. u = x
      BY <2>1, <2>2, SeqEqual
    <2> QED BY <2>3 DEF u
  <1>4. SubSeq(x, 1, m) = x
    <2> DEFINE u == SubSeq(x, 1, m)
    <2>1. u \in Seq(Bytes) /\ Len(u) = m /\ \A i \in 1 .. m : u[i] = x[i]
      BY <1>1
    <2> HIDE DEF u
    <2>2. u = x
      BY <2>1, SeqEqual
    <2> QED BY <2>2 DEF u
  <1>5. SubSeq(s, m + 1, m + n) = y
    <2> DEFINE u == SubSeq(s, m + 1, m + n)
    <2>1. m + 1 \in Int /\ m + n \in Int /\ \A i \in m + 1 .. m + n : s[i] \in Bytes
      BY <1>1, <1>2
    <2>2. /\ u \in Seq(Bytes) /\ Len(u) = IF m + 1 <= m + n THEN (m + n) - (m + 1) + 1 ELSE 0
          /\ \A i \in 1 .. (m + n) - (m + 1) + 1 : u[i] = s[m + 1 + i - 1]
      BY <2>1, SubSeqProperties
    <2> HIDE DEF u
    <2>3. Len(u) = n /\ \A i \in 1 .. n : u[i] = s[m + i]
      <3>1. (m + n) - (m + 1) + 1 = n /\ (m + 1 <= m + n <=> 1 <= n)
        BY <1>1
      <3>2. \A i \in 1 .. n : m + 1 + i - 1 = m + i
        BY <1>1
      <3>3. Len(u) = n
        BY <1>1, <2>2, <3>1
      <3>4. \A i \in 1 .. n : u[i] = s[m + 1 + i - 1]
        BY <2>2, <3>1, Zenon
      <3> QED BY <3>2, <3>3, <3>4, Zenon
    <2>4. \A i \in 1 .. n : u[i] = y[i]
      <3> SUFFICES ASSUME NEW i \in 1 .. n PROVE u[i] = y[i]
        OBVIOUS
      <3>1. PICK k \in 1 .. m + n : k = m + i /\ ~(k <= m) /\ k - m = i
        BY <1>1
      <3>2. s[k] = IF k <= m THEN x[k] ELSE y[k - m]
        BY <1>2
      <3>3. s[k] = y[i]
        BY <3>1, <3>2, Zenon
      <3>4. u[i] = s[m + i]
        BY <2>3, Zenon
      <3> QED BY <3>1, <3>3, <3>4, Zenon
    <2>5. u = y
      BY <2>2, <2>3, <2>4, SeqEqual
    <2> QED BY <2>5 DEF u
  <1>6. IsPrefix(x, s)
    BY <1>1, <1>2, <1>3, <1>4 DEF IsPrefix
  <1> QED BY <1>2, <1>3, <1>5, <1>6 DEF s

\* A step that passes bytes on and withholds the rest owes what it withholds.
LEMMA Delivered ==
  ASSUME NEW q \in Parser, OneKept(q), q.swallowed = <<>>, lost = FALSE,
         NEW before, Total(q) = before, Deliver(q, before)
  PROVE /\ p' \in Parser /\ p'.out = <<>> /\ p'.swallowed = <<>> /\ OneKept(p')
        /\ lost' = FALSE /\ owed' = p'.pending \o p'.run
        /\ p'.pending = q.pending /\ p'.run = q.run /\ (Framed(q) => Framed(p'))
  <1> DEFINE rest == q.pending \o q.run
             out  == IF IsPrefix(q.out, before) THEN Len(q.out) ELSE 0
             left == SubSeq(before, out + 1, Len(before))
  <1>1. q.out \in Seq(Bytes) /\ q.pending \in Seq(Bytes) /\ q.run \in Seq(Bytes)
    BY ParserFields
  <1>2. rest \in Seq(Bytes) /\ before = q.out \o rest
    BY <1>1 DEF Total
  <1> HIDE DEF rest
  <1>3. /\ IsPrefix(q.out, before) /\ SubSeq(before, 1, Len(q.out)) = q.out
        /\ SubSeq(before, Len(q.out) + 1, Len(before)) = rest
    <2>1. PICK x \in Seq(Bytes), y \in Seq(Bytes) : x = q.out /\ y = rest
      BY <1>1, <1>2
    <2>2. /\ IsPrefix(x, x \o y) /\ SubSeq(x \o y, 1, Len(x)) = x
          /\ SubSeq(x \o y, Len(x) + 1, Len(x \o y)) = y
      BY FallsApart
    <2> QED BY <1>2, <2>1, <2>2, Zenon
  <1>4. /\ p' = [q EXCEPT !.out = <<>>, !.swallowed = <<>>]
        /\ lost' = (lost \/ q.out # SubSeq(before, 1, out)
                         \/ (q.swallowed # <<>> /\ (q.swallowed # left \/ ~IsMarker(left))))
        /\ owed' = IF q.swallowed # <<>> THEN <<>> ELSE left
    BY DEF Deliver
  <1>5. out = Len(q.out)
    BY <1>3
  <1>6. left = rest /\ q.out = SubSeq(before, 1, out)
    BY <1>3, <1>5, Zenon
  <1> HIDE DEF out, left
  <1>7. lost' = FALSE /\ owed' = rest
    <2>1. lost' = FALSE
      BY <1>4, <1>6
    <2>2. owed' = rest
      BY <1>4, <1>6
    <2> QED BY <2>1, <2>2
  <1>8. <<>> \in Seq(Bytes)
    OBVIOUS
  <1>9. p' \in Parser
    BY <1>4, <1>8 DEF Parser
  <1>10. /\ p'.out = <<>> /\ p'.swallowed = <<>> /\ p'.pending = q.pending /\ p'.run = q.run
         /\ p'.state = q.state /\ p'.kind = q.kind /\ p'.esc = q.esc
         /\ p'.committed = q.committed /\ p'.pos = q.pos
    BY <1>4 DEF Parser
  <1>11. OneKept(p')
    BY <1>10, Zenon DEF OneKept
  <1>12. ASSUME Framed(q) PROVE Framed(p')
    <2>1. MarkerHeld(q) => MarkerHeld(p')
      BY <1>10, Zenon DEF MarkerHeld
    <2> QED BY <1>10, <1>12, <2>1, Zenon DEF Framed
  <1>13. owed' = p'.pending \o p'.run
    BY <1>7, <1>10, Zenon DEF rest
  <1> QED BY <1>7, <1>9, <1>10, <1>11, <1>12, <1>13

\* A step that swallows a marker owes nothing, and has lost nothing.
LEMMA Swallowed ==
  ASSUME NEW q, NEW r \in Parser, NEW b \in Bytes, Swallows(q, r, b), r.out = <<>>,
         lost = FALSE, Deliver(q, Append(r.pending, b))
  PROVE /\ p' \in Parser /\ p'.out = <<>> /\ p'.swallowed = <<>> /\ OneKept(p')
        /\ lost' = FALSE /\ owed' = p'.pending \o p'.run /\ p'.run = <<>> /\ Framed(p')
  <1> DEFINE before == Append(r.pending, b)
             out  == IF IsPrefix(q.out, before) THEN Len(q.out) ELSE 0
             left == SubSeq(before, out + 1, Len(before))
  <1>1. before \in Seq(Bytes) /\ before # <<>>
    <2>1. PICK s \in Seq(Bytes) : s = r.pending
      BY ParserFields
    <2>2. Append(s, b) \in Seq(Bytes) /\ Append(s, b) # <<>>
      OBVIOUS
    <2> QED BY <2>1, <2>2
  <1>2. /\ q \in Parser /\ OneKept(q) /\ Framed(q) /\ q.out = <<>> /\ q.pending = <<>>
        /\ q.run = <<>> /\ q.swallowed = before /\ IsMarker(before)
    BY DEF Swallows
  <1>3. /\ p' = [q EXCEPT !.out = <<>>, !.swallowed = <<>>]
        /\ lost' = (lost \/ q.out # SubSeq(before, 1, out)
                         \/ (q.swallowed # <<>> /\ (q.swallowed # left \/ ~IsMarker(left))))
        /\ owed' = IF q.swallowed # <<>> THEN <<>> ELSE left
    BY DEF Deliver
  <1> HIDE DEF before
  <1>4. out = 0 /\ Len(before) \in Nat
    <2>1. Len(<<>>) = 0
      OBVIOUS
    <2> QED BY <1>1, <1>2, <2>1
  <1>5. left = before /\ SubSeq(before, 1, out) = <<>>
    <2>1. SubSeq(before, 1, Len(before)) = before
      <3>1. <<>> \o before = before /\ Len(<<>>) + 1 = 1
        BY <1>1
      <3>2. <<>> \in Seq(Bytes)
        OBVIOUS
      <3>3. SubSeq(<<>> \o before, Len(<<>>) + 1, Len(<<>> \o before)) = before
        BY <1>1, <3>2, FallsApart
      <3> QED BY <3>1, <3>3, Zenon
    <2>2. SubSeq(before, 1, 0) = <<>>
      BY SubSeqEmpty
    <2>3. out + 1 = 1
      BY <1>4
    <2> QED BY <1>4, <2>1, <2>2, <2>3, Zenon
  <1> HIDE DEF out, left
  <1>6. lost' = FALSE
    BY <1>2, <1>3, <1>5
  <1>7. owed' = <<>>
    BY <1>1, <1>2, <1>3
  <1>8. <<>> \in Seq(Bytes) /\ <<>> \o <<>> = <<>>
    OBVIOUS
  <1>9. p' \in Parser
    BY <1>2, <1>3, <1>8 DEF Parser
  <1>10. /\ p'.out = <<>> /\ p'.swallowed = <<>> /\ p'.pending = q.pending /\ p'.run = q.run
         /\ p'.state = q.state /\ p'.kind = q.kind /\ p'.esc = q.esc
         /\ p'.committed = q.committed /\ p'.pos = q.pos
    BY <1>2, <1>3 DEF Parser
  <1>11. OneKept(p') /\ owed' = p'.pending \o p'.run
    BY <1>2, <1>7, <1>8, <1>10, Zenon DEF OneKept
  <1>12. Framed(p')
    <2>1. MarkerHeld(q) => MarkerHeld(p')
      BY <1>10, Zenon DEF MarkerHeld
    <2> QED BY <1>2, <1>10, <2>1, Zenon DEF Framed
  <1> QED BY <1>2, <1>6, <1>9, <1>10, <1>11, <1>12

\* The invariant at the start.
LEMMA InitWithholds == Init => Withholds
  <1> SUFFICES ASSUME Init PROVE Withholds
    OBVIOUS
  <1>1. p = Parser0 /\ owed = <<>> /\ lost = FALSE /\ chunk = 0 /\ exiting = FALSE
    BY DEF Init
  <1>2. /\ p \in Parser /\ p.out = <<>> /\ p.swallowed = <<>> /\ p.pending = <<>> /\ p.run = <<>>
        /\ p.state = "ground" /\ p.esc = FALSE
    BY <1>1, ParserStarts
  <1>3. Framed(p) /\ OneKept(p)
    BY <1>2, QuietFramed
  <1>4. <<>> \o <<>> = <<>>
    OBVIOUS
  <1>5. owed = p.pending \o p.run
    BY <1>1, <1>2, <1>4, Zenon
  <1> QED BY <1>1, <1>2, <1>3, <1>5 DEF Withholds

\* Nothing passed on yet: what is owed is what is withheld.
LEMMA OwedIsTotal == ASSUME Withholds PROVE Total(p) = owed /\ owed \in Seq(Bytes)
  <1>1. p \in Parser /\ p.out = <<>> /\ owed = p.pending \o p.run
    BY DEF Withholds
  <1>2. p.pending \in Seq(Bytes) /\ p.run \in Seq(Bytes)
    BY <1>1, ParserFields
  <1>3. owed \in Seq(Bytes)
    BY <1>1, <1>2
  <1>4. <<>> \o owed = owed
    BY <1>3
  <1> QED BY <1>1, <1>3, <1>4, Zenon DEF Total

\* One byte read (StreamParser.push, one turn of its loop).
LEMMA ReadByteWithholds ==
  ASSUME Withholds, NEW b \in Bytes, ReadByte(b)
  PROVE Withholds'
  <1> DEFINE q == byte(p, b)
  <1>1. /\ exiting = FALSE /\ exiting' = FALSE /\ chunk' = chunk + 1
        /\ Deliver(q, Append(owed, b))
    <2>1. ~exiting /\ exiting \in BOOLEAN
      BY DEF ReadByte, Withholds
    <2>2. exiting' = exiting /\ chunk' = chunk + 1 /\ Deliver(q, Append(owed, b))
      BY DEF ReadByte
    <2> QED BY <2>1, <2>2
  <1>2. /\ p \in Parser /\ OneKept(p) /\ p.out = <<>> /\ p.swallowed = <<>>
        /\ owed = p.pending \o p.run /\ lost = FALSE /\ Framed(p) /\ chunk \in Nat
    BY <1>1 DEF Withholds
  <1>3. chunk' \in Nat /\ chunk' # 0
    BY <1>1, <1>2
  <1>4. Passes(q, Append(Total(p), b)) \/ Swallows(q, p, b)
    BY <1>2, BytePasses
  <1> HIDE DEF q
  <1>5. CASE Passes(q, Append(Total(p), b))
    <2>1. /\ q \in Parser /\ OneKept(q) /\ Framed(q) /\ q.swallowed = <<>>
          /\ Total(q) = Append(owed, b)
      BY <1>5, OwedIsTotal DEF Passes
    <2>2. /\ p' \in Parser /\ p'.out = <<>> /\ p'.swallowed = <<>> /\ OneKept(p')
          /\ lost' = FALSE /\ owed' = p'.pending \o p'.run /\ Framed(p')
      BY <1>1, <1>2, <2>1, Delivered
    <2> QED BY <1>1, <1>3, <2>2 DEF Withholds
  <1>6. CASE Swallows(q, p, b)
    <2>1. owed = p.pending
      <3>1. PICK s \in Seq(Bytes) : s = p.pending
        BY <1>2, ParserFields
      <3>2. s \o <<>> = s
        OBVIOUS
      <3>3. p.run = <<>>
        BY <1>6 DEF Swallows
      <3> QED BY <1>2, <3>1, <3>2, <3>3, Zenon
    <2>2. /\ p' \in Parser /\ p'.out = <<>> /\ p'.swallowed = <<>> /\ OneKept(p')
          /\ lost' = FALSE /\ owed' = p'.pending \o p'.run /\ Framed(p')
      BY <1>1, <1>2, <1>6, <2>1, Swallowed
    <2> QED BY <1>1, <1>3, <2>2 DEF Withholds
  <1> QED BY <1>4, <1>5, <1>6

\* The end of a chunk passes the run on (StreamParser.push, its last line).
LEMMA EndChunkWithholds ==
  ASSUME Withholds, EndChunk
  PROVE Withholds'
  <1> DEFINE q == emitRun(p)
  <1>1. exiting' = exiting /\ chunk' = 0 /\ Deliver(q, owed) /\ chunk > 0
    BY DEF EndChunk
  <1>2. /\ p \in Parser /\ OneKept(p) /\ p.swallowed = <<>> /\ lost = FALSE /\ exiting \in BOOLEAN
        /\ chunk \in Nat
    BY DEF Withholds
  <1>3. exiting = FALSE /\ Framed(p)
    <2>1. chunk # 0
      BY <1>1, <1>2
    <2> QED BY <1>2, <2>1 DEF Withholds
  <1>4. /\ q \in Parser /\ Same(q, p) /\ q.pending = p.pending /\ q.run = <<>>
        /\ q.committed = p.committed /\ q.pos = p.pos /\ Total(q) = owed
    BY <1>2, RunEmitted, OwedIsTotal
  <1> HIDE DEF q
  <1>5. Framed(q) /\ OneKept(q) /\ q.swallowed = <<>>
    <2>1. MarkerHeld(p) => MarkerHeld(q)
      BY <1>4, Zenon DEF MarkerHeld, Same
    <2> QED BY <1>2, <1>3, <1>4, <2>1, Zenon DEF Framed, OneKept, Same
  <1>6. /\ p' \in Parser /\ p'.out = <<>> /\ p'.swallowed = <<>> /\ OneKept(p')
        /\ lost' = FALSE /\ owed' = p'.pending \o p'.run /\ p'.run = q.run /\ Framed(p')
    BY <1>1, <1>2, <1>4, <1>5, Delivered
  <1>7. chunk' \in Nat
    BY <1>1
  <1> QED BY <1>1, <1>3, <1>4, <1>6, <1>7 DEF Withholds

\* The exit passes on all that is withheld (StreamParser.flush, local-main.js cleanup).
LEMMA CleanupWithholds ==
  ASSUME Withholds, cleanup
  PROVE Withholds'
  <1> DEFINE f == releasePending(p)
             q == [f EXCEPT !.kind = IF @ = "marker" THEN "apc" ELSE @]
  <1>1. chunk = 0 /\ chunk' = 0 /\ exiting' = TRUE /\ Deliver(q, owed)
    BY DEF cleanup
  <1>2. /\ p \in Parser /\ p.swallowed = <<>> /\ p.run = <<>> /\ lost = FALSE
    BY <1>1 DEF Withholds
  <1>3. f \in Parser /\ Same(f, p) /\ f.pending = <<>> /\ f.run = <<>> /\ Total(f) = owed
    BY <1>2, PendingReleased, OwedIsTotal
  <1> HIDE DEF f
  <1>4. q \in Parser
    <2>1. f.kind \in {"none", "osc", "str", "apc-intro", "apc", "kitty", "marker"}
      BY <1>3, ParserFields
    <2> QED BY <1>3, <2>1 DEF Parser
  <1>5. Stays(q, f)
    BY <1>3 DEF Parser, Stays
  <1> HIDE DEF q
  <1>6. /\ Total(q) = owed /\ q.pending = <<>> /\ q.run = <<>> /\ q.swallowed = <<>> /\ OneKept(q)
    BY <1>2, <1>3, <1>5, StaysTotal DEF Stays, Same, OneKept
  <1>7. /\ p' \in Parser /\ p'.out = <<>> /\ p'.swallowed = <<>> /\ OneKept(p')
        /\ lost' = FALSE /\ owed' = p'.pending \o p'.run /\ p'.pending = <<>> /\ p'.run = <<>>
    BY <1>1, <1>2, <1>4, <1>6, Delivered
  <1>8. owed' = <<>> /\ chunk' \in Nat
    <2>1. <<>> \o <<>> = <<>>
      OBVIOUS
    <2> QED BY <1>1, <1>7, <2>1
  <1> QED BY <1>1, <1>7, <1>8 DEF Withholds

LEMMA NextWithholds == Withholds /\ [Next]_vars => Withholds'
  <1> SUFFICES ASSUME Withholds, [Next]_vars PROVE Withholds'
    OBVIOUS
  <1>1. CASE \E b \in Bytes : ReadByte(b)
    BY <1>1, ReadByteWithholds
  <1>2. CASE EndChunk
    BY <1>2, EndChunkWithholds
  <1>3. CASE cleanup
    BY <1>3, CleanupWithholds
  <1>4. CASE SurfaceReady \/ queueStderr \/ stderrTimer \/ onClientChange \/ UNCHANGED vars
    <2>1. p' = p /\ owed' = owed /\ lost' = lost /\ chunk' = chunk /\ exiting' = exiting
      BY <1>4 DEF SurfaceReady, queueStderr, stderrTimer, onClientChange, vars
    <2> QED BY <2>1, Zenon DEF Withholds, OneKept, Framed, MarkerHeld
  <1> QED BY <1>1, <1>2, <1>3, <1>4 DEF Next

\* What the filter has read and not passed on is what it withholds, in order; nothing
\* goes out twice, out of turn or not at all but whole markers with the token, and at
\* exit nothing is owed: for every token, every bound on a marker and every stream,
\* cut into chunks anywhere (stream-parser.js, local-main.js cleanup).
THEOREM VerbatimHolds == Spec => []Verbatim
  <1>1. Withholds => Verbatim
    <2> SUFFICES ASSUME Withholds PROVE Verbatim
      OBVIOUS
    <2>1. lost = FALSE /\ owed = p.pending \o p.run /\ (p.pending = <<>> \/ p.run = <<>>)
      BY DEF Withholds, OneKept
    <2>2. chunk = 0 => p.run = <<>>
      BY DEF Withholds
    <2>3. exiting => owed = <<>>
      BY DEF Withholds
    <2> QED BY <2>1, <2>2, <2>3 DEF Verbatim
  <1> QED BY <1>1, InitWithholds, NextWithholds, PTL DEF Spec
-----------------------------------------------------------------------------
(***************************************************************************)
(* What the helper writes on its own falls between two sequences.  The     *)
(* terminal reads byte after byte: TermRead, which is one TermStep for     *)
(* each byte, is the last place of a trace of screens.                     *)
(***************************************************************************)
Screen ==
  [state : {"ground", "esc", "esc-int", "csi", "string"},
   kind : {"none", "osc", "str", "apc-intro", "apc", "kitty"},
   esc : BOOLEAN, utf : Nat, ctl : Control, open : BOOLEAN, cut : BOOLEAN]

\* A character is counted in the ground state only, and a string alone has a kind.
Orderly(t) ==
  /\ t.state # "ground" => t.utf = 0
  /\ t.state # "string" => t.kind = "none" /\ t.esc = FALSE
  /\ t.kind = "apc-intro" => t.ctl = NoControl

Terminals == {t \in Screen : Orderly(t)}

\* The fields of a terminal.
LEMMA TerminalFields ==
  ASSUME NEW t \in Terminals
  PROVE /\ t \in Screen /\ Orderly(t)
        /\ t.state \in {"ground", "esc", "esc-int", "csi", "string"}
        /\ t.kind \in {"none", "osc", "str", "apc-intro", "apc", "kitty"}
        /\ t.esc \in BOOLEAN /\ t.utf \in Nat /\ t.ctl \in Control
        /\ t.open \in BOOLEAN /\ t.cut \in BOOLEAN
  BY DEF Terminals, Screen

\* The next byte is the first of a new sequence.
Escaped(x) == x.state = "esc" \/ (x.state = "string" /\ x.esc = TRUE)

\* What opens after an ESC.
Opener(b) == IF b = "_" THEN "string" ELSE openerState(b)
OpenerKind(b) == IF b = "_" THEN "apc-intro" ELSE openerKind(b)

LEMMA OpenerFacts ==
  ASSUME NEW b \in Bytes
  PROVE /\ Opener(b) \in {"ground", "esc-int", "csi", "string"}
        /\ OpenerKind(b) \in {"none", "osc", "str", "apc-intro"}
        /\ (Opener(b) = "string") = (OpenerKind(b) # "none")
        /\ Opener("bslash") = "ground" /\ OpenerKind("bslash") = "none"
  <1>1. openerState(b) \in {"ground", "esc-int", "csi", "string"}
    BY DEF openerState
  <1>2. openerKind(b) \in {"none", "osc", "str"}
    BY DEF openerKind
  <1>3. (openerState(b) = "string") = (openerKind(b) # "none")
    BY DEF openerState, openerKind
  <1>4. openerState("bslash") = "ground" /\ openerKind("bslash") = "none"
    BY DEF openerState, openerKind
  <1> QED BY <1>1, <1>2, <1>3, <1>4 DEF Opener, OpenerKind

\* An ESC: the next byte begins a sequence, unless it ends the string.
EscShown(u, t) ==
  /\ Escaped(u) /\ u.cut = FALSE /\ u.open = t.open
  /\ u.kind = (IF t.state = "string" /\ t.esc = FALSE THEN t.kind ELSE "none")
  /\ u.esc = (t.state = "string" /\ t.esc = FALSE)
  /\ (t.state = "string" /\ t.esc = FALSE => u.state = "string" /\ u.ctl = t.ctl)

LEMMA StepsOnEsc ==
  ASSUME NEW t \in Terminals, NEW u, u = TermStep(t, ESC)
  PROVE u \in Terminals /\ EscShown(u, t)
  <1> DEFINE x == TermByte(t, ESC)
  <1>1. t \in Screen /\ Orderly(t) /\ t.esc \in BOOLEAN /\ t.cut \in BOOLEAN
    BY TerminalFields
  <1>2. u = [x EXCEPT !.cut = FALSE]
    BY DEF TermStep
  <1>3. ESC # "bslash" /\ ESC # "_"
    BY DEF ESC
  <1>4. NoControl \in Control
    BY DEF NoControl, Control
  <1>5. CASE t.state = "string" /\ t.esc = FALSE
    <2>1. x = [t EXCEPT !.esc = TRUE]
      <3>1. x = TermString(t, ESC)
        BY <1>3, <1>5 DEF TermByte
      <3>2. TermString(t, ESC) = [t EXCEPT !.esc = TRUE]
        BY <1>3, <1>5 DEF TermString
      <3> QED BY <3>1, <3>2
    <2> HIDE DEF x
    <2>2. u = [t EXCEPT !.esc = TRUE, !.cut = FALSE]
      BY <1>1, <1>2, <2>1 DEF Screen
    <2>3. u \in Screen
      BY <1>1, <2>2 DEF Screen
    <2>4. /\ u.state = "string" /\ u.kind = t.kind /\ u.esc = TRUE /\ u.utf = t.utf
          /\ u.ctl = t.ctl /\ u.open = t.open /\ u.cut = FALSE
      BY <1>1, <1>5, <2>2 DEF Screen
    <2>5. Orderly(u)
      BY <1>1, <1>5, <2>4 DEF Orderly
    <2> QED BY <1>5, <2>3, <2>4, <2>5 DEF Terminals, Escaped, EscShown
  <1>6. CASE t.state = "string" /\ t.esc = TRUE
    <2>1. x = [t EXCEPT !.state = "esc", !.kind = "none", !.esc = FALSE, !.ctl = NoControl]
      BY <1>3, <1>6 DEF TermByte
    <2>2. u = [t EXCEPT !.state = "esc", !.kind = "none", !.esc = FALSE, !.ctl = NoControl,
                        !.cut = FALSE]
      BY <1>1, <1>2, <2>1 DEF Screen
    <2>3. u \in Screen
      BY <1>1, <1>4, <2>2 DEF Screen
    <2>4. /\ u.state = "esc" /\ u.kind = "none" /\ u.esc = FALSE /\ u.utf = t.utf
          /\ u.open = t.open /\ u.cut = FALSE
      BY <1>1, <1>6, <2>2 DEF Screen
    <2>5. Orderly(u)
      BY <1>1, <1>6, <2>4 DEF Orderly
    <2> QED BY <1>6, <2>3, <2>4, <2>5 DEF Terminals, Escaped, EscShown
  <1>7. CASE t.state # "string"
    <2>1. x = [t EXCEPT !.state = "esc", !.utf = 0]
      BY <1>3, <1>7 DEF TermByte
    <2> HIDE DEF x
    <2>2. u = [t EXCEPT !.state = "esc", !.utf = 0, !.cut = FALSE]
      BY <1>1, <1>2, <2>1 DEF Screen
    <2>3. u \in Screen
      <3>1. 0 \in Nat /\ "esc" \in {"ground", "esc", "esc-int", "csi", "string"}
        OBVIOUS
      <3> QED BY <1>1, <2>2, <3>1 DEF Screen
    <2>4. /\ u.state = "esc" /\ u.kind = t.kind /\ u.esc = t.esc /\ u.utf = 0
          /\ u.ctl = t.ctl /\ u.open = t.open /\ u.cut = FALSE
      BY <1>1, <1>7, <2>2 DEF Screen
    <2>5. Orderly(u)
      BY <1>1, <1>7, <2>4 DEF Orderly
    <2> QED BY <1>1, <1>7, <2>3, <2>4, <2>5 DEF Terminals, Escaped, Orderly, EscShown
  <1> QED BY <1>1, <1>5, <1>6, <1>7

\* The byte after an ESC: it opens a sequence, and a "\" ends what was open.
OpenerShown(u, t, b) ==
  /\ u.cut = t.cut /\ u.esc = FALSE /\ u.utf = 0
  /\ u.state = Opener(b) /\ u.kind = OpenerKind(b)
  /\ u.open = (IF b = "bslash" /\ t.kind = "kitty" THEN "m" \in t.ctl.fields ELSE t.open)

LEMMA StepsEscaped ==
  ASSUME NEW t \in Terminals, Escaped(t), NEW b \in Bytes, b # ESC, NEW u, u = TermStep(t, b)
  PROVE u \in Terminals /\ OpenerShown(u, t, b)
  <1> DEFINE x == TermByte(t, b)
  <1>1. t \in Screen /\ Orderly(t) /\ t.esc \in BOOLEAN /\ t.utf = 0 /\ t.cut \in BOOLEAN
    BY TerminalFields DEF Escaped, Orderly
  <1>2. u = [x EXCEPT !.cut = t.cut]
    <2>1. (t.cut /\ b # ESC) = t.cut
      BY <1>1
    <2> QED BY <2>1 DEF TermStep
  <1>3. NoControl \in Control
    BY DEF NoControl, Control
  <1>4. PICK o \in BOOLEAN :
          o = (IF b = "bslash" /\ t.kind = "kitty" THEN "m" \in t.ctl.fields ELSE t.open)
    <2>1. t.open \in BOOLEAN /\ ("m" \in t.ctl.fields) \in BOOLEAN
      BY TerminalFields
    <2> QED BY <2>1
  <1>5. /\ Opener(b) \in {"ground", "esc-int", "csi", "string"}
        /\ OpenerKind(b) \in {"none", "osc", "str", "apc-intro"}
        /\ (Opener(b) = "string") = (OpenerKind(b) # "none")
        /\ Opener("bslash") = "ground" /\ OpenerKind("bslash") = "none"
    BY OpenerFacts
  <1>6. x = [t EXCEPT !.state = Opener(b), !.kind = OpenerKind(b), !.esc = FALSE,
                      !.ctl = NoControl, !.open = o]
    <2>1. CASE b = "bslash" /\ t.state = "string" /\ t.esc = TRUE
      <3>1. x = TermString(t, b)
        BY <2>1 DEF TermByte, ESC
      <3>2. o = (IF t.kind = "kitty" THEN "m" \in t.ctl.fields ELSE t.open)
        BY <1>4, <2>1
      <3>3. TermString(t, b) =
              [t EXCEPT !.state = "ground", !.kind = "none", !.esc = FALSE, !.ctl = NoControl,
                        !.open = o]
        BY <2>1, <3>2 DEF TermString
      <3> QED BY <1>5, <2>1, <3>1, <3>3, Zenon
    <2>2. CASE t.state = "esc" \/ b # "bslash"
      <3>1. x = [t EXCEPT !.state = Opener(b), !.kind = OpenerKind(b), !.esc = FALSE,
                          !.ctl = NoControl]
        BY <2>2 DEF TermByte, Escaped, Opener, OpenerKind
      <3>2. o = t.open
        BY <1>1, <1>4, <2>2 DEF Orderly
      <3> QED BY <1>1, <3>1, <3>2 DEF Screen
    <2> QED BY <2>1, <2>2 DEF Escaped
  <1> HIDE DEF x
  <1>7. x \in Screen
    BY <1>1, <1>3, <1>4, <1>5, <1>6 DEF Screen
  <1>8. /\ x.state = Opener(b) /\ x.kind = OpenerKind(b) /\ x.esc = FALSE /\ x.utf = 0
        /\ x.ctl = NoControl /\ x.open = o
    BY <1>1, <1>6 DEF Screen
  <1>9. u \in Screen
    BY <1>1, <1>2, <1>7 DEF Screen
  <1>10. /\ u.state = Opener(b) /\ u.kind = OpenerKind(b) /\ u.esc = FALSE /\ u.utf = 0
         /\ u.ctl = NoControl /\ u.open = o /\ u.cut = t.cut
    BY <1>2, <1>7, <1>8 DEF Screen
  <1>11. Orderly(u)
    BY <1>5, <1>10 DEF Orderly
  <1> QED BY <1>4, <1>9, <1>10, <1>11 DEF Terminals, OpenerShown

\* A byte of the ground state or of a sequence.
SequenceShown(u, t, b) ==
  /\ u.cut = t.cut /\ u.kind = "none" /\ u.esc = FALSE /\ u.open = t.open
  /\ t.state = "ground" => u.state = "ground" /\ u.utf = utf8After(t.utf, b)
  /\ t.state = "csi" => u.utf = 0 /\ u.state = IF b \in Final THEN "ground" ELSE "csi"
  /\ t.state = "esc-int" => u.utf = 0 /\ u.state = IF b = "sp" THEN "esc-int" ELSE "ground"

LEMMA StepsInSequence ==
  ASSUME NEW t \in Terminals, t.state \in {"ground", "csi", "esc-int"}, NEW b \in Bytes, b # ESC,
         NEW u, u = TermStep(t, b)
  PROVE u \in Terminals /\ SequenceShown(u, t, b)
  <1> DEFINE x == TermByte(t, b)
  <1>1. /\ t \in Screen /\ Orderly(t) /\ t.cut \in BOOLEAN /\ t.utf \in Nat
        /\ t.kind = "none" /\ t.esc = FALSE
    BY TerminalFields DEF Orderly
  <1>2. u = [x EXCEPT !.cut = t.cut]
    <2>1. (t.cut /\ b # ESC) = t.cut
      BY <1>1
    <2> QED BY <2>1 DEF TermStep
  <1>3. CASE t.state = "ground"
    <2>1. x = [t EXCEPT !.utf = utf8After(@, b)]
      BY <1>3 DEF TermByte, ESC
    <2>2. PICK n \in Nat : n = utf8After(t.utf, b)
      BY <1>1, UtfNatural
    <2> HIDE DEF x
    <2>3. u = [t EXCEPT !.utf = n]
      BY <1>1, <1>2, <2>1, <2>2 DEF Screen
    <2>4. u \in Screen
      BY <1>1, <2>3 DEF Screen
    <2>5. /\ u.state = "ground" /\ u.kind = "none" /\ u.esc = FALSE /\ u.utf = n
          /\ u.open = t.open /\ u.cut = t.cut
      BY <1>1, <1>3, <2>3 DEF Screen
    <2>6. Orderly(u)
      BY <2>5 DEF Orderly
    <2> QED BY <1>3, <2>2, <2>4, <2>5, <2>6 DEF Terminals, SequenceShown
  <1>4. CASE t.state \in {"csi", "esc-int"}
    <2>1. PICK st \in {"ground", "csi", "esc-int"} :
            /\ x = [t EXCEPT !.state = st]
            /\ t.state = "csi" => st = IF b \in Final THEN "ground" ELSE "csi"
            /\ t.state = "esc-int" => st = IF b = "sp" THEN "esc-int" ELSE "ground"
      <3>1. CASE t.state = "csi"
        <4>1. x = [t EXCEPT !.state = IF b \in Final THEN "ground" ELSE "csi"]
          BY <3>1 DEF TermByte
        <4> QED BY <3>1, <4>1
      <3>2. CASE t.state = "esc-int"
        <4>1. x = [t EXCEPT !.state = IF b = "sp" THEN "esc-int" ELSE "ground"]
          BY <3>2 DEF TermByte
        <4> QED BY <3>2, <4>1
      <3> QED BY <1>4, <3>1, <3>2
    <2> HIDE DEF x
    <2>2. u = [t EXCEPT !.state = st]
      BY <1>1, <1>2, <2>1 DEF Screen
    <2>3. u \in Screen
      BY <1>1, <2>2 DEF Screen
    <2>4. /\ u.state = st /\ u.kind = "none" /\ u.esc = FALSE /\ u.utf = t.utf
          /\ u.open = t.open /\ u.cut = t.cut
      BY <1>1, <2>2 DEF Screen
    <2>5. t.utf = 0
      BY <1>1, <1>4 DEF Orderly
    <2>6. Orderly(u)
      BY <2>4, <2>5 DEF Orderly
    <2> QED BY <1>4, <2>1, <2>3, <2>4, <2>5, <2>6 DEF Terminals, SequenceShown
  <1> QED BY <1>3, <1>4

\* A byte inside a string.
StringShown(u, t, b) ==
  /\ u.cut = t.cut /\ u.utf = 0 /\ u.esc = FALSE /\ u.open = t.open
  /\ t.kind = "osc" /\ b = "bel" => u.state = "ground" /\ u.kind = "none"
  /\ ~(t.kind = "osc" /\ b = "bel") => u.state = "string"
  /\ t.kind = "apc-intro" =>
       u.ctl = NoControl /\ u.kind = IF b = "G" /\ t.cut = FALSE THEN "kitty" ELSE "apc"
  /\ t.kind # "apc-intro" /\ ~(t.kind = "osc" /\ b = "bel") => u.kind = t.kind
  /\ t.kind = "kitty" => u.ctl = TermControl(t.ctl, b)

LEMMA StepsInString ==
  ASSUME NEW t \in Terminals, t.state = "string", t.esc = FALSE, NEW b \in Bytes, b # ESC,
         NEW u, u = TermStep(t, b)
  PROVE u \in Terminals /\ StringShown(u, t, b)
  <1> DEFINE x == TermByte(t, b)
  <1>1. /\ t \in Screen /\ Orderly(t) /\ t.cut \in BOOLEAN /\ t.utf = 0 /\ t.ctl \in Control
    BY TerminalFields DEF Orderly
  <1>2. u = [x EXCEPT !.cut = t.cut]
    <2>1. (t.cut /\ b # ESC) = t.cut
      BY <1>1
    <2> QED BY <2>1 DEF TermStep
  <1>3. x = TermString(t, b)
    BY DEF TermByte
  <1> HIDE DEF x
  <1>4. x = CASE t.kind = "apc-intro" -> [t EXCEPT !.kind = IF b = "G" /\ ~t.cut THEN "kitty" ELSE "apc"]
              [] t.kind = "osc" /\ b = "bel" -> [t EXCEPT !.state = "ground", !.kind = "none"]
              [] t.kind = "kitty" -> [t EXCEPT !.ctl = TermControl(@, b)]
              [] OTHER -> t
    BY <1>3 DEF TermString
  <1>5. CASE t.kind = "apc-intro"
    <2>1. PICK k \in {"kitty", "apc"} : k = IF b = "G" /\ t.cut = FALSE THEN "kitty" ELSE "apc"
      OBVIOUS
    <2>2. x = [t EXCEPT !.kind = k]
      BY <1>1, <1>4, <1>5, <2>1
    <2>3. u = [t EXCEPT !.kind = k]
      BY <1>1, <1>2, <2>2 DEF Screen
    <2>4. u \in Screen
      BY <1>1, <2>1, <2>3 DEF Screen
    <2>5. /\ u.state = "string" /\ u.kind = k /\ u.esc = FALSE /\ u.utf = 0 /\ u.ctl = t.ctl
          /\ u.open = t.open /\ u.cut = t.cut
      BY <1>1, <2>3 DEF Screen
    <2>6. t.ctl = NoControl
      BY <1>1, <1>5 DEF Orderly
    <2>7. Orderly(u)
      BY <2>1, <2>5, <2>6 DEF Orderly
    <2> QED BY <1>5, <2>1, <2>4, <2>5, <2>6, <2>7 DEF Terminals, StringShown
  <1>6. CASE t.kind = "osc" /\ b = "bel"
    <2>1. x = [t EXCEPT !.state = "ground", !.kind = "none"]
      BY <1>4, <1>6
    <2>2. u = [t EXCEPT !.state = "ground", !.kind = "none"]
      BY <1>1, <1>2, <2>1 DEF Screen
    <2>3. u \in Screen
      BY <1>1, <2>2 DEF Screen
    <2>4. /\ u.state = "ground" /\ u.kind = "none" /\ u.esc = FALSE /\ u.utf = 0
          /\ u.open = t.open /\ u.cut = t.cut
      BY <1>1, <2>2 DEF Screen
    <2>5. Orderly(u)
      BY <2>4 DEF Orderly
    <2> QED BY <1>6, <2>3, <2>4, <2>5 DEF Terminals, StringShown
  <1>7. CASE t.kind = "kitty"
    <2>1. PICK c \in Control : c = TermControl(t.ctl, b)
      BY <1>1 DEF TermControl, Control
    <2>2. x = [t EXCEPT !.ctl = c]
      BY <1>4, <1>7, <2>1
    <2>3. u = [t EXCEPT !.ctl = c]
      BY <1>1, <1>2, <2>2 DEF Screen
    <2>4. u \in Screen
      BY <1>1, <2>3 DEF Screen
    <2>5. /\ u.state = "string" /\ u.kind = "kitty" /\ u.esc = FALSE /\ u.utf = 0 /\ u.ctl = c
          /\ u.open = t.open /\ u.cut = t.cut
      BY <1>1, <1>7, <2>3 DEF Screen
    <2>6. Orderly(u)
      BY <2>5 DEF Orderly
    <2> QED BY <1>7, <2>1, <2>4, <2>5, <2>6 DEF Terminals, StringShown
  <1>8. CASE t.kind \notin {"apc-intro", "kitty"} /\ ~(t.kind = "osc" /\ b = "bel")
    <2>1. x = t
      BY <1>4, <1>8
    <2>2. u = t
      BY <1>1, <1>2, <2>1 DEF Screen
    <2> QED BY <1>1, <1>8, <2>2 DEF StringShown
  <1> QED BY <1>5, <1>6, <1>7, <1>8

\* A terminal stays one, whatever it reads.
LEMMA TermSteps ==
  ASSUME NEW t \in Terminals, NEW b \in Bytes
  PROVE TermStep(t, b) \in Terminals
  <1>1. CASE b = ESC
    BY <1>1, StepsOnEsc
  <1>2. CASE b # ESC /\ Escaped(t)
    BY <1>2, StepsEscaped
  <1>3. CASE b # ESC /\ t.state \in {"ground", "csi", "esc-int"}
    BY <1>3, StepsInSequence
  <1>4. CASE b # ESC /\ t.state = "string" /\ t.esc = FALSE
    BY <1>4, StepsInString
  <1> QED BY <1>1, <1>2, <1>3, <1>4, TerminalFields DEF Escaped
-----------------------------------------------------------------------------
(* Reading bytes one after the other. *)

\* A set of numbers that is not empty has a least one.
LEMMA LeastNumber ==
  ASSUME NEW S, S \subseteq Nat, S # {}
  PROVE \E n \in S : \A k \in S : n <= k
  <1>1. PICK n \in S : \A k \in S : ~(<<k, n>> \in OpToRel(<, Nat))
    BY NatLessThanWellFounded, WFMin
  <1>2. ASSUME NEW k \in S PROVE n <= k
    <2>1. n \in Nat /\ k \in Nat
      OBVIOUS
    <2>2. ~(k < n)
      BY <1>1, <2>1 DEF OpToRel
    <2> QED BY <2>1, <2>2
  <1> QED BY <1>2

\* What a terminal shows after each of the bytes.
Trace(f, t, s) == f[0] = t /\ \A n \in 1 .. Len(s) : f[n] = TermStep(f[n - 1], s[n])

\* Bytes that agree so far leave the terminal where it is.
LEMMA TracesAgree ==
  ASSUME NEW t, NEW s \in Seq(Bytes), NEW z \in Seq(Bytes), NEW f, NEW g,
         Trace(f, t, s), Trace(g, t, z),
         NEW m \in Nat, m <= Len(s), m <= Len(z), \A i \in 1 .. m : s[i] = z[i]
  PROVE \A n \in 0 .. m : f[n] = g[n]
  <1> DEFINE Bad == {n \in 0 .. m : f[n] # g[n]}
  <1>1. SUFFICES ASSUME Bad # {} PROVE FALSE
    OBVIOUS
  <1>2. Bad \subseteq Nat
    OBVIOUS
  <1>3. PICK n \in Bad : \A k \in Bad : n <= k
    BY <1>1, <1>2, LeastNumber
  <1>4. n \in 0 .. m /\ f[n] # g[n]
    OBVIOUS
  <1>5. n # 0
    BY <1>4 DEF Trace
  <1>6. n - 1 \in 0 .. m /\ ~(n <= n - 1)
    BY <1>4, <1>5
  <1>7. n - 1 \notin Bad
    BY <1>3, <1>6
  <1>8. f[n - 1] = g[n - 1]
    BY <1>6, <1>7
  <1>9. n \in 1 .. m /\ n \in 1 .. Len(s) /\ n \in 1 .. Len(z)
    <2>1. Len(s) \in Nat /\ Len(z) \in Nat
      OBVIOUS
    <2> QED BY <1>4, <1>5, <2>1
  <1>10. f[n] = TermStep(f[n - 1], s[n]) /\ g[n] = TermStep(g[n - 1], z[n]) /\ s[n] = z[n]
    BY <1>9 DEF Trace
  <1> QED BY <1>4, <1>8, <1>10, Zenon

\* Every sequence of bytes has its trace.
LEMMA TraceExists ==
  ASSUME NEW t \in Terminals, NEW s \in Seq(Bytes)
  PROVE \E f \in [0 .. Len(s) -> Terminals] : Trace(f, t, s)
  <1> DEFINE Part(n, f) == f[0] = t /\ \A i \in 1 .. n : f[i] = TermStep(f[i - 1], s[i])
             Bad == {n \in 0 .. Len(s) : ~\E f \in [0 .. n -> Terminals] : Part(n, f)}
  <1>1. Len(s) \in Nat /\ \A i \in 1 .. Len(s) : s[i] \in Bytes
    OBVIOUS
  <1>2. SUFFICES Bad = {}
    <2>1. Len(s) \in 0 .. Len(s)
      BY <1>1
    <2>2. PICK f \in [0 .. Len(s) -> Terminals] : Part(Len(s), f)
      BY <1>2, <2>1
    <2> QED BY <2>2 DEF Trace
  <1>3. SUFFICES ASSUME Bad # {} PROVE FALSE
    OBVIOUS
  <1>4. PICK n \in Bad : \A k \in Bad : n <= k
    <2>1. Bad \subseteq Nat
      OBVIOUS
    <2> HIDE DEF Bad
    <2> QED BY <1>3, <2>1, LeastNumber
  <1>5. n \in 0 .. Len(s) /\ ~\E f \in [0 .. n -> Terminals] : Part(n, f)
    BY <1>4
  <1>6. n # 0
    <2>1. SUFFICES ASSUME n = 0 PROVE FALSE
      OBVIOUS
    <2> DEFINE f == [i \in 0 .. 0 |-> t]
    <2>2. f \in [0 .. 0 -> Terminals] /\ f[0] = t
      OBVIOUS
    <2>3. Part(0, f)
      BY <2>2
    <2> QED BY <1>5, <2>1, <2>2, <2>3
  <1>7. n - 1 \in 0 .. Len(s) /\ ~(n <= n - 1) /\ n \in 1 .. Len(s)
    BY <1>1, <1>5, <1>6
  <1>8. PICK g \in [0 .. n - 1 -> Terminals] : Part(n - 1, g)
    <2>1. n - 1 \notin Bad
      BY <1>4, <1>7
    <2> QED BY <1>7, <2>1
  <1> DEFINE f == [i \in 0 .. n |-> IF i = n THEN TermStep(g[n - 1], s[n]) ELSE g[i]]
  <1>9. TermStep(g[n - 1], s[n]) \in Terminals
    <2>1. n - 1 \in 0 .. n - 1 /\ s[n] \in Bytes
      BY <1>1, <1>7
    <2>2. g[n - 1] \in Terminals
      BY <2>1
    <2> QED BY <2>1, <2>2, TermSteps
  <1>10. f \in [0 .. n -> Terminals]
    <2>1. \A i \in 0 .. n : i # n => i \in 0 .. n - 1
      BY <1>7
    <2> QED BY <1>9, <2>1
  <1>11. f[n] = TermStep(g[n - 1], s[n]) /\ \A i \in 0 .. n - 1 : f[i] = g[i]
    BY <1>7
  <1> HIDE DEF f
  <1>12. f[0] = t
    <2>1. 0 \in 0 .. n - 1
      BY <1>7
    <2> QED BY <1>8, <1>11, <2>1
  <1>13. ASSUME NEW i \in 1 .. n PROVE f[i] = TermStep(f[i - 1], s[i])
    <2>1. i - 1 \in 0 .. n - 1
      BY <1>7
    <2>2. f[i - 1] = g[i - 1]
      BY <1>11, <2>1
    <2>3. CASE i = n
      BY <1>11, <2>2, <2>3
    <2>4. CASE i # n
      <3>1. i \in 0 .. n - 1 /\ i \in 1 .. n - 1
        BY <1>7, <2>4
      <3>2. f[i] = g[i] /\ g[i] = TermStep(g[i - 1], s[i])
        BY <1>8, <1>11, <3>1
      <3> QED BY <2>2, <3>2
    <2> QED BY <2>3, <2>4
  <1>14. Part(n, f)
    BY <1>12, <1>13
  <1> QED BY <1>5, <1>10, <1>14

\* TermRead is the last place of the trace.
LEMMA ReadIsLast ==
  ASSUME NEW t \in Terminals, NEW s \in Seq(Bytes), NEW f, Trace(f, t, s)
  PROVE TermRead(t, s) = f[Len(s)] /\ TermRead(t, s) \in Terminals
  <1> DEFINE g == CHOOSE h : h = [n \in 0 .. Len(s) |-> IF n = 0 THEN t ELSE TermStep(h[n - 1], s[n])]
  <1>1. Len(s) \in Nat
    OBVIOUS
  <1>2. PICK e \in [0 .. Len(s) -> Terminals] : Trace(e, t, s)
    BY TraceExists
  <1>3. e = [n \in 0 .. Len(s) |-> IF n = 0 THEN t ELSE TermStep(e[n - 1], s[n])]
    <2> DEFINE h == [n \in 0 .. Len(s) |-> IF n = 0 THEN t ELSE TermStep(e[n - 1], s[n])]
    <2>1. \A n \in 0 .. Len(s) : e[n] = h[n]
      <3> SUFFICES ASSUME NEW n \in 0 .. Len(s) PROVE e[n] = h[n]
        OBVIOUS
      <3>1. CASE n = 0
        BY <1>2, <3>1 DEF Trace
      <3>2. CASE n # 0
        <4>1. n \in 1 .. Len(s)
          BY <3>2
        <4> QED BY <1>2, <3>2, <4>1 DEF Trace
      <3> QED BY <3>1, <3>2
    <2>2. DOMAIN e = 0 .. Len(s) /\ e = [n \in DOMAIN e |-> e[n]]
      OBVIOUS
    <2> QED BY <2>1, <2>2
  <1>4. g = [n \in 0 .. Len(s) |-> IF n = 0 THEN t ELSE TermStep(g[n - 1], s[n])]
    <2>1. \E h : h = [n \in 0 .. Len(s) |-> IF n = 0 THEN t ELSE TermStep(h[n - 1], s[n])]
      BY <1>3
    <2> QED BY <2>1, Zenon
  <1>5. TermRead(t, s) = g[Len(s)]
    BY Zenon DEF TermRead
  <1> HIDE DEF g
  <1>6. Trace(g, t, s)
    <2>1. g[0] = t
      <3>1. 0 \in 0 .. Len(s)
        BY <1>1
      <3> QED BY <1>4, <3>1
    <2>2. ASSUME NEW n \in 1 .. Len(s) PROVE g[n] = TermStep(g[n - 1], s[n])
      <3>1. n \in 0 .. Len(s) /\ n # 0
        BY <1>1
      <3> QED BY <1>4, <3>1
    <2> QED BY <2>1, <2>2 DEF Trace
  <1>7. Len(s) \in 0 .. Len(s) /\ Len(s) <= Len(s)
    BY <1>1
  <1>8. g[Len(s)] = f[Len(s)] /\ g[Len(s)] = e[Len(s)]
    <2>1. \A i \in 1 .. Len(s) : s[i] = s[i]
      OBVIOUS
    <2>2. \A n \in 0 .. Len(s) : g[n] = f[n]
      BY <1>1, <1>6, <1>7, TracesAgree
    <2>3. \A n \in 0 .. Len(s) : g[n] = e[n]
      BY <1>1, <1>2, <1>6, <1>7, TracesAgree
    <2> QED BY <1>7, <2>2, <2>3
  <1>9. e[Len(s)] \in Terminals
    BY <1>7
  <1> QED BY <1>5, <1>8, <1>9

\* Reading nothing.
LEMMA ReadNothing == ASSUME NEW t \in Terminals PROVE TermRead(t, <<>>) = t
  <1> DEFINE f == [n \in 0 .. 0 |-> t]
  <1>1. <<>> \in Seq(Bytes) /\ Len(<<>>) = 0
    OBVIOUS
  <1>2. f[0] = t
    OBVIOUS
  <1> HIDE DEF f
  <1>3. Trace(f, t, <<>>)
    BY <1>1, <1>2 DEF Trace
  <1>4. TermRead(t, <<>>) = f[Len(<<>>)]
    BY <1>1, <1>3, ReadIsLast
  <1> QED BY <1>1, <1>2, <1>4, Zenon

\* Reading one byte more.
LEMMA ReadMore ==
  ASSUME NEW t \in Terminals, NEW s \in Seq(Bytes), NEW b \in Bytes
  PROVE TermRead(t, Append(s, b)) = TermStep(TermRead(t, s), b)
  <1> DEFINE z == Append(s, b)
  <1>1. PICK n \in Nat : n = Len(s)
    OBVIOUS
  <1>2. z \in Seq(Bytes) /\ Len(z) = n + 1 /\ z[n + 1] = b /\ \A i \in 1 .. n : z[i] = s[i]
    BY <1>1
  <1> HIDE DEF z
  <1>3. PICK f \in [0 .. Len(z) -> Terminals] : Trace(f, t, z)
    BY <1>2, TraceExists
  <1>4. Trace(f, t, s)
    <2>1. ASSUME NEW i \in 1 .. Len(s) PROVE f[i] = TermStep(f[i - 1], s[i])
      <3>1. i \in 1 .. Len(z) /\ z[i] = s[i]
        BY <1>1, <1>2
      <3> QED BY <1>3, <3>1 DEF Trace
    <2> QED BY <1>3, <2>1 DEF Trace
  <1>5. TermRead(t, z) = f[n + 1] /\ TermRead(t, s) = f[n]
    <2>1. TermRead(t, z) = f[Len(z)]
      BY <1>2, <1>3, ReadIsLast
    <2>2. TermRead(t, s) = f[Len(s)]
      BY <1>4, ReadIsLast
    <2> QED BY <1>1, <1>2, <2>1, <2>2
  <1>6. f[n + 1] = TermStep(f[n], b)
    <2>1. n + 1 \in 1 .. Len(z) /\ (n + 1) - 1 = n
      BY <1>2
    <2>2. f[n + 1] = TermStep(f[(n + 1) - 1], z[n + 1])
      BY <1>3, <2>1 DEF Trace
    <2> QED BY <1>2, <2>1, <2>2
  <1> QED BY <1>5, <1>6 DEF z

\* Reading one part after the other.
LEMMA ReadParts ==
  ASSUME NEW t \in Terminals, NEW x \in Seq(Bytes), NEW y \in Seq(Bytes)
  PROVE TermRead(t, x \o y) = TermRead(TermRead(t, x), y) /\ TermRead(t, x) \in Terminals
  <1> DEFINE z == x \o y
  <1>1. PICK m \in Nat, n \in Nat : m = Len(x) /\ n = Len(y)
    OBVIOUS
  <1>2. z \in Seq(Bytes) /\ Len(z) = m + n
    BY <1>1, ConcatProperties
  <1>3. /\ \A i \in 1 .. m : z[i] = x[i]
        /\ \A i \in 1 .. n : z[m + i] = y[i]
    <2>1. \A i \in 1 .. m + n : z[i] = IF i <= m THEN x[i] ELSE y[i - m]
      BY <1>1, Concatenated
    <2> HIDE DEF z
    <2>2. \A i \in 1 .. m : i \in 1 .. m + n /\ i <= m
      OBVIOUS
    <2>3. \A i \in 1 .. n : m + i \in 1 .. m + n /\ ~(m + i <= m) /\ (m + i) - m = i
      OBVIOUS
    <2> QED BY <2>1, <2>2, <2>3
  <1> HIDE DEF z
  <1>4. PICK f \in [0 .. Len(z) -> Terminals] : Trace(f, t, z)
    BY <1>2, TraceExists
  <1>5. Trace(f, t, x)
    <2>1. ASSUME NEW i \in 1 .. Len(x) PROVE f[i] = TermStep(f[i - 1], x[i])
      <3>1. i \in 1 .. Len(z) /\ z[i] = x[i]
        BY <1>1, <1>2, <1>3
      <3> QED BY <1>4, <3>1 DEF Trace
    <2> QED BY <1>4, <2>1 DEF Trace
  <1>6. TermRead(t, z) = f[m + n] /\ TermRead(t, x) = f[m] /\ TermRead(t, x) \in Terminals
    <2>1. TermRead(t, z) = f[Len(z)]
      BY <1>2, <1>4, ReadIsLast
    <2>2. TermRead(t, x) = f[Len(x)] /\ TermRead(t, x) \in Terminals
      BY <1>5, ReadIsLast
    <2> QED BY <1>1, <1>2, <2>1, <2>2
  <1> DEFINE g == [i \in 0 .. n |-> f[m + i]]
  <1>7. g[0] = f[m] /\ g[n] = f[m + n]
    <2>1. 0 \in 0 .. n /\ n \in 0 .. n /\ m + 0 = m
      OBVIOUS
    <2> QED BY <2>1
  <1>8. Trace(g, f[m], y)
    <2>1. ASSUME NEW i \in 1 .. Len(y) PROVE g[i] = TermStep(g[i - 1], y[i])
      <3>1. /\ i \in 0 .. n /\ i - 1 \in 0 .. n /\ i \in 1 .. n
            /\ m + i \in 1 .. Len(z) /\ m + (i - 1) = (m + i) - 1
        BY <1>1, <1>2
      <3>2. g[i] = f[m + i] /\ g[i - 1] = f[m + (i - 1)]
        BY <3>1
      <3>3. f[m + i] = TermStep(f[(m + i) - 1], z[m + i])
        BY <1>4, <3>1 DEF Trace
      <3> HIDE DEF g
      <3> QED BY <1>3, <3>1, <3>2, <3>3
    <2> HIDE DEF g
    <2> QED BY <1>7, <2>1 DEF Trace
  <1> HIDE DEF g
  <1>9. TermRead(f[m], y) = g[Len(y)]
    BY <1>6, <1>8, ReadIsLast
  <1>10. TermRead(TermRead(t, x), y) = TermRead(t, z)
    BY <1>1, <1>6, <1>7, <1>9
  <1> QED BY <1>6, <1>10 DEF z
-----------------------------------------------------------------------------
(* What one byte does to the parser's state, whatever becomes of the byte. *)

\* The parser counts characters in the ground state, a string alone has a kind, and
\* the control string of a graphics command is taken up as soon as it is done.
OrderlyParser(q) ==
  /\ q.state # "ground" => q.utf = 0
  /\ (q.state = "string") = (q.kind # "none")
  /\ q.kind = "kitty" /\ q.ctl.done = TRUE => q.open = ("m" \in q.ctl.fields)

\* A byte of the ground state.
LEMMA GroundControl ==
  ASSUME NEW q \in Parser, Framed(q), q.state = "ground", NEW b \in Bytes, NEW r, r = inGround(q, b)
  PROVE /\ r.kind = q.kind /\ r.esc = q.esc /\ r.ctl = q.ctl /\ r.open = q.open
        /\ b = ESC => r.state = "esc" /\ r.utf = 0
        /\ b # ESC => r.state = "ground" /\ r.utf = utf8After(q.utf, b)
  <1>1. q.pending = <<>> /\ q.utf \in Nat
    BY ParserFields DEF Framed
  <1>2. CASE b = ESC
    <2> DEFINE e == [q EXCEPT !.state = "esc", !.utf = 0]
    <2>1. r = hold(e, b)
      BY <1>2 DEF inGround
    <2>2. e \in Parser
      BY DEF Parser
    <2>3. /\ e.state = "esc" /\ e.utf = 0 /\ e.kind = q.kind /\ e.esc = q.esc /\ e.ctl = q.ctl
          /\ e.open = q.open /\ e.pending = <<>>
      BY <1>1 DEF Parser
    <2> HIDE DEF e
    <2>4. OneKept(e)
      BY <2>3 DEF OneKept
    <2>5. Same(r, e)
      BY <2>1, <2>2, <2>4, ByteHeld
    <2> QED BY <1>2, <2>3, <2>5 DEF Same
  <1>3. CASE b # ESC
    <2> DEFINE n == utf8After(q.utf, b)
               e == [q EXCEPT !.utf = n]
    <2>1. r = stream(e, b)
      BY <1>3 DEF inGround
    <2>2. n \in Nat
      BY <1>1, UtfNatural
    <2> HIDE DEF n
    <2>3. e \in Parser
      BY <2>2 DEF Parser
    <2>4. /\ e.state = "ground" /\ e.utf = n /\ e.kind = q.kind /\ e.esc = q.esc /\ e.ctl = q.ctl
          /\ e.open = q.open /\ e.pending = <<>>
      BY <1>1 DEF Parser
    <2> HIDE DEF e
    <2>5. Same(r, e)
      BY <2>1, <2>3, <2>4, ByteStreamed
    <2> QED BY <1>3, <2>4, <2>5 DEF Same, n
  <1> QED BY <1>2, <1>3

\* A byte of a sequence.
LEMMA SequenceControl ==
  ASSUME NEW q \in Parser, Framed(q), q.state \in {"esc-int", "csi"}, NEW b \in Bytes, NEW r,
         r = IF q.state = "csi" THEN inCsi(q, b) ELSE inEscInt(q, b)
  PROVE /\ r.kind = q.kind /\ r.esc = q.esc /\ r.ctl = q.ctl /\ r.open = q.open /\ r.utf = q.utf
        /\ b = ESC => r.state = "esc"
        /\ b # ESC /\ q.state = "csi" => r.state = IF b \in Final THEN "ground" ELSE "csi"
        /\ b # ESC /\ q.state = "esc-int" => r.state = IF b = "sp" THEN "esc-int" ELSE "ground"
  <1>1. q.pending = <<>>
    BY DEF Framed
  <1>2. PICK st \in {"esc", "esc-int", "csi", "ground"} :
          /\ b = ESC => st = "esc"
          /\ b # ESC /\ q.state = "csi" => st = IF b \in Final THEN "ground" ELSE "csi"
          /\ b # ESC /\ q.state = "esc-int" => st = IF b = "sp" THEN "esc-int" ELSE "ground"
    OBVIOUS
  <1> DEFINE e == [q EXCEPT !.state = st]
  <1>3. r = hold(e, b) \/ r = stream(e, b)
    <2>1. CASE b = ESC
      BY <1>2, <2>1 DEF inCsi, inEscInt
    <2>2. CASE b # ESC /\ q.state = "csi"
      BY <1>2, <2>2 DEF inCsi
    <2>3. CASE b # ESC /\ q.state = "esc-int"
      BY <1>2, <2>3 DEF inEscInt
    <2> QED BY <2>1, <2>2, <2>3
  <1>4. e \in Parser
    BY DEF Parser
  <1>5. /\ e.state = st /\ e.utf = q.utf /\ e.kind = q.kind /\ e.esc = q.esc /\ e.ctl = q.ctl
        /\ e.open = q.open /\ e.pending = <<>>
    BY <1>1 DEF Parser
  <1> HIDE DEF e
  <1>6. OneKept(e)
    BY <1>5 DEF OneKept
  <1>7. Same(r, e)
    BY <1>3, <1>4, <1>5, <1>6, ByteHeld, ByteStreamed
  <1> QED BY <1>2, <1>5, <1>7 DEF Same

\* The byte after the ESC that begins a sequence.
LEMMA EscControl ==
  ASSUME NEW q \in Parser, q.state = "esc", q.esc = FALSE, q.pending = <<ESC>>, q.run = <<>>,
         NEW b \in Bytes, NEW r, r = inEsc(q, b)
  PROVE /\ r.esc = FALSE /\ r.ctl = q.ctl /\ r.open = q.open /\ r.utf = q.utf
        /\ b = ESC => r.state = "esc" /\ r.kind = q.kind
        /\ b # ESC => r.state = Opener(b) /\ r.kind = OpenerKind(b)
  <1>1. CASE b = "_"
    <2> DEFINE e == [q EXCEPT !.state = "string", !.kind = "apc-intro"]
    <2>1. r = hold(e, b)
      BY <1>1 DEF inEsc, ESC
    <2>2. e \in Parser
      BY DEF Parser
    <2>3. /\ e.state = "string" /\ e.kind = "apc-intro" /\ e.esc = FALSE /\ e.ctl = q.ctl
          /\ e.open = q.open /\ e.utf = q.utf /\ e.run = <<>>
      BY DEF Parser
    <2> HIDE DEF e
    <2>4. OneKept(e)
      BY <2>3 DEF OneKept
    <2>5. Same(r, e)
      BY <2>1, <2>2, <2>4, ByteHeld
    <2> QED BY <1>1, <2>3, <2>5 DEF Same, Opener, OpenerKind, ESC
  <1>2. CASE b = ESC
    <2> DEFINE e == releasePending(q)
    <2>1. r = hold(e, b)
      BY <1>2 DEF inEsc, ESC
    <2>2. e \in Parser /\ Same(e, q) /\ e.pending = <<>>
      BY PendingReleased
    <2> HIDE DEF e
    <2>3. OneKept(e)
      BY <2>2 DEF OneKept
    <2>4. Same(r, e)
      BY <2>1, <2>2, <2>3, ByteHeld
    <2> QED BY <1>2, <2>2, <2>4 DEF Same
  <1>3. CASE b # "_" /\ b # ESC
    <2> DEFINE a == pushAndRelease(q, b)
    <2>1. r = [a EXCEPT !.state = openerState(b), !.kind = openerKind(b)]
      BY <1>3 DEF inEsc
    <2>2. a \in Parser /\ Same(a, q)
      BY ByteReleased
    <2> HIDE DEF a
    <2>3. /\ r.state = openerState(b) /\ r.kind = openerKind(b) /\ r.esc = a.esc /\ r.ctl = a.ctl
          /\ r.open = a.open /\ r.utf = a.utf
      BY <2>1, <2>2 DEF Parser
    <2> QED BY <1>3, <2>2, <2>3 DEF Same, Opener, OpenerKind
  <1> QED BY <1>1, <1>2, <1>3

\* The same of the operator itself.
LEMMA EscControls ==
  ASSUME NEW q \in Parser, q.state = "esc", q.esc = FALSE, q.pending = <<ESC>>, q.run = <<>>,
         NEW b \in Bytes
  PROVE /\ inEsc(q, b).esc = FALSE /\ inEsc(q, b).ctl = q.ctl
        /\ inEsc(q, b).open = q.open /\ inEsc(q, b).utf = q.utf
        /\ b = ESC => inEsc(q, b).state = "esc" /\ inEsc(q, b).kind = q.kind
        /\ b # ESC => inEsc(q, b).state = Opener(b) /\ inEsc(q, b).kind = OpenerKind(b)
  BY EscControl

\* The ESC was no terminator.
Reopens(r, q, b) ==
  /\ r.esc = FALSE /\ r.ctl = q.ctl /\ r.open = q.open /\ r.utf = q.utf
  /\ b = ESC => r.state = "esc" /\ r.kind = "none"
  /\ b # ESC => r.state = Opener(b) /\ r.kind = OpenerKind(b)

LEMMA AbortControl ==
  ASSUME NEW q \in Parser, OneKept(q), Framed(q), q.esc = TRUE, NEW b \in Bytes,
         NEW r, r = abortStringToEsc(q, b)
  PROVE Reopens(r, q, b)
  <1> DEFINE front == Front(q.pending)
             e == [q EXCEPT !.pending = front]
             f == releasePending(e)
             g == [f EXCEPT !.pending = <<Last(q.pending)>>, !.esc = FALSE,
                            !.kind = "none", !.state = "esc"]
  <1>1. r = inEsc(g, b)
    BY DEF abortStringToEsc
  <1>2. q.run = <<>> /\ Len(q.pending) >= 1 /\ q.pending[Len(q.pending)] = ESC
    BY EscIsLast
  <1>3. Last(q.pending) = ESC /\ ESC \in Bytes
    BY <1>2 DEF Last, Bytes
  <1>4. front \in Seq(Bytes)
    <2>1. q.pending \in Seq(Bytes)
      BY ParserFields
    <2> QED BY <1>2, <2>1 DEF Front
  <1> HIDE DEF front
  <1>5. e \in Parser
    BY <1>4 DEF Parser
  <1>6. /\ e.run = <<>> /\ e.ctl = q.ctl /\ e.open = q.open /\ e.utf = q.utf
    BY <1>2 DEF Parser
  <1> HIDE DEF e
  <1>7. f \in Parser /\ Same(f, e) /\ f.run = <<>>
    BY <1>5, <1>6, PendingReleased
  <1> HIDE DEF f
  <1>8. <<ESC>> \in Seq(Bytes)
    BY <1>3
  <1>9. g \in Parser
    BY <1>3, <1>7, <1>8 DEF Parser
  <1>10. /\ g.state = "esc" /\ g.kind = "none" /\ g.esc = FALSE /\ g.pending = <<ESC>>
         /\ g.run = <<>> /\ g.ctl = f.ctl /\ g.open = f.open /\ g.utf = f.utf
    BY <1>3, <1>7 DEF Parser
  <1> HIDE DEF g
  <1>11. /\ inEsc(g, b).esc = FALSE /\ inEsc(g, b).ctl = g.ctl
         /\ inEsc(g, b).open = g.open /\ inEsc(g, b).utf = g.utf
         /\ b = ESC => inEsc(g, b).state = "esc" /\ inEsc(g, b).kind = g.kind
         /\ b # ESC => inEsc(g, b).state = Opener(b) /\ inEsc(g, b).kind = OpenerKind(b)
    BY <1>9, <1>10, EscControls, Zenon
  <1> QED BY <1>1, <1>6, <1>7, <1>10, <1>11 DEF Same, Reopens

\* The control string read, or closed by the end of the command.
LEMMA KittyControl ==
  ASSUME NEW q \in Parser, NEW b \in Bytes
  PROVE /\ kittyByte(q, b).ctl = TermControl(q.ctl, b) /\ kittyByte(q, b).utf = q.utf
        /\ (q.ctl.done = TRUE => q.open = ("m" \in q.ctl.fields)) =>
             (kittyByte(q, b).ctl.done = TRUE =>
                kittyByte(q, b).open = ("m" \in kittyByte(q, b).ctl.fields))
        /\ finishKittyControl(q).utf = q.utf
        /\ finishKittyControl(q).open = IF q.ctl.done = TRUE THEN q.open ELSE "m" \in q.ctl.fields
  <1>1. q.ctl \in Control /\ q.ctl.done \in BOOLEAN
    BY ParserFields DEF Control
  <1>2. ASSUME NEW t \in Parser
        PROVE /\ applyKittyControl(t) \in Parser /\ applyKittyControl(t).utf = t.utf
              /\ applyKittyControl(t).ctl = t.ctl /\ applyKittyControl(t).open = ("m" \in t.ctl.fields)
    <2>1. PICK o \in BOOLEAN : o = ("m" \in t.ctl.fields)
      <3>1. ("m" \in t.ctl.fields) \in BOOLEAN
        OBVIOUS
      <3> WITNESS ("m" \in t.ctl.fields) \in BOOLEAN
      <3> QED OBVIOUS
    <2>2. applyKittyControl(t) = [t EXCEPT !.open = o]
      BY <2>1 DEF applyKittyControl
    <2>3. [t EXCEPT !.open = o] \in Parser
      BY DEF Parser
    <2>4. [t EXCEPT !.open = o].open = o /\ [t EXCEPT !.open = o].utf = t.utf
          /\ [t EXCEPT !.open = o].ctl = t.ctl
      BY DEF Parser
    <2> QED BY <2>1, <2>2, <2>3, <2>4
  <1>3. /\ finishKittyControl(q).utf = q.utf
        /\ finishKittyControl(q).open = IF q.ctl.done = TRUE THEN q.open ELSE "m" \in q.ctl.fields
    <2> DEFINE t == IF q.ctl.done THEN q ELSE applyKittyControl(q)
    <2>1. t \in Parser /\ t.utf = q.utf
          /\ t.open = IF q.ctl.done = TRUE THEN q.open ELSE "m" \in q.ctl.fields
      BY <1>1, <1>2
    <2>2. finishKittyControl(q) = [t EXCEPT !.ctl = NoControl]
      BY DEF finishKittyControl
    <2> HIDE DEF t
    <2>3. finishKittyControl(q).utf = t.utf /\ finishKittyControl(q).open = t.open
      BY <2>1, <2>2 DEF Parser
    <2> QED BY <2>1, <2>3
  <1>4. CASE q.ctl.done = TRUE
    <2>1. kittyByte(q, b) = q
      BY <1>4 DEF kittyByte
    <2>2. TermControl(q.ctl, b) = q.ctl
      BY <1>1, <1>4 DEF TermControl, Control
    <2> QED BY <1>3, <2>1, <2>2
  <1>5. CASE q.ctl.done = FALSE /\ b = ";"
    <2> DEFINE c == [q.ctl EXCEPT !.done = TRUE]
               t == [q EXCEPT !.ctl = c]
    <2>1. kittyByte(q, b) = applyKittyControl(t)
      BY <1>5 DEF kittyByte
    <2>2. c \in Control /\ c = TermControl(q.ctl, b)
      BY <1>1, <1>5 DEF Control, TermControl
    <2> HIDE DEF c
    <2>3. t \in Parser
      BY <2>2 DEF Parser
    <2>4. t.ctl = c /\ t.utf = q.utf
      BY DEF Parser
    <2> HIDE DEF t
    <2> QED BY <1>2, <1>3, <2>1, <2>2, <2>3, <2>4
  <1>6. CASE q.ctl.done = FALSE /\ b # ";"
    <2> DEFINE c == [q.ctl EXCEPT !.fields = @ \cup ({b} \cap {"m"})]
               t == [q EXCEPT !.ctl = c]
    <2>1. kittyByte(q, b) = t
      BY <1>6 DEF kittyByte
    <2>2. c \in Control /\ c = TermControl(q.ctl, b) /\ c.done = FALSE
      BY <1>1, <1>6 DEF Control, TermControl
    <2> HIDE DEF c
    <2>3. t.ctl = c /\ t.utf = q.utf
      BY DEF Parser
    <2> HIDE DEF t
    <2> QED BY <1>3, <2>1, <2>2, <2>3
  <1> QED BY <1>1, <1>4, <1>5, <1>6

\* The terminator of a string.
LEMMA EndControl ==
  ASSUME NEW q \in Parser, OneKept(q), Framed(q), q.esc = TRUE, NEW r, r = endString(q, "bslash")
  PROVE /\ r.state = "ground" /\ r.kind = "none" /\ r.esc = FALSE /\ r.utf = q.utf
        /\ r.open = IF q.kind # "kitty" \/ q.ctl.done = TRUE THEN q.open ELSE "m" \in q.ctl.fields
  <1> DEFINE b == "bslash"
             e == [q EXCEPT !.state = "ground", !.kind = "none", !.esc = FALSE]
  <1>1. b \in Bytes /\ q.run = <<>> /\ q.committed \in BOOLEAN
    BY EscIsLast, ParserFields DEF Bytes, Final
  <1>2. e \in Parser
    BY DEF Parser
  <1>3. /\ e.state = "ground" /\ e.kind = "none" /\ e.esc = FALSE /\ e.utf = q.utf /\ e.ctl = q.ctl
        /\ e.open = q.open /\ e.run = <<>>
    BY <1>1 DEF Parser
  <1>4. CASE q.kind = "marker" /\ q.committed = TRUE
    <2>1. r = [e EXCEPT !.swallowed = Append(q.pending, b), !.pending = <<>>,
                        !.committed = FALSE, !.pos = 0, !.run = <<>>]
      BY <1>4 DEF endString
    <2> HIDE DEF e
    <2>2. /\ r.state = e.state /\ r.kind = e.kind /\ r.esc = e.esc /\ r.utf = e.utf /\ r.open = e.open
      BY <1>2, <2>1 DEF Parser
    <2> QED BY <1>3, <1>4, <2>2
  <1>5. CASE q.kind = "marker" /\ q.committed = FALSE
    <2>1. r = pushAndRelease(e, b)
      BY <1>5 DEF endString
    <2> HIDE DEF e
    <2>2. Same(r, e)
      BY <1>1, <1>2, <1>3, <2>1, ByteReleased
    <2> QED BY <1>3, <1>5, <2>2 DEF Same
  <1>6. CASE q.kind # "marker"
    <2> DEFINE f == releasePending(e)
               x == stream(f, b)
    <2>1. r = IF q.kind = "kitty" THEN finishKittyControl(x) ELSE x
      BY <1>6 DEF endString
    <2> HIDE DEF e
    <2>2. f \in Parser /\ Same(f, e) /\ f.pending = <<>>
      BY <1>2, PendingReleased
    <2> HIDE DEF f
    <2>3. x \in Parser /\ Same(x, f)
      BY <1>1, <2>2, ByteStreamed
    <2> HIDE DEF x
    <2>4. CASE q.kind # "kitty"
      BY <1>3, <2>1, <2>2, <2>3, <2>4 DEF Same
    <2>5. CASE q.kind = "kitty"
      <3>1. r = finishKittyControl(x)
        BY <2>1, <2>5
      <3>2. r.state = x.state /\ r.kind = x.kind /\ r.esc = x.esc
        BY <1>1, <2>3, <3>1, ControlRead
      <3>3. /\ r.utf = x.utf
            /\ r.open = IF x.ctl.done = TRUE THEN x.open ELSE "m" \in x.ctl.fields
        BY <1>1, <2>3, <3>1, KittyControl
      <3>4. x.ctl = q.ctl /\ x.open = q.open /\ x.utf = q.utf
        BY <1>3, <2>2, <2>3 DEF Same
      <3> QED BY <1>3, <2>2, <2>3, <2>5, <3>2, <3>3, <3>4 DEF Same
    <2> QED BY <2>4, <2>5
  <1> QED BY <1>1, <1>4, <1>5, <1>6

\* A byte inside a string, the ESC aside.
StringTaken(r, q, b) ==
  /\ r.esc = FALSE /\ r.utf = q.utf
  /\ q.kind = "osc" /\ b = "bel" => r.state = "ground" /\ r.kind = "none"
  /\ ~(q.kind = "osc" /\ b = "bel") => r.state = "string"
  /\ q.kind # "kitty" => r.open = q.open
  /\ q.kind = "apc-intro" =>
       /\ r.kind = IF b = "M" THEN "marker" ELSE IF b = "G" THEN "kitty" ELSE "apc"
       /\ b = "G" => r.ctl = NoControl
  /\ q.kind = "marker" => r.kind \in {"marker", "apc"}
  /\ q.kind \notin {"apc-intro", "marker"} /\ ~(q.kind = "osc" /\ b = "bel") => r.kind = q.kind
  /\ q.kind = "kitty" =>
       /\ r.ctl = TermControl(q.ctl, b)
       /\ r.ctl.done = TRUE => r.open = ("m" \in r.ctl.fields)

LEMMA StringControl ==
  ASSUME NEW q \in Parser, OneKept(q), Framed(q), OrderlyParser(q), q.state = "string", q.esc = FALSE,
         NEW b \in Bytes, b # ESC, NEW r, r = inString(q, b)
  PROVE StringTaken(r, q, b)
  <1>1. r =
          CASE q.kind = "apc-intro" -> apcIntro(q, b)
            [] q.kind = "marker"    -> markerByte(q, b)
            [] q.kind = "kitty"     -> stream(kittyByte(q, b), b)
            [] q.kind = "osc" /\ b = "bel" ->
                 stream([q EXCEPT !.state = "ground", !.kind = "none"], b)
            [] OTHER -> stream(q, b)
    BY DEF inString
  <1>2. CASE q.kind = "apc-intro"
    <2>1. r = apcIntro(q, b)
      BY <1>1, <1>2
    <2>2. CASE b = "M"
      <3>1. PICK c \in BOOLEAN : c = (Prefix = <<>>)
        <4>1. (Prefix = <<>>) \in BOOLEAN
          OBVIOUS
        <4> WITNESS (Prefix = <<>>) \in BOOLEAN
        <4> QED OBVIOUS
      <3> DEFINE e == [q EXCEPT !.kind = "marker", !.committed = c, !.pos = 0]
      <3>2. r = hold(e, b)
        BY <2>1, <2>2, <3>1 DEF apcIntro
      <3>3. e \in Parser
        BY DEF Parser
      <3>4. /\ e.state = "string" /\ e.kind = "marker" /\ e.esc = FALSE /\ e.utf = q.utf
            /\ e.open = q.open /\ e.pending = q.pending /\ e.run = q.run
        BY DEF Parser
      <3> HIDE DEF e
      <3>5. OneKept(e)
        BY <3>4, Zenon DEF OneKept
      <3>6. Same(r, e)
        BY <3>2, <3>3, <3>5, ByteHeld
      <3> QED BY <1>2, <2>2, <3>4, <3>6 DEF Same, StringTaken
    <2>3. CASE b # "M"
      <3> DEFINE a == pushAndRelease(q, b)
      <3>1. q.run = <<>>
        <4>1. q.pending = <<ESC, "_">>
          BY <1>2 DEF Framed
        <4>2. Len(<<ESC, "_">>) = 2 /\ Len(<<>>) = 0
          OBVIOUS
        <4>3. Len(<<ESC, "_">>) # Len(<<>>)
          BY <4>2
        <4>4. q.pending # <<>>
          BY <4>1, <4>3, Zenon
        <4> QED BY <4>4 DEF OneKept
      <3>2. a \in Parser /\ Same(a, q)
        BY <3>1, ByteReleased
      <3>3. r = IF b = "G" THEN [a EXCEPT !.kind = "kitty", !.ctl = NoControl] ELSE [a EXCEPT !.kind = "apc"]
        BY <2>1, <2>3 DEF apcIntro
      <3> HIDE DEF a
      <3>4. /\ r.state = a.state /\ r.esc = a.esc /\ r.utf = a.utf /\ r.open = a.open
            /\ r.kind = IF b = "G" THEN "kitty" ELSE "apc"
            /\ b = "G" => r.ctl = NoControl
        BY <3>2, <3>3 DEF Parser
      <3> QED BY <1>2, <2>3, <3>2, <3>4 DEF Same, StringTaken
    <2> QED BY <2>2, <2>3
  <1>3. CASE q.kind = "marker"
    <2>1. r = markerByte(q, b)
      BY <1>1, <1>3
    <2> DEFINE h == hold(q, b)
               f == releasePending(h)
    <2>2. h \in Parser /\ Same(h, q)
      BY ByteHeld
    <2>3. \/ r = [f EXCEPT !.kind = "apc"] \/ r = h
          \/ r = [h EXCEPT !.pos = @ + 1, !.committed = q.pos + 1 = Len(Prefix)]
      BY <2>1 DEF markerByte
    <2>4. f \in Parser /\ Same(f, h)
      BY <2>2, PendingReleased
    <2> HIDE DEF h, f
    <2>5. r.state = q.state /\ r.esc = q.esc /\ r.utf = q.utf /\ r.open = q.open
          /\ r.kind \in {"marker", "apc"}
      <3>1. CASE r = [f EXCEPT !.kind = "apc"]
        <4>1. r.state = f.state /\ r.esc = f.esc /\ r.utf = f.utf /\ r.open = f.open /\ r.kind = "apc"
          BY <2>4, <3>1 DEF Parser
        <4> QED BY <2>2, <2>4, <4>1 DEF Same
      <3>2. CASE r = h
        BY <1>3, <2>2, <3>2 DEF Same
      <3>3. CASE r = [h EXCEPT !.pos = @ + 1, !.committed = q.pos + 1 = Len(Prefix)]
        <4>1. r.state = h.state /\ r.esc = h.esc /\ r.utf = h.utf /\ r.open = h.open /\ r.kind = h.kind
          BY <2>2, <3>3 DEF Parser
        <4> QED BY <1>3, <2>2, <4>1 DEF Same
      <3> QED BY <2>3, <3>1, <3>2, <3>3
    <2> QED BY <1>3, <2>5 DEF StringTaken
  <1>4. CASE q.kind = "kitty"
    <2> DEFINE k == kittyByte(q, b)
    <2>1. r = stream(k, b)
      BY <1>1, <1>4
    <2>2. k \in Parser /\ Stays(k, q) /\ k.state = q.state /\ k.kind = q.kind /\ k.esc = q.esc
      BY ControlRead
    <2>3. /\ k.ctl = TermControl(q.ctl, b) /\ k.utf = q.utf
          /\ k.ctl.done = TRUE => k.open = ("m" \in k.ctl.fields)
      <3>1. q.ctl.done = TRUE => q.open = ("m" \in q.ctl.fields)
        BY <1>4 DEF OrderlyParser
      <3> QED BY <3>1, KittyControl
    <2> HIDE DEF k
    <2>4. k.pending = <<>>
      BY <1>4, <2>2 DEF Framed, Stays
    <2>5. Same(r, k)
      BY <2>1, <2>2, <2>4, ByteStreamed
    <2> QED BY <1>4, <2>2, <2>3, <2>5 DEF Same, StringTaken
  <1>5. CASE q.kind \notin {"apc-intro", "marker", "kitty"}
    <2>1. q.pending = <<>>
      BY <1>5 DEF Framed
    <2>2. CASE q.kind = "osc" /\ b = "bel"
      <3> DEFINE e == [q EXCEPT !.state = "ground", !.kind = "none"]
      <3>1. r = stream(e, b)
        BY <1>1, <2>2
      <3>2. e \in Parser
        BY DEF Parser
      <3>3. /\ e.state = "ground" /\ e.kind = "none" /\ e.esc = FALSE /\ e.utf = q.utf
            /\ e.open = q.open /\ e.pending = <<>>
        BY <2>1 DEF Parser
      <3> HIDE DEF e
      <3>4. Same(r, e)
        BY <3>1, <3>2, <3>3, ByteStreamed
      <3> QED BY <2>2, <3>3, <3>4 DEF Same, StringTaken
    <2>3. CASE ~(q.kind = "osc" /\ b = "bel")
      <3>1. r = stream(q, b)
        BY <1>1, <1>5, <2>3
      <3>2. Same(r, q)
        BY <2>1, <3>1, ByteStreamed
      <3> QED BY <1>5, <2>3, <3>2 DEF Same, StringTaken
    <2> QED BY <2>2, <2>3
  <1> QED BY <1>2, <1>3, <1>4, <1>5
-----------------------------------------------------------------------------
(* The same four kinds of byte, for the parser. *)

\* An ESC: the next byte begins a sequence, unless it ends the string.
EscTaken(r, q) ==
  /\ Escaped(r) /\ r.utf = 0 /\ r.open = q.open
  /\ r.kind = (IF q.state = "string" /\ q.esc = FALSE THEN q.kind ELSE "none")
  /\ r.esc = (q.state = "string" /\ q.esc = FALSE)
  /\ q.state = "string" /\ q.esc = FALSE => r.state = "string" /\ r.ctl = q.ctl
  /\ ~(q.state = "string" /\ q.esc = FALSE) => r.state = "esc"

LEMMA ByteOnEsc ==
  ASSUME NEW q \in Parser, OneKept(q), Framed(q), OrderlyParser(q), NEW r, r = byte(q, ESC)
  PROVE EscTaken(r, q)
  <1>1. q.esc \in BOOLEAN /\ q.state \in {"ground", "esc", "esc-int", "csi", "string"}
    BY ParserFields
  <1>2. ESC \in Bytes /\ ESC # "bslash"
    BY DEF Bytes, ESC
  <1>3. CASE q.state = "ground"
    <2>1. q.kind = "none" /\ q.esc = FALSE
      BY <1>1, <1>3 DEF OrderlyParser, Framed
    <2>2. r = inGround(q, ESC)
      BY <1>3 DEF byte
    <2>3. r.kind = q.kind /\ r.esc = q.esc /\ r.open = q.open /\ r.state = "esc" /\ r.utf = 0
      BY <1>2, <1>3, <2>2, GroundControl
    <2> QED BY <1>3, <2>1, <2>3 DEF Escaped, EscTaken
  <1>4. CASE q.state \in {"csi", "esc-int"}
    <2>1. q.kind = "none" /\ q.esc = FALSE /\ q.utf = 0
      BY <1>1, <1>4 DEF OrderlyParser, Framed
    <2>2. r = IF q.state = "csi" THEN inCsi(q, ESC) ELSE inEscInt(q, ESC)
      BY <1>4 DEF byte
    <2>3. r.kind = q.kind /\ r.esc = q.esc /\ r.open = q.open /\ r.state = "esc" /\ r.utf = q.utf
      BY <1>2, <1>4, <2>2, SequenceControl
    <2> QED BY <1>4, <2>1, <2>3 DEF Escaped, EscTaken
  <1>5. CASE q.state = "esc"
    <2>1. q.kind = "none" /\ q.esc = FALSE /\ q.utf = 0 /\ q.pending = <<ESC>>
      BY <1>1, <1>5 DEF OrderlyParser, Framed
    <2>2. q.run = <<>>
      <3>1. <<ESC>> # <<>>
        OBVIOUS
      <3> QED BY <2>1, <3>1, Zenon DEF OneKept
    <2>3. r = inEsc(q, ESC)
      BY <1>5 DEF byte
    <2>4. r.kind = q.kind /\ r.esc = FALSE /\ r.open = q.open /\ r.state = "esc" /\ r.utf = q.utf
      BY <1>2, <1>5, <2>1, <2>2, <2>3, EscControl
    <2> QED BY <1>5, <2>1, <2>4 DEF Escaped, EscTaken
  <1>6. CASE q.state = "string" /\ q.esc = TRUE
    <2>1. q.utf = 0
      BY <1>6 DEF OrderlyParser
    <2>2. r = abortStringToEsc(q, ESC)
      BY <1>2, <1>6 DEF byte, inString
    <2>3. Reopens(r, q, ESC)
      BY <1>2, <1>6, <2>2, AbortControl
    <2> QED BY <1>6, <2>1, <2>3 DEF Escaped, EscTaken, Reopens
  <1>7. CASE q.state = "string" /\ q.esc = FALSE
    <2> DEFINE e == [q EXCEPT !.esc = TRUE]
    <2>1. r = hold(e, ESC)
      BY <1>2, <1>7 DEF byte, inString
    <2>2. e \in Parser
      BY DEF Parser
    <2>3. /\ e.state = "string" /\ e.kind = q.kind /\ e.esc = TRUE /\ e.utf = 0 /\ e.ctl = q.ctl
          /\ e.open = q.open /\ e.pending = q.pending /\ e.run = q.run
      BY <1>7 DEF Parser, OrderlyParser
    <2> HIDE DEF e
    <2>4. OneKept(e)
      BY <2>3, Zenon DEF OneKept
    <2>5. Same(r, e)
      BY <1>2, <2>1, <2>2, <2>4, ByteHeld
    <2> QED BY <1>7, <2>3, <2>5 DEF Same, Escaped, EscTaken
  <1> QED BY <1>1, <1>3, <1>4, <1>5, <1>6, <1>7

\* The byte after an ESC: it opens a sequence, and a "\" ends what was open.
OpenerTaken(r, q, b) ==
  /\ r.esc = FALSE /\ r.utf = 0 /\ r.state = Opener(b) /\ r.kind = OpenerKind(b)
  /\ r.open = IF b = "bslash" /\ q.kind = "kitty" /\ q.ctl.done # TRUE
              THEN "m" \in q.ctl.fields ELSE q.open

LEMMA ByteEscaped ==
  ASSUME NEW q \in Parser, OneKept(q), Framed(q), OrderlyParser(q), Escaped(q),
         NEW b \in Bytes, b # ESC, NEW r, r = byte(q, b)
  PROVE OpenerTaken(r, q, b)
  <1>1. q.utf = 0
    BY DEF OrderlyParser, Escaped
  <1>2. CASE q.state = "esc"
    <2>1. q.kind = "none" /\ q.esc = FALSE /\ q.pending = <<ESC>>
      BY <1>2, ParserFields DEF OrderlyParser, Framed
    <2>2. q.run = <<>>
      <3>1. <<ESC>> # <<>>
        OBVIOUS
      <3> QED BY <2>1, <3>1, Zenon DEF OneKept
    <2>3. r = inEsc(q, b)
      BY <1>2 DEF byte
    <2>4. /\ r.esc = FALSE /\ r.open = q.open /\ r.utf = q.utf
          /\ r.state = Opener(b) /\ r.kind = OpenerKind(b)
      BY <1>2, <2>1, <2>2, <2>3, EscControl
    <2> QED BY <1>1, <2>1, <2>4 DEF OpenerTaken
  <1>3. CASE q.state = "string" /\ q.esc = TRUE /\ b # "bslash"
    <2>1. r = abortStringToEsc(q, b)
      BY <1>3 DEF byte, inString
    <2>2. Reopens(r, q, b)
      BY <1>3, <2>1, AbortControl
    <2> QED BY <1>1, <1>3, <2>2 DEF OpenerTaken, Reopens
  <1>4. CASE q.state = "string" /\ q.esc = TRUE /\ b = "bslash"
    <2>1. r = endString(q, "bslash")
      BY <1>4 DEF byte, inString
    <2>2. /\ r.state = "ground" /\ r.kind = "none" /\ r.esc = FALSE /\ r.utf = q.utf
          /\ r.open = IF q.kind # "kitty" \/ q.ctl.done = TRUE THEN q.open ELSE "m" \in q.ctl.fields
      BY <1>4, <2>1, EndControl
    <2>3. Opener(b) = "ground" /\ OpenerKind(b) = "none"
      BY <1>4, OpenerFacts
    <2> QED BY <1>1, <1>4, <2>2, <2>3 DEF OpenerTaken
  <1> QED BY <1>2, <1>3, <1>4 DEF Escaped

\* A byte of the ground state or of a sequence.
SequenceTaken(r, q, b) ==
  /\ r.kind = "none" /\ r.esc = FALSE /\ r.open = q.open
  /\ q.state = "ground" => r.state = "ground" /\ r.utf = utf8After(q.utf, b)
  /\ q.state = "csi" => r.utf = 0 /\ r.state = IF b \in Final THEN "ground" ELSE "csi"
  /\ q.state = "esc-int" => r.utf = 0 /\ r.state = IF b = "sp" THEN "esc-int" ELSE "ground"

LEMMA ByteInSequence ==
  ASSUME NEW q \in Parser, Framed(q), OrderlyParser(q), q.state \in {"ground", "csi", "esc-int"},
         NEW b \in Bytes, b # ESC, NEW r, r = byte(q, b)
  PROVE SequenceTaken(r, q, b)
  <1>1. q.kind = "none" /\ q.esc = FALSE
    BY ParserFields DEF OrderlyParser, Framed
  <1>2. CASE q.state = "ground"
    <2>1. r = inGround(q, b)
      BY <1>2 DEF byte
    <2> QED BY <1>1, <1>2, <2>1, GroundControl DEF SequenceTaken
  <1>3. CASE q.state \in {"csi", "esc-int"}
    <2>1. q.utf = 0
      BY <1>3 DEF OrderlyParser
    <2>2. r = IF q.state = "csi" THEN inCsi(q, b) ELSE inEscInt(q, b)
      BY <1>3 DEF byte
    <2>3. /\ r.kind = q.kind /\ r.esc = q.esc /\ r.open = q.open /\ r.utf = q.utf
          /\ q.state = "csi" => r.state = IF b \in Final THEN "ground" ELSE "csi"
          /\ q.state = "esc-int" => r.state = IF b = "sp" THEN "esc-int" ELSE "ground"
      BY <1>3, <2>2, SequenceControl
    <2> QED BY <1>1, <1>3, <2>1, <2>3 DEF SequenceTaken
  <1> QED BY <1>2, <1>3

\* A byte inside a string.
LEMMA ByteInString ==
  ASSUME NEW q \in Parser, OneKept(q), Framed(q), OrderlyParser(q), q.state = "string", q.esc = FALSE,
         NEW b \in Bytes, b # ESC, NEW r, r = byte(q, b)
  PROVE StringTaken(r, q, b) /\ r.utf = 0
  <1>1. q.utf = 0
    BY DEF OrderlyParser
  <1>2. r = inString(q, b)
    BY DEF byte
  <1>3. StringTaken(r, q, b)
    BY <1>2, StringControl
  <1> QED BY <1>1, <1>3 DEF StringTaken

\* The parser stays orderly, whatever it reads.
LEMMA ByteOrderly ==
  ASSUME NEW q \in Parser, OneKept(q), Framed(q), OrderlyParser(q), NEW b \in Bytes,
         NEW r, r = byte(q, b)
  PROVE OrderlyParser(r)
  <1>1. q.esc \in BOOLEAN /\ q.state \in {"ground", "esc", "esc-int", "csi", "string"}
    BY ParserFields
  <1>2. CASE b = ESC
    <2>1. /\ r.utf = 0 /\ r.open = q.open
          /\ r.kind = (IF q.state = "string" /\ q.esc = FALSE THEN q.kind ELSE "none")
          /\ q.state = "string" /\ q.esc = FALSE => r.state = "string" /\ r.ctl = q.ctl
          /\ ~(q.state = "string" /\ q.esc = FALSE) => r.state = "esc"
      <3>1. EscTaken(r, q)
        BY <1>2, ByteOnEsc
      <3> QED BY <3>1 DEF EscTaken
    <2> QED BY <2>1 DEF OrderlyParser
  <1>3. CASE b # ESC /\ Escaped(q)
    <2>1. r.utf = 0 /\ r.state = Opener(b) /\ r.kind = OpenerKind(b)
      <3>1. OpenerTaken(r, q, b)
        BY <1>3, ByteEscaped
      <3> QED BY <3>1 DEF OpenerTaken
    <2> QED BY <2>1, OpenerFacts DEF OrderlyParser
  <1>4. CASE b # ESC /\ q.state \in {"ground", "csi", "esc-int"}
    <2>1. /\ r.kind = "none" /\ r.state \in {"ground", "csi", "esc-int"}
          /\ r.state # "ground" => r.utf = 0
      <3>1. SequenceTaken(r, q, b)
        BY <1>4, ByteInSequence
      <3> QED BY <1>4, <3>1 DEF SequenceTaken
    <2> QED BY <2>1 DEF OrderlyParser
  <1>5. CASE b # ESC /\ q.state = "string" /\ q.esc = FALSE
    <2>1. /\ r.utf = 0
          /\ q.kind = "osc" /\ b = "bel" => r.state = "ground" /\ r.kind = "none"
          /\ ~(q.kind = "osc" /\ b = "bel") => r.state = "string"
          /\ q.kind = "apc-intro" =>
               /\ r.kind = IF b = "M" THEN "marker" ELSE IF b = "G" THEN "kitty" ELSE "apc"
               /\ b = "G" => r.ctl = NoControl
          /\ q.kind = "marker" => r.kind \in {"marker", "apc"}
          /\ q.kind \notin {"apc-intro", "marker"} /\ ~(q.kind = "osc" /\ b = "bel") => r.kind = q.kind
          /\ q.kind = "kitty" => (r.ctl.done = TRUE => r.open = ("m" \in r.ctl.fields))
      <3>1. StringTaken(r, q, b) /\ r.utf = 0
        BY <1>5, ByteInString
      <3> QED BY <3>1 DEF StringTaken
    <2>2. q.kind # "none"
      BY <1>5 DEF OrderlyParser
    <2>3. NoControl.done = FALSE
      BY DEF NoControl
    <2>4. (r.state = "string") = (r.kind # "none")
      BY <2>1, <2>2
    <2>5. r.kind = "kitty" => q.kind = "kitty" \/ r.ctl = NoControl
      BY <2>1
    <2>6. r.kind = "kitty" /\ r.ctl.done = TRUE => r.open = ("m" \in r.ctl.fields)
      BY <2>1, <2>3, <2>5
    <2> QED BY <2>1, <2>4, <2>6 DEF OrderlyParser
  <1> QED BY <1>1, <1>2, <1>3, <1>4, <1>5 DEF Escaped
-----------------------------------------------------------------------------
(***************************************************************************)
(* Parser and terminal step together.  Lock: they are in the same place of *)
(* a sequence, though the terminal takes a marker for any other string.    *)
(* Agree: but for what a torn sequence leaves them to disagree about, they *)
(* are in step, the same graphics command is being read, and an image the  *)
(* terminal has not seen the end of is one the parser knows of.            *)
(***************************************************************************)
Lock(q, t) ==
  \/ q.state \in {"ground", "csi", "esc-int"} /\ t.state = q.state /\ t.utf = q.utf
  \/ Escaped(q) /\ Escaped(t)
  \/ /\ q.state = "string" /\ q.esc = FALSE /\ t.state = "string" /\ t.esc = FALSE
     /\ t.kind = IF q.kind = "marker" THEN "apc" ELSE q.kind

SameCommand(q, t) ==
  /\ t.cut = FALSE /\ q.kind = "kitty" /\ t.state = "string"
  /\ t.esc = q.esc /\ t.ctl = q.ctl

Agree(q, t) ==
  /\ t.cut = FALSE => Lock(q, t)
  /\ Escaped(q) \/ q.kind = "apc-intro" => t.cut = FALSE
  /\ t.kind = "kitty" => SameCommand(q, t)
  /\ t.kind # "kitty" /\ t.open = TRUE => q.open = TRUE /\ q.kind # "kitty"

\* In step before a byte, in step after it.
LEMMA LockSteps ==
  ASSUME NEW q \in Parser, OneKept(q), Framed(q), OrderlyParser(q), NEW t \in Terminals,
         Lock(q, t), t.cut = FALSE, NEW b \in Bytes
  PROVE Lock(byte(q, b), TermStep(t, b))
  <1>1. q.esc \in BOOLEAN /\ q.state \in {"ground", "esc", "esc-int", "csi", "string"}
    BY ParserFields
  <1>2. CASE b = ESC
    <2>1. EscTaken(byte(q, b), q) /\ EscShown(TermStep(t, b), t)
      BY <1>2, ByteOnEsc, StepsOnEsc
    <2> QED BY <2>1 DEF EscTaken, EscShown, Lock
  <1>3. CASE b # ESC /\ Escaped(q)
    <2>1. Escaped(t)
      BY <1>3 DEF Lock, Escaped
    <2>2. OpenerTaken(byte(q, b), q, b) /\ OpenerShown(TermStep(t, b), t, b)
      BY <1>3, <2>1, ByteEscaped, StepsEscaped
    <2>3. PICK r, u : r = byte(q, b) /\ u = TermStep(t, b)
      OBVIOUS
    <2>4. /\ r.esc = FALSE /\ r.utf = 0 /\ r.state = Opener(b) /\ r.kind = OpenerKind(b)
          /\ u.esc = FALSE /\ u.utf = 0 /\ u.state = Opener(b) /\ u.kind = OpenerKind(b)
      BY <2>2, <2>3, Zenon DEF OpenerTaken, OpenerShown
    <2>5. Opener(b) \in {"ground", "esc-int", "csi", "string"} /\ OpenerKind(b) # "marker"
      BY OpenerFacts
    <2>6. Lock(r, u)
      BY <2>4, <2>5 DEF Lock
    <2> QED BY <2>3, <2>6, Zenon
  <1>4. CASE b # ESC /\ q.state \in {"ground", "csi", "esc-int"}
    <2>1. t.state = q.state /\ t.utf = q.utf
      <3>1. q.esc = FALSE
        BY <1>1, <1>4 DEF Framed
      <3> QED BY <1>4, <3>1 DEF Lock, Escaped
    <2>2. SequenceTaken(byte(q, b), q, b) /\ SequenceShown(TermStep(t, b), t, b)
      BY <1>4, <2>1, ByteInSequence, StepsInSequence
    <2> QED BY <1>4, <2>1, <2>2 DEF SequenceTaken, SequenceShown, Lock
  <1>5. CASE b # ESC /\ q.state = "string" /\ q.esc = FALSE
    <2>1. t.state = "string" /\ t.esc = FALSE /\ t.kind = IF q.kind = "marker" THEN "apc" ELSE q.kind
      BY <1>5 DEF Lock, Escaped
    <2>2. /\ StringTaken(byte(q, b), q, b) /\ byte(q, b).utf = 0
          /\ StringShown(TermStep(t, b), t, b)
      BY <1>5, <2>1, ByteInString, StepsInString
    <2> QED BY <1>5, <2>1, <2>2 DEF StringTaken, StringShown, Lock
  <1> QED BY <1>1, <1>2, <1>3, <1>4, <1>5 DEF Escaped

\* The byte that makes a string a graphics command.
Introduces(x, b) == x.state = "string" /\ x.kind = "apc-intro" /\ x.esc = FALSE /\ b = "G"

\* What a byte does to the commands and images of a terminal that reads no command.
PlainShown(u, t, b) ==
  /\ u.open = t.open /\ u.cut = IF b = ESC THEN FALSE ELSE t.cut
  /\ u.kind = "kitty" <=> Introduces(t, b) /\ t.cut = FALSE
  /\ u.kind = "kitty" => u.state = "string" /\ u.esc = FALSE /\ u.ctl = NoControl

LEMMA PlainSteps ==
  ASSUME NEW t \in Terminals, t.kind # "kitty", NEW b \in Bytes, NEW u, u = TermStep(t, b)
  PROVE PlainShown(u, t, b)
  <1>1. /\ t.esc \in BOOLEAN /\ t.cut \in BOOLEAN
        /\ t.state \in {"ground", "esc", "esc-int", "csi", "string"}
    BY TerminalFields
  <1>2. CASE b = ESC
    <2>1. EscShown(u, t)
      BY <1>2, StepsOnEsc
    <2>2. b # "G"
      BY <1>2 DEF ESC
    <2> QED BY <1>2, <2>1, <2>2 DEF EscShown, PlainShown, Introduces
  <1>3. CASE b # ESC /\ Escaped(t)
    <2>1. OpenerShown(u, t, b)
      BY <1>3, StepsEscaped
    <2>2. OpenerKind(b) # "kitty"
      BY OpenerFacts
    <2> QED BY <1>3, <2>1, <2>2 DEF OpenerShown, PlainShown, Introduces, Escaped
  <1>4. CASE b # ESC /\ t.state \in {"ground", "csi", "esc-int"}
    <2>1. SequenceShown(u, t, b)
      BY <1>4, StepsInSequence
    <2> QED BY <1>4, <2>1 DEF SequenceShown, PlainShown, Introduces
  <1>5. CASE b # ESC /\ t.state = "string" /\ t.esc = FALSE
    <2>1. StringShown(u, t, b)
      BY <1>5, StepsInString
    <2> QED BY <1>1, <1>5, <2>1 DEF StringShown, PlainShown, Introduces
  <1> QED BY <1>1, <1>2, <1>3, <1>4, <1>5 DEF Escaped

\* What a byte does to what a parser knows of images, unless it reads a command, and
\* the byte that makes it wait for the first byte of a sequence or of a string.
PlainTook(r, q, b) ==
  /\ q.kind # "kitty" => r.open = q.open
  /\ q.kind # "kitty" /\ r.kind = "kitty" => Introduces(q, b)
  /\ Introduces(q, b) => r.kind = "kitty" /\ r.esc = FALSE /\ r.ctl = NoControl
  /\ Escaped(r) => b = ESC
  /\ r.kind = "apc-intro" => b = ESC \/ Escaped(q)

LEMMA PlainTaken ==
  ASSUME NEW q \in Parser, OneKept(q), Framed(q), OrderlyParser(q),
         NEW b \in Bytes, NEW r, r = byte(q, b)
  PROVE PlainTook(r, q, b)
  <1>1. q.esc \in BOOLEAN /\ q.state \in {"ground", "esc", "esc-int", "csi", "string"}
    BY ParserFields
  <1>2. CASE b = ESC
    <2>1. EscTaken(r, q)
      BY <1>2, ByteOnEsc
    <2>2. b # "G"
      BY <1>2 DEF ESC
    <2> QED BY <1>2, <2>1, <2>2 DEF EscTaken, PlainTook, Introduces
  <1>3. CASE b # ESC /\ Escaped(q)
    <2>1. OpenerTaken(r, q, b)
      BY <1>3, ByteEscaped
    <2>2. OpenerKind(b) # "kitty" /\ Opener(b) # "esc"
      BY OpenerFacts
    <2>3. r.open = q.open \/ q.kind = "kitty"
      BY <2>1 DEF OpenerTaken
    <2> QED BY <1>3, <2>1, <2>2, <2>3 DEF OpenerTaken, Escaped, PlainTook, Introduces
  <1>4. CASE b # ESC /\ q.state \in {"ground", "csi", "esc-int"}
    <2>1. SequenceTaken(r, q, b)
      BY <1>4, ByteInSequence
    <2> QED BY <1>4, <2>1 DEF SequenceTaken, Escaped, PlainTook, Introduces
  <1>5. CASE b # ESC /\ q.state = "string" /\ q.esc = FALSE
    <2>1. StringTaken(r, q, b)
      BY <1>5, ByteInString
    <2>2. q.kind \in {"osc", "str", "apc-intro", "apc", "marker", "kitty"}
      BY <1>5, ParserFields DEF OrderlyParser
    <2> QED BY <1>5, <2>1, <2>2 DEF StringTaken, Escaped, PlainTook, Introduces
  <1> QED BY <1>1, <1>2, <1>3, <1>4, <1>5 DEF Escaped

\* A command both read, on its next byte: programs end the commands they begin.
CommandRead(r, u) ==
  /\ u.kind = "kitty" => SameCommand(r, u)
  /\ u.kind # "kitty" /\ u.open = TRUE => r.open = TRUE /\ r.kind # "kitty"
  /\ Escaped(r) \/ r.kind = "apc-intro" => u.cut = FALSE

LEMMA CommandSteps ==
  ASSUME NEW q \in Parser, OneKept(q), Framed(q), OrderlyParser(q), NEW t \in Terminals,
         t.kind = "kitty", SameCommand(q, t), NEW b \in Bytes, q.esc = TRUE => b = "bslash",
         NEW r, r = byte(q, b), NEW u, u = TermStep(t, b)
  PROVE CommandRead(r, u)
  <1>1. /\ q.esc \in BOOLEAN /\ q.state = "string" /\ q.kind = "kitty" /\ q.open \in BOOLEAN
        /\ t.cut = FALSE /\ t.state = "string" /\ t.esc = q.esc /\ t.ctl = q.ctl
        /\ q.ctl.done \in BOOLEAN
    BY ParserFields DEF SameCommand, OrderlyParser, Control
  <1>2. CASE b = ESC
    <2>1. q.esc = FALSE
      BY <1>1, <1>2 DEF ESC
    <2>2. EscTaken(r, q) /\ EscShown(u, t)
      BY <1>2, ByteOnEsc, StepsOnEsc
    <2> QED BY <1>1, <2>1, <2>2 DEF EscTaken, EscShown, SameCommand, CommandRead
  <1>3. CASE b # ESC /\ q.esc = TRUE
    <2>1. b = "bslash" /\ Escaped(q) /\ Escaped(t)
      BY <1>1, <1>3 DEF Escaped
    <2>2. OpenerTaken(r, q, b) /\ OpenerShown(u, t, b)
      BY <1>3, <2>1, ByteEscaped, StepsEscaped
    <2>3. OpenerKind(b) = "none"
      BY <2>1, OpenerFacts
    <2>4. q.ctl.done = TRUE => q.open = ("m" \in q.ctl.fields)
      BY <1>1 DEF OrderlyParser
    <2>5. r.kind = "none" /\ u.kind = "none" /\ u.cut = FALSE
      BY <1>1, <2>2, <2>3 DEF OpenerTaken, OpenerShown
    <2>6. u.open = ("m" \in t.ctl.fields)
      BY <1>1, <2>1, <2>2 DEF OpenerShown
    <2>7. r.open = IF q.ctl.done # TRUE THEN "m" \in q.ctl.fields ELSE q.open
      BY <1>1, <2>1, <2>2 DEF OpenerTaken
    <2>8. u.open = TRUE => r.open = TRUE
      BY <1>1, <2>4, <2>6, <2>7
    <2> QED BY <2>5, <2>8 DEF CommandRead
  <1>4. CASE b # ESC /\ q.esc = FALSE
    <2>1. StringTaken(r, q, b) /\ StringShown(u, t, b)
      BY <1>1, <1>4, ByteInString, StepsInString
    <2> QED BY <1>1, <2>1 DEF StringTaken, StringShown, SameCommand, CommandRead
  <1> QED BY <1>1, <1>2, <1>3, <1>4

\* They agree after any byte, if they do before it.
LEMMA AgreeSteps ==
  ASSUME NEW q \in Parser, OneKept(q), Framed(q), OrderlyParser(q), NEW t \in Terminals,
         Agree(q, t), NEW b \in Bytes, q.kind = "kitty" /\ q.esc = TRUE => b = "bslash",
         NEW r, r = byte(q, b), NEW u, u = TermStep(t, b)
  PROVE Agree(r, u)
  <1>1. t.cut \in BOOLEAN /\ t.open \in BOOLEAN
    BY TerminalFields
  <1>2. t.cut = FALSE => Lock(r, u)
    BY LockSteps DEF Agree
  <1>3. b = ESC => Lock(r, u)
    <2>1. b = ESC => EscTaken(r, q) /\ EscShown(u, t)
      BY ByteOnEsc, StepsOnEsc
    <2> QED BY <2>1 DEF EscTaken, EscShown, Lock
  <1>4. CASE t.kind = "kitty"
    <2>1. SameCommand(q, t)
      BY <1>4 DEF Agree
    <2>2. CommandRead(r, u)
      BY <1>4, <2>1, CommandSteps DEF SameCommand
    <2>3. t.cut = FALSE
      BY <2>1 DEF SameCommand
    <2> QED BY <1>2, <2>2, <2>3 DEF Agree, CommandRead
  <1>5. CASE t.kind # "kitty"
    <2>1. PlainShown(u, t, b) /\ PlainTook(r, q, b)
      BY <1>5, PlainSteps, PlainTaken
    <2>2. u.cut = FALSE => Lock(r, u)
      BY <1>2, <1>3, <2>1 DEF PlainShown
    <2>3. Escaped(r) \/ r.kind = "apc-intro" => u.cut = FALSE
      BY <2>1 DEF PlainShown, PlainTook, Agree
    <2>4. u.kind = "kitty" => SameCommand(r, u)
      <3> SUFFICES ASSUME u.kind = "kitty" PROVE SameCommand(r, u)
        OBVIOUS
      <3>1. Introduces(t, b) /\ t.cut = FALSE /\ u.state = "string" /\ u.esc = FALSE /\ u.ctl = NoControl
        BY <2>1 DEF PlainShown
      <3>2. Lock(q, t) /\ b # ESC
        BY <3>1 DEF Agree, Introduces, ESC
      <3>3. Introduces(q, b)
        BY <3>1, <3>2 DEF Lock, Introduces, Escaped
      <3>4. r.kind = "kitty" /\ r.esc = FALSE /\ r.ctl = NoControl
        BY <2>1, <3>3 DEF PlainTook
      <3>5. u.cut = FALSE
        BY <2>1, <3>1, <3>2 DEF PlainShown
      <3> QED BY <3>1, <3>4, <3>5 DEF SameCommand
    <2>5. u.kind # "kitty" /\ u.open = TRUE => r.open = TRUE /\ r.kind # "kitty"
      <3> SUFFICES ASSUME u.kind # "kitty", u.open = TRUE PROVE r.open = TRUE /\ r.kind # "kitty"
        OBVIOUS
      <3>1. q.open = TRUE /\ q.kind # "kitty"
        BY <1>5, <2>1 DEF PlainShown, Agree
      <3>2. r.open = TRUE
        BY <2>1, <3>1 DEF PlainTook
      <3>3. ASSUME r.kind = "kitty" PROVE FALSE
        <4>1. Introduces(q, b)
          BY <2>1, <3>1, <3>3 DEF PlainTook
        <4>2. t.cut = FALSE /\ Lock(q, t)
          BY <4>1 DEF Agree, Introduces
        <4>3. Introduces(t, b)
          BY <4>1, <4>2 DEF Lock, Introduces, Escaped
        <4> QED BY <2>1, <4>2, <4>3 DEF PlainShown
      <3> QED BY <3>2, <3>3
    <2> QED BY <2>2, <2>3, <2>4, <2>5 DEF Agree
  <1> QED BY <1>4, <1>5
-----------------------------------------------------------------------------
(***************************************************************************)
(* Bytes withheld will reach the terminal later, perhaps after the helper  *)
(* has written something of its own: whatever plain state of a terminal    *)
(* they meet, they leave it in step with the parser, and change nothing of *)
(* its images.                                                             *)
(***************************************************************************)
InStep(q, t, u) == u.cut = FALSE /\ Lock(q, u) /\ u.kind # "kitty" /\ u.open = t.open

Effects(q) ==
  q.pending # <<>> /\ q.kind # "kitty" =>
    \A t \in Terminals : t.kind # "kitty" =>
      /\ InStep(q, t, TermRead(t, q.pending))
      /\ Escaped(q) => TermRead(t, Front(q.pending)).kind # "kitty"

\* Where a byte is withheld: the first of a sequence, the first of what may be a
\* marker, and any other inside of what may still be one.
Keeps(r, q, b) ==
  \/ b = ESC /\ r.pending = <<ESC>>
  \/ b = "_" /\ Escaped(q) /\ r.pending = <<ESC, "_">>
  \/ /\ q.state = "string" /\ q.esc = FALSE /\ q.pending # <<>> /\ q.kind # "kitty"
     /\ r.pending = Append(q.pending, b)

LEMMA ByteKept ==
  ASSUME NEW q \in Parser, OneKept(q), Framed(q), OrderlyParser(q),
         NEW b \in Bytes, NEW r, r = byte(q, b), r \in Parser, Framed(r), r.pending # <<>>
  PROVE Keeps(r, q, b)
  <1>1. /\ q.esc \in BOOLEAN /\ q.state \in {"ground", "esc", "esc-int", "csi", "string"}
        /\ q.kind \in {"none", "osc", "str", "apc-intro", "apc", "kitty", "marker"}
        /\ r.esc \in BOOLEAN
    BY ParserFields
  <1>2. CASE b = ESC
    <2>1. EscTaken(r, q)
      BY <1>2, ByteOnEsc
    <2>2. CASE q.state = "string" /\ q.esc = FALSE /\ q.pending # <<>>
      <3>1. q.kind \in {"apc-intro", "marker"}
        BY <2>2 DEF Framed
      <3> DEFINE e == [q EXCEPT !.esc = TRUE]
      <3>2. r = hold(e, b)
        BY <1>2, <2>2 DEF byte, inString, ESC
      <3>3. e \in Parser
        BY DEF Parser
      <3>4. e.pending = q.pending /\ e.run = q.run
        BY DEF Parser
      <3> HIDE DEF e
      <3>5. OneKept(e)
        BY <3>4, Zenon DEF OneKept
      <3>6. r.pending = Append(e.pending, b)
        BY <3>2, <3>3, <3>5, ByteHeld
      <3> QED BY <2>2, <3>1, <3>4, <3>6 DEF Keeps
    <2>3. CASE ~(q.state = "string" /\ q.esc = FALSE /\ q.pending # <<>>)
      <3>1. r.state = "esc" \/ (r.state = "string" /\ r.esc = TRUE /\ r.kind \notin {"apc-intro", "marker"})
        <4>1. CASE q.state = "string" /\ q.esc = FALSE
          <5>1. q.pending = <<>>
            BY <2>3, <4>1
          <5>2. q.kind # "apc-intro"
            <6>1. <<ESC, "_">> # <<>>
              OBVIOUS
            <6> QED BY <4>1, <5>1, <6>1, Zenon DEF Framed
          <5>3. q.kind # "marker"
            <6>1. ASSUME q.kind = "marker" PROVE FALSE
              <7>1. MarkerHeld(q) /\ q.pos \in Nat
                BY <4>1, <6>1, ParserFields DEF Framed
              <7>2. Len(q.pending) >= 3 + q.pos /\ Len(<<>>) = 0
                BY <7>1 DEF MarkerHeld
              <7> QED BY <5>1, <7>1, <7>2
            <6> QED BY <6>1
          <5> QED BY <2>1, <4>1, <5>2, <5>3 DEF EscTaken
        <4> QED BY <2>1, <4>1 DEF EscTaken
      <3>2. r.pending = <<ESC>>
        BY <3>1 DEF Framed
      <3> QED BY <1>2, <3>2 DEF Keeps
    <2> QED BY <2>2, <2>3
  <1>3. CASE b # ESC /\ Escaped(q)
    <2>1. OpenerTaken(r, q, b)
      BY <1>3, ByteEscaped
    <2>2. b = "_"
      <3>1. ASSUME b # "_" PROVE FALSE
        <4>1. OpenerKind(b) \in {"none", "osc", "str"}
          BY <3>1 DEF OpenerKind, openerKind
        <4>2. r.state # "esc"
          BY <2>1, OpenerFacts DEF OpenerTaken
        <4>3. r.kind \in {"none", "osc", "str"} /\ r.esc = FALSE
          BY <2>1, <4>1 DEF OpenerTaken
        <4>4. r.state \in {"ground", "esc", "esc-int", "csi", "string"}
          BY ParserFields
        <4> QED BY <4>2, <4>3, <4>4 DEF Framed
      <3> QED BY <3>1
    <2>3. r.state = "string" /\ r.kind = "apc-intro" /\ r.esc = FALSE
      BY <2>1, <2>2 DEF OpenerTaken, Opener, OpenerKind
    <2>4. r.pending = <<ESC, "_">>
      BY <2>3 DEF Framed
    <2> QED BY <1>3, <2>2, <2>4 DEF Keeps
  <1>4. CASE b # ESC /\ q.state \in {"ground", "csi", "esc-int"}
    <2>1. SequenceTaken(r, q, b)
      BY <1>4, ByteInSequence
    <2>2. r.state \in {"ground", "csi", "esc-int"}
      BY <1>4, <2>1 DEF SequenceTaken
    <2> QED BY <2>2 DEF Framed
  <1>5. CASE b # ESC /\ q.state = "string" /\ q.esc = FALSE
    <2>1. StringTaken(r, q, b)
      BY <1>5, ByteInString
    <2>2. r.kind = "marker"
      <3>1. r.state = "string" /\ r.esc = FALSE
        BY <2>1 DEF StringTaken, Framed
      <3>2. r.kind \in {"apc-intro", "marker"}
        BY <3>1 DEF Framed
      <3> QED BY <1>1, <2>1, <3>2 DEF StringTaken
    <2>3. CASE q.kind = "apc-intro"
      <3>1. b = "M"
        BY <2>1, <2>2, <2>3 DEF StringTaken
      <3>2. PICK c \in BOOLEAN : c = (Prefix = <<>>)
        <4>1. (Prefix = <<>>) \in BOOLEAN
          OBVIOUS
        <4> WITNESS (Prefix = <<>>) \in BOOLEAN
        <4> QED OBVIOUS
      <3> DEFINE e == [q EXCEPT !.kind = "marker", !.committed = c, !.pos = 0]
      <3>3. r = hold(e, b)
        <4>1. r = apcIntro(q, b)
          BY <1>5, <2>3 DEF byte, inString
        <4> QED BY <3>1, <3>2, <4>1 DEF apcIntro
      <3>4. e \in Parser
        BY DEF Parser
      <3>5. e.pending = q.pending /\ e.run = q.run
        BY DEF Parser
      <3> HIDE DEF e
      <3>6. OneKept(e)
        BY <3>5, Zenon DEF OneKept
      <3>7. r.pending = Append(e.pending, b)
        BY <3>3, <3>4, <3>6, ByteHeld
      <3>8. q.pending # <<>>
        <4>1. q.pending = <<ESC, "_">> /\ <<ESC, "_">> # <<>>
          BY <1>5, <2>3 DEF Framed
        <4> QED BY <4>1, Zenon
      <3> QED BY <1>5, <2>3, <3>5, <3>7, <3>8 DEF Keeps
    <2>4. CASE q.kind = "marker"
      <3> DEFINE h == hold(q, b)
                 f == releasePending(h)
      <3>1. r = markerByte(q, b)
        BY <1>5, <2>4 DEF byte, inString
      <3>2. h \in Parser /\ h.pending = Append(q.pending, b)
        BY ByteHeld
      <3>3. \/ r = [f EXCEPT !.kind = "apc"] \/ r = h
            \/ r = [h EXCEPT !.pos = @ + 1, !.committed = q.pos + 1 = Len(Prefix)]
        BY <3>1 DEF markerByte
      <3>4. f \in Parser
        BY <3>2, PendingReleased
      <3> HIDE DEF h, f
      <3>5. r # [f EXCEPT !.kind = "apc"]
        BY <2>2, <3>4 DEF Parser
      <3>6. r.pending = h.pending
        BY <3>2, <3>3, <3>5 DEF Parser
      <3>7. q.pending # <<>>
        <4>1. MarkerHeld(q) /\ q.pos \in Nat
          BY <1>5, <2>4, ParserFields DEF Framed
        <4>2. Len(q.pending) >= 3 + q.pos /\ Len(<<>>) = 0
          BY <4>1 DEF MarkerHeld
        <4> QED BY <4>1, <4>2
      <3> QED BY <1>5, <2>4, <3>2, <3>6, <3>7 DEF Keeps
    <2>5. q.kind \in {"apc-intro", "marker"}
      BY <1>1, <2>1, <2>2 DEF StringTaken
    <2> QED BY <2>3, <2>4, <2>5
  <1> QED BY <1>1, <1>2, <1>3, <1>4, <1>5 DEF Escaped

\* The last of the bytes withheld, taken off.
LEMMA FrontOfAppend ==
  ASSUME NEW s \in Seq(Bytes), NEW b \in Bytes
  PROVE Front(Append(s, b)) = s
  <1> DEFINE z == Append(s, b)
             u == Front(z)
  <1>1. z \in Seq(Bytes) /\ Len(z) = Len(s) + 1 /\ \A i \in 1 .. Len(s) : z[i] = s[i]
    OBVIOUS
  <1> HIDE DEF z
  <1>2. u \in Seq(Bytes) /\ Len(u) = Len(s) /\ \A i \in 1 .. Len(s) : u[i] = z[i]
    BY <1>1 DEF Front
  <1> HIDE DEF u
  <1>3. u = s
    BY <1>1, <1>2, SeqEqual
  <1> QED BY <1>3 DEF u, z

\* Reading leaves a terminal.
LEMMA ReadTerminal ==
  ASSUME NEW t \in Terminals, NEW s \in Seq(Bytes)
  PROVE TermRead(t, s) \in Terminals
  <1>1. s \o <<>> = s /\ <<>> \in Seq(Bytes)
    OBVIOUS
  <1> QED BY <1>1, ReadParts

\* Reading the first byte of a sequence.
LEMMA ReadEsc ==
  ASSUME NEW t \in Terminals
  PROVE TermRead(t, <<ESC>>) = TermStep(t, ESC)
  <1>1. ESC \in Bytes /\ <<>> \in Seq(Bytes)
    BY DEF Bytes
  <1>2. Append(<<>>, ESC) = <<ESC>>
    OBVIOUS
  <1>3. TermRead(t, Append(<<>>, ESC)) = TermStep(TermRead(t, <<>>), ESC)
    BY <1>1, ReadMore
  <1> QED BY <1>2, <1>3, ReadNothing, Zenon

\* What is withheld keeps in step as it grows.
LEMMA EffectsGrow ==
  ASSUME NEW q \in Parser, OneKept(q), Framed(q), OrderlyParser(q), Effects(q),
         NEW b \in Bytes, NEW r, r = byte(q, b), Keeps(r, q, b), r.kind # "kitty"
  PROVE Effects(r)
  <1> SUFFICES ASSUME NEW t \in Terminals, t.kind # "kitty"
               PROVE /\ InStep(r, t, TermRead(t, r.pending))
                     /\ Escaped(r) => TermRead(t, Front(r.pending)).kind # "kitty"
    BY DEF Effects
  <1>1. ESC \in Bytes /\ <<ESC>> \in Seq(Bytes) /\ <<>> \in Seq(Bytes) /\ Append(<<>>, ESC) = <<ESC>>
    <2>1. ESC \in Bytes
      BY DEF Bytes
    <2> QED BY <2>1
  <1>2. /\ TermRead(t, <<ESC>>) \in Terminals
        /\ EscShown(TermRead(t, <<ESC>>), t)
    <2>1. TermStep(t, ESC) \in Terminals /\ EscShown(TermStep(t, ESC), t)
      BY StepsOnEsc
    <2> QED BY <2>1, ReadEsc, Zenon
  <1>3. CASE b = ESC /\ r.pending = <<ESC>>
    <2>1. EscTaken(r, q)
      BY <1>3, ByteOnEsc
    <2>2. InStep(r, t, TermRead(t, <<ESC>>))
      BY <1>2, <2>1 DEF EscTaken, EscShown, InStep, Lock
    <2>3. TermRead(t, Front(<<ESC>>)) = t
      BY <1>1, FrontOfAppend, ReadNothing, Zenon
    <2> QED BY <1>3, <2>2, <2>3, Zenon
  <1>4. CASE b = "_" /\ Escaped(q) /\ r.pending = <<ESC, "_">>
    <2>1. PICK u \in Terminals : u = TermRead(t, <<ESC>>) /\ EscShown(u, t)
      BY <1>2
    <2>2. TermRead(t, <<ESC, "_">>) = TermStep(u, "_")
      <3>1. TermRead(t, Append(<<ESC>>, "_")) = TermStep(TermRead(t, <<ESC>>), "_")
        BY <1>1, <1>4, ReadMore
      <3> QED BY <2>1, <3>1, Appended, Zenon
    <2>3. Escaped(u) /\ b # ESC /\ u.cut = FALSE /\ u.open = t.open
      BY <1>4, <2>1 DEF EscShown, ESC
    <2>4. OpenerShown(TermStep(u, b), u, b) /\ OpenerTaken(r, q, b)
      BY <1>4, <2>3, StepsEscaped, ByteEscaped
    <2>5. Opener(b) = "string" /\ OpenerKind(b) = "apc-intro"
      BY <1>4 DEF Opener, OpenerKind
    <2>6. InStep(r, t, TermStep(u, b))
      BY <1>4, <2>3, <2>4, <2>5 DEF OpenerShown, OpenerTaken, InStep, Lock
    <2>7. ~Escaped(r)
      BY <2>4, <2>5 DEF OpenerTaken, Escaped
    <2> QED BY <1>4, <2>2, <2>6, <2>7, Zenon
  <1>5. CASE /\ q.state = "string" /\ q.esc = FALSE /\ q.pending # <<>> /\ q.kind # "kitty"
             /\ r.pending = Append(q.pending, b)
    <2>1. q.pending \in Seq(Bytes)
      BY ParserFields
    <2>2. PICK u \in Terminals : u = TermRead(t, q.pending)
      BY <2>1, ReadTerminal
    <2>3. InStep(q, t, u)
      BY <1>5, <2>2 DEF Effects
    <2>4. TermRead(t, r.pending) = TermStep(u, b)
      <3>1. TermRead(t, Append(q.pending, b)) = TermStep(TermRead(t, q.pending), b)
        BY <2>1, ReadMore
      <3> QED BY <1>5, <2>2, <3>1, Zenon
    <2>5. u.cut = FALSE /\ Lock(q, u) /\ u.kind # "kitty" /\ u.open = t.open
      BY <2>3 DEF InStep
    <2>6. Lock(r, TermStep(u, b))
      BY <2>5, LockSteps
    <2>7. PlainShown(TermStep(u, b), u, b) /\ PlainTook(r, q, b)
      BY <2>5, PlainSteps, PlainTaken
    <2>8. TermStep(u, b).kind # "kitty"
      <3>1. ASSUME Introduces(u, b) PROVE FALSE
        <4>1. Introduces(q, b)
          BY <2>5, <3>1 DEF Lock, Introduces, Escaped
        <4> QED BY <2>7, <4>1 DEF PlainTook
      <3> QED BY <2>7, <3>1 DEF PlainShown
    <2>9. InStep(r, t, TermStep(u, b))
      BY <2>5, <2>6, <2>7, <2>8 DEF PlainShown, InStep
    <2>10. TermRead(t, Front(r.pending)).kind # "kitty"
      BY <1>5, <2>1, <2>2, <2>5, FrontOfAppend, Zenon
    <2> QED BY <2>4, <2>9, <2>10, Zenon
  <1> QED BY <1>3, <1>4, <1>5 DEF Keeps
-----------------------------------------------------------------------------
(* The steps of the helper. *)

Reads ==
  /\ OrderlyParser(p) /\ term \in Terminals
  /\ Agree(p, TermRead(term, owed)) /\ Effects(p)
  /\ p.pending # <<>> /\ p.kind # "kitty" => term.kind # "kitty"

\* Parsers that differ in where their bytes are.
Alike(r, q) ==
  /\ r.state = q.state /\ r.kind = q.kind /\ r.esc = q.esc /\ r.utf = q.utf
  /\ r.ctl = q.ctl /\ r.open = q.open /\ r.pending = q.pending

LEMMA AlikeReads ==
  ASSUME NEW r, NEW q, Alike(r, q)
  PROVE /\ OrderlyParser(q) => OrderlyParser(r)
        /\ Effects(q) => Effects(r)
        /\ \A t : Agree(q, t) => Agree(r, t)
  <1>1. Escaped(q) <=> Escaped(r)
    BY Zenon DEF Alike, Escaped
  <1>2. \A t : Lock(q, t) <=> Lock(r, t)
    BY <1>1, Zenon DEF Alike, Lock
  <1>3. \A t : Agree(q, t) => Agree(r, t)
    BY <1>1, <1>2, Zenon DEF Alike, Agree, SameCommand
  <1>4. Effects(q) => Effects(r)
    BY <1>1, <1>2, Zenon DEF Alike, Effects, InStep
  <1>5. OrderlyParser(q) => OrderlyParser(r)
    BY Zenon DEF Alike, OrderlyParser
  <1> QED BY <1>3, <1>4, <1>5

\* What a step leaves of its parser's state.
LEMMA DeliverAlike ==
  ASSUME NEW q \in Parser, NEW before, Deliver(q, before)
  PROVE Alike(p', q)
  <1>1. p' = [q EXCEPT !.out = <<>>, !.swallowed = <<>>]
    BY DEF Deliver
  <1> QED BY <1>1 DEF Parser, Alike

\* What the helper has written ends its last sequence, and an unfinished image.
LEMMA Transacted ==
  ASSUME NEW t \in Terminals
  PROVE /\ TermTransaction(t) \in Terminals
        /\ TermTransaction(t).state = "ground" /\ TermTransaction(t).utf = 0
        /\ TermTransaction(t).kind = "none" /\ TermTransaction(t).open = FALSE
        /\ TermTransaction(t).cut = FALSE
  <1> DEFINE u == TermTransaction(t)
  <1>1. u = [t EXCEPT !.state = "ground", !.kind = "none", !.esc = FALSE,
                      !.utf = 0, !.open = FALSE, !.cut = FALSE]
    BY DEF TermTransaction
  <1>2. t \in Screen
    BY TerminalFields
  <1> HIDE DEF u
  <1>3. u \in Screen
    <2>1. 0 \in Nat
      OBVIOUS
    <2> QED BY <1>1, <1>2, <2>1 DEF Screen
  <1>4. /\ u.state = "ground" /\ u.kind = "none" /\ u.esc = FALSE /\ u.utf = 0
        /\ u.open = FALSE /\ u.cut = FALSE
    BY <1>1, <1>2 DEF Screen
  <1>5. Orderly(u)
    BY <1>4 DEF Orderly
  <1> QED BY <1>3, <1>4, <1>5 DEF Terminals, u

\* At a safe boundary a terminal that has read all there is stands between two
\* sequences, and what is written there leaves parser and terminal agreed.
LEMMA SafeBetween ==
  ASSUME NEW q \in Parser, OrderlyParser(q), NEW t \in Terminals, Agree(q, t), atSafeBoundary(q)
  PROVE Between(t) /\ t.kind # "kitty" /\ Agree(q, TermTransaction(t))
  <1>1. /\ q.state = "ground" /\ q.utf = 0 /\ q.open = FALSE /\ q.kind = "none"
    BY ParserFields DEF atSafeBoundary, OrderlyParser
  <1>2. ~Escaped(q)
    <2>1. q.state # "esc" /\ q.state # "string"
      BY <1>1
    <2> QED BY <2>1 DEF Escaped
  <1>3. t.kind # "kitty"
    BY <1>1 DEF Agree, SameCommand
  <1>4. t.open = FALSE /\ t.cut \in BOOLEAN
    BY <1>1, <1>3, TerminalFields DEF Agree
  <1>5. t.cut = FALSE => t.state = "ground" /\ t.utf = 0
    BY <1>1, <1>2 DEF Agree, Lock
  <1>6. Between(t)
    BY <1>4, <1>5 DEF Between, AtGround
  <1>7. Agree(q, TermTransaction(t))
    <2>1. /\ TermTransaction(t).state = "ground" /\ TermTransaction(t).utf = 0
          /\ TermTransaction(t).kind = "none" /\ TermTransaction(t).open = FALSE
      BY Transacted
    <2> QED BY <1>1, <1>2, <2>1 DEF Agree, Lock
  <1> QED BY <1>3, <1>6, <1>7

\* With nothing owed the terminal has read all that was read.
LEMMA NothingOwed ==
  ASSUME NEW t \in Terminals
  PROVE TermRead(t, <<>> \o <<>>) = t
  <1>1. <<>> \o <<>> = <<>>
    OBVIOUS
  <1> QED BY <1>1, ReadNothing, Zenon

\* The start.
LEMMA InitReads == Init => Reads
  <1> SUFFICES ASSUME Init PROVE Reads
    OBVIOUS
  <1>1. p = Parser0 /\ term = Term0 /\ owed = <<>>
    BY DEF Init
  <1>2. NoControl \in Control /\ 0 \in Nat
    BY DEF NoControl, Control
  <1>3. /\ p \in Parser /\ p.state = "ground" /\ p.kind = "none" /\ p.esc = FALSE /\ p.utf = 0
        /\ p.open = FALSE /\ p.pending = <<>>
    <2>1. Parser0 \in Parser
      BY ParserStarts
    <2> QED BY <1>1, <2>1 DEF Parser0
  <1>4. /\ term \in Screen /\ term.state = "ground" /\ term.kind = "none" /\ term.esc = FALSE
        /\ term.utf = 0 /\ term.open = FALSE /\ term.cut = FALSE
    <2>1. Term0 \in Screen
      BY <1>2 DEF Term0, Screen
    <2> QED BY <1>1, <2>1 DEF Term0
  <1>5. term \in Terminals
    BY <1>4 DEF Terminals, Orderly
  <1>6. OrderlyParser(p)
    BY <1>3 DEF OrderlyParser
  <1>7. ~Escaped(p) /\ Lock(p, term)
    BY <1>3, <1>4 DEF Escaped, Lock
  <1>8. Agree(p, term)
    BY <1>3, <1>4, <1>7 DEF Agree
  <1>9. TermRead(term, owed) = term
    BY <1>1, <1>5, ReadNothing, Zenon
  <1>10. Effects(p)
    BY <1>3 DEF Effects
  <1> QED BY <1>3, <1>5, <1>6, <1>8, <1>9, <1>10, Zenon DEF Reads

\* What a byte withheld leaves the terminal with.
Owes(q, s) == s = q.pending \o q.run

LEMMA KeptBase ==
  ASSUME NEW q \in Parser, OneKept(q), Framed(q), OrderlyParser(q), Effects(q),
         q.pending # <<>> /\ q.kind # "kitty" => term.kind # "kitty", term \in Terminals,
         NEW s \in Seq(Bytes), Owes(q, s), Agree(q, TermRead(term, s)),
         NEW b \in Bytes, q.kind = "kitty" /\ q.esc = TRUE => b = "bslash",
         NEW r, r = byte(q, b), r \in Parser, Framed(r), OneKept(r), r.pending # <<>>,
         Total(r) = Append(s, b), r.kind # "kitty", q.out = <<>>, Keeps(r, q, b)
  PROVE TermRead(term, r.out).kind # "kitty"
  <1>1. r.out \in Seq(Bytes) /\ r.run = <<>> /\ r.pending \in Seq(Bytes) /\ q.pending \in Seq(Bytes)
    BY ParserFields DEF OneKept
  <1>2. r.out \o r.pending = Append(s, b)
    <2>1. r.pending \o <<>> = r.pending
      BY <1>1
    <2> QED BY <1>1, <2>1, Zenon DEF Total
  <1>3. ESC \in Bytes /\ "_" \in Bytes
    BY DEF Bytes, Final
  <1>4. CASE b = ESC /\ r.pending = <<ESC>>
    <2>1. r.out \o <<ESC>> = Append(r.out, ESC)
      BY <1>1, <1>3, AppendIsConcat
    <2>2. Append(r.out, ESC) = Append(s, ESC)
      BY <1>2, <1>4, <2>1, Zenon
    <2>3. r.out = s
      BY <1>1, <1>3, <2>2, FrontOfAppend, Zenon
    <2>4. q.kind # "kitty"
      <3>1. ASSUME q.kind = "kitty" PROVE FALSE
        <4>1. EscTaken(r, q)
          BY <1>4, ByteOnEsc
        <4>2. q.state = "string" /\ q.esc \in BOOLEAN
          BY <3>1, ParserFields DEF OrderlyParser
        <4>3. q.esc = FALSE
          BY <1>4, <3>1, <4>2 DEF ESC
        <4> QED BY <3>1, <4>1, <4>2, <4>3 DEF EscTaken
      <3> QED BY <3>1
    <2> QED BY <2>3, <2>4 DEF Agree, SameCommand
  <1>5. CASE b = "_" /\ Escaped(q) /\ r.pending = <<ESC, "_">>
    <2>1. r.out \o <<ESC, "_">> = Append(Append(r.out, ESC), "_")
      <3>1. PICK x \in Seq(Bytes), e \in Bytes, y \in Bytes : x = r.out /\ e = ESC /\ y = "_"
        BY <1>1, <1>3
      <3>2. Append(x, e) = x \o <<e>> /\ Append(x, e) \in Seq(Bytes) /\ <<e>> \in Seq(Bytes)
            /\ <<y>> \in Seq(Bytes)
        BY AppendIsConcat
      <3>3. Append(Append(x, e), y) = Append(x, e) \o <<y>>
        BY <3>2, AppendIsConcat
      <3>4. (x \o <<e>>) \o <<y>> = x \o (<<e>> \o <<y>>)
        BY <3>2, ConcatAssociative
      <3>5. <<e>> \o <<y>> = Append(<<e>>, y)
        BY <3>2, AppendIsConcat
      <3> QED BY <3>1, <3>2, <3>3, <3>4, <3>5, Appended, Zenon
    <2>2. Append(r.out, ESC) \in Seq(Bytes)
      BY <1>1, <1>3, AppendProperties
    <2>3. Append(r.out, ESC) = s
      <3>1. PICK z \in Seq(Bytes) : z = Append(r.out, ESC)
        BY <2>2
      <3>2. Append(z, "_") = Append(s, "_")
        BY <1>2, <1>5, <2>1, <3>1, Zenon
      <3>3. Front(Append(z, "_")) = z /\ Front(Append(s, "_")) = s
        BY <1>3, FrontOfAppend
      <3> QED BY <3>1, <3>2, <3>3, Zenon
    <2>4. q.pending # <<>> /\ q.kind # "kitty"
      <3>1. q.pending # <<>>
        <4>1. CASE q.state = "esc"
          <5>1. q.pending = <<ESC>> /\ <<ESC>> # <<>>
            BY <4>1 DEF Framed
          <5> QED BY <5>1, Zenon
        <4>2. CASE q.esc = TRUE
          <5>1. Len(q.pending) >= 1 /\ Len(<<>>) = 0
            BY <4>2, EscIsLast
          <5> QED BY <5>1
        <4> QED BY <1>5, <4>1, <4>2 DEF Escaped
      <3>2. q.kind = "kitty" => q.state = "string"
        BY DEF OrderlyParser
      <3>3. q.kind # "kitty"
        BY <1>5, <3>2 DEF Escaped
      <3> QED BY <3>1, <3>3
    <2>5. s = q.pending
      <3>1. q.run = <<>>
        BY <2>4, Zenon DEF OneKept
      <3>2. q.pending \o <<>> = q.pending
        BY <1>1
      <3> QED BY <3>1, <3>2, Zenon DEF Owes
    <2>6. r.out = Front(q.pending)
      <3>1. Front(Append(r.out, ESC)) = r.out
        BY <1>1, <1>3, FrontOfAppend
      <3> QED BY <2>3, <2>5, <3>1, Zenon
    <2> QED BY <1>5, <2>4, <2>6, Zenon DEF Effects
  <1>6. CASE /\ q.state = "string" /\ q.esc = FALSE /\ q.pending # <<>> /\ q.kind # "kitty"
             /\ r.pending = Append(q.pending, b)
    <2>1. s = q.pending
      <3>1. q.run = <<>>
        BY <1>6, Zenon DEF OneKept
      <3>2. q.pending \o <<>> = q.pending
        BY <1>1
      <3> QED BY <3>1, <3>2, Zenon DEF Owes
    <2>2. r.out = <<>>
      <3>1. PICK x \in Seq(Bytes), y \in Seq(Bytes) : x = r.out /\ y = Append(s, b)
        <4>1. Append(s, b) \in Seq(Bytes)
          BY AppendProperties
        <4> QED BY <1>1, <4>1
      <3>2. x \o y = y
        BY <1>2, <1>6, <2>1, <3>1, Zenon
      <3>3. Len(x \o y) = Len(x) + Len(y) /\ Len(x) \in Nat /\ Len(y) \in Nat
        BY ConcatProperties
      <3>4. Len(x) = 0
        BY <3>2, <3>3
      <3>5. x = <<>>
        BY <3>4, EmptySeq
      <3> QED BY <3>1, <3>5
    <2> QED BY <1>6, <2>2, ReadNothing, Zenon
  <1> QED BY <1>4, <1>5, <1>6 DEF Keeps

\* A byte that ends no marker (StreamParser.push, one turn of its loop).
LEMMA PassedReads ==
  ASSUME Withholds, Reads, NEW b \in Bytes, ReadByte(b), exiting = FALSE,
         NEW q, q = byte(p, b), Passes(q, Append(Total(p), b))
  PROVE Reads' /\ own' = None
  <1>1. /\ p \in Parser /\ OneKept(p) /\ p.out = <<>> /\ p.swallowed = <<>> /\ lost = FALSE
        /\ Framed(p) /\ owed \in Seq(Bytes) /\ owed = p.pending \o p.run /\ Total(p) = owed
    BY OwedIsTotal DEF Withholds
  <1>2. PICK full \in Terminals : full = TermRead(term, owed)
    BY <1>1, ReadTerminal DEF Reads
  <1>3. /\ OrderlyParser(p) /\ term \in Terminals /\ Agree(p, full) /\ Effects(p)
        /\ (p.pending # <<>> /\ p.kind # "kitty" => term.kind # "kitty")
    BY <1>2 DEF Reads
  <1>4. p.kind = "kitty" /\ p.esc = TRUE => b = "bslash"
    BY DEF ReadByte, Plausible
  <1>5. OrderlyParser(q) /\ Agree(q, TermStep(full, b))
    BY <1>1, <1>3, <1>4, ByteOrderly, AgreeSteps
  <1>6. /\ q \in Parser /\ OneKept(q) /\ Framed(q) /\ q.swallowed = <<>> /\ Total(q) = Append(owed, b)
    BY <1>1 DEF Passes
  <1>7. PICK t \in Terminals : t = TermRead(term, q.out)
    BY <1>3, <1>6, ParserFields, ReadTerminal
  <1>8. Deliver(q, Append(owed, b)) /\ term' = t /\ own' = None
    <2>1. [t EXCEPT !.cut = @ \/ (q.swallowed # <<>> /\ ~AtGround(t))] = t
      <3>1. (t.cut \/ (q.swallowed # <<>> /\ ~AtGround(t))) = t.cut
        BY <1>6, TerminalFields
      <3>2. t \in Screen
        BY TerminalFields
      <3> QED BY <3>1, <3>2 DEF Screen
    <2>2. /\ Deliver(q, Append(owed, b))
          /\ own' = None /\ term' = [t EXCEPT !.cut = @ \/ (q.swallowed # <<>> /\ ~AtGround(t))]
      BY <1>6, <1>7 DEF ReadByte
    <2> QED BY <2>1, <2>2
  <1>9. Alike(p', q) /\ p'.pending = q.pending /\ owed' = q.pending \o q.run
    <2>1. p'.pending = q.pending /\ p'.run = q.run /\ owed' = p'.pending \o p'.run
      BY <1>1, <1>6, <1>8, Delivered
    <2> QED BY <1>6, <1>8, <2>1, DeliverAlike
  <1>10. TermRead(term', owed') = TermStep(full, b)
    <2>1. q.out \in Seq(Bytes) /\ q.pending \in Seq(Bytes) /\ q.run \in Seq(Bytes)
      BY <1>6, ParserFields
    <2>2. PICK rest \in Seq(Bytes) : rest = q.pending \o q.run
      <3>1. q.pending \o q.run \in Seq(Bytes)
        BY <2>1, ConcatProperties
      <3> QED BY <3>1
    <2>3. q.out \o rest = Append(owed, b)
      BY <1>6, <2>2, Zenon DEF Total
    <2>4. TermRead(term, q.out \o rest) = TermRead(t, rest)
      BY <1>3, <1>7, <2>1, ReadParts
    <2>5. TermRead(term, Append(owed, b)) = TermStep(full, b)
      BY <1>1, <1>2, <1>3, ReadMore
    <2> QED BY <1>8, <1>9, <2>2, <2>3, <2>4, <2>5, Zenon
  <1>11. ASSUME q.pending # <<>> PROVE Keeps(q, p, b)
    BY <1>1, <1>3, <1>6, <1>11, ByteKept
  <1>12. Effects(q)
    <2>1. CASE q.pending = <<>> \/ q.kind = "kitty"
      BY <2>1 DEF Effects
    <2>2. CASE q.pending # <<>> /\ q.kind # "kitty"
      BY <1>1, <1>3, <1>11, <2>2, EffectsGrow
    <2> QED BY <2>1, <2>2
  <1>13. ASSUME q.pending # <<>>, q.kind # "kitty" PROVE t.kind # "kitty"
    <2>1. Agree(p, TermRead(term, owed))
      BY <1>2, <1>3
    <2>2. Owes(p, owed)
      BY <1>1 DEF Owes
    <2>3. TermRead(term, q.out).kind # "kitty"
      BY <1>1, <1>3, <1>4, <1>6, <1>11, <1>13, <2>1, <2>2, KeptBase
    <2> QED BY <1>7, <2>3
  <1>14. /\ OrderlyParser(p') /\ Effects(p') /\ Agree(p', TermRead(term', owed'))
    BY <1>5, <1>9, <1>10, <1>12, AlikeReads, Zenon
  <1>15. p'.pending # <<>> /\ p'.kind # "kitty" => term'.kind # "kitty"
    BY <1>8, <1>9, <1>13, Zenon DEF Alike
  <1> QED BY <1>8, <1>14, <1>15 DEF Reads

\* A write recorded as between two sequences, and no write at all.
LEMMA WroteBetween ==
  ASSUME NEW what, NEW t, NEW left, Wrote(what, t, left), Between(t), left = <<>>
  PROVE OwnWritesBetween'
  <1>1. own' = [what |-> what, between |-> (Between(t) /\ left = <<>>)]
    BY DEF Wrote
  <1>2. own'.between = (Between(t) /\ left = <<>>)
    BY <1>1
  <1>3. own'.between
    BY <1>2
  <1> QED BY <1>3, Zenon DEF OwnWritesBetween

LEMMA NothingWritten ==
  ASSUME own' = None
  PROVE OwnWritesBetween'
  <1>1. own'.what = "nothing"
    BY DEF None
  <1> QED BY <1>1 DEF OwnWritesBetween

\* The byte that ends a marker: it goes as a whole, and whatever sequence of the
\* stream it stood in the middle of is torn (StreamParser.push, acceptMarker).
LEMMA SwallowedReads ==
  ASSUME Withholds, Reads, NEW b \in Bytes, ReadByte(b), exiting = FALSE,
         NEW q, q = byte(p, b), Swallows(q, p, b)
  PROVE Reads' /\ OwnWritesBetween'
  <1>1. /\ p \in Parser /\ OneKept(p) /\ p.out = <<>> /\ p.swallowed = <<>> /\ lost = FALSE
        /\ Framed(p) /\ owed \in Seq(Bytes) /\ owed = p.pending \o p.run
    BY OwedIsTotal DEF Withholds
  <1>2. /\ p.kind = "marker" /\ p.esc = TRUE /\ b = "bslash" /\ p.run = <<>>
        /\ q \in Parser /\ q.out = <<>> /\ q.pending = <<>> /\ q.run = <<>>
        /\ q.swallowed = Append(p.pending, b)
    BY <1>1 DEF Swallows
  <1>3. p.pending \in Seq(Bytes) /\ p.pending # <<>> /\ owed = p.pending /\ Escaped(p)
    <2>1. Len(p.pending) >= 1 /\ p.state = "string"
      BY <1>1, <1>2, EscIsLast
    <2>2. p.pending \in Seq(Bytes)
      BY <1>1, ParserFields
    <2>3. p.pending \o <<>> = p.pending
      BY <2>2
    <2>4. p.pending # <<>>
      <3>1. Len(<<>>) = 0
        OBVIOUS
      <3> QED BY <2>1, <3>1
    <2> QED BY <1>1, <1>2, <2>1, <2>2, <2>3, <2>4, Zenon DEF Escaped
  <1>4. /\ OrderlyParser(p) /\ term \in Terminals /\ term.kind # "kitty"
        /\ InStep(p, term, TermRead(term, p.pending)) /\ Agree(p, TermRead(term, p.pending))
    <2>1. OrderlyParser(p) /\ term \in Terminals /\ Effects(p) /\ term.kind # "kitty"
      BY <1>2, <1>3 DEF Reads
    <2>2. Agree(p, TermRead(term, p.pending))
      BY <1>3, Zenon DEF Reads
    <2> QED BY <1>2, <1>3, <2>1, <2>2 DEF Effects
  <1>5. term.open = TRUE => p.open = TRUE
    BY <1>4 DEF InStep, Agree
  <1>6. q.state = "ground" /\ q.kind = "none" /\ q.esc = FALSE /\ q.utf = 0 /\ q.open = p.open
    <2>1. OpenerTaken(q, p, b)
      BY <1>1, <1>2, <1>3, <1>4, ByteEscaped DEF ESC
    <2> QED BY <1>2, <2>1, OpenerFacts DEF OpenerTaken
  <1>7. OrderlyParser(q) /\ Effects(q) /\ ~Escaped(q)
    BY <1>2, <1>6 DEF OrderlyParser, Effects, Escaped
  <1>8. q.swallowed # <<>> /\ TermRead(term, q.out) = term
    <2>1. Append(p.pending, b) # <<>>
      BY <1>3, AppendProperties
    <2> QED BY <1>2, <1>4, <2>1, ReadNothing, Zenon
  <1>9. PICK u \in Terminals : /\ u = [term EXCEPT !.cut = @ \/ (q.swallowed # <<>> /\ ~AtGround(term))]
                               /\ u.cut = FALSE => term.state = "ground" /\ term.utf = 0
                               /\ u.state = term.state /\ u.utf = term.utf /\ u.kind = term.kind
                               /\ u.open = term.open
    <2>1. PICK c \in BOOLEAN : c = (term.cut \/ (q.swallowed # <<>> /\ ~AtGround(term)))
      <3>1. (term.cut \/ (q.swallowed # <<>> /\ ~AtGround(term))) \in BOOLEAN
        BY <1>4, TerminalFields
      <3> QED BY <3>1
    <2> DEFINE u == [term EXCEPT !.cut = c]
    <2>2. term \in Screen /\ Orderly(term)
      BY <1>4, TerminalFields
    <2>3. u \in Screen
      BY <2>2 DEF Screen
    <2>4. /\ u.state = term.state /\ u.utf = term.utf /\ u.kind = term.kind /\ u.open = term.open
          /\ u.esc = term.esc /\ u.ctl = term.ctl /\ u.cut = c
      BY <2>2 DEF Screen
    <2>5. u = [term EXCEPT !.cut = @ \/ (q.swallowed # <<>> /\ ~AtGround(term))]
      BY <2>1
    <2> HIDE DEF u
    <2>6. u \in Terminals
      BY <2>2, <2>3, <2>4 DEF Terminals, Orderly
    <2>7. c = FALSE => term.state = "ground" /\ term.utf = 0
      BY <1>8, <2>1 DEF AtGround
    <2> QED BY <2>4, <2>5, <2>6, <2>7
  <1>10. Agree(q, u)
    <2>1. u.cut = FALSE => Lock(q, u)
      BY <1>6, <1>9 DEF Lock
    <2> QED BY <1>4, <1>5, <1>6, <1>7, <1>9, <2>1 DEF Agree
  <1>11. /\ Deliver(q, Append(p.pending, b))
         /\ \/ own' = None /\ term' = u
            \/ /\ atSafeBoundary(q) /\ Wrote("injection", u, owed') /\ term' = TermTransaction(u)
    BY <1>3, <1>8, <1>9, Zenon DEF ReadByte
  <1>12. Alike(p', q) /\ owed' = <<>>
    <2>1. Alike(p', q)
      BY <1>2, <1>11, DeliverAlike
    <2>2. owed' = p'.pending \o p'.run /\ p'.run = <<>>
      BY <1>1, <1>2, <1>11, Swallowed
    <2>3. <<>> \o <<>> = <<>>
      OBVIOUS
    <2> QED BY <1>2, <2>1, <2>2, <2>3, Zenon DEF Alike
  <1>13. term' \in Terminals /\ Agree(q, term')
    BY <1>7, <1>10, <1>11, <1>2, SafeBetween, Transacted
  <1>14. OwnWritesBetween'
    <2>1. CASE own' = None
      BY <2>1, NothingWritten
    <2>2. CASE atSafeBoundary(q) /\ Wrote("injection", u, owed')
      BY <1>2, <1>7, <1>10, <1>12, <2>2, SafeBetween, WroteBetween
    <2> QED BY <1>11, <2>1, <2>2
  <1>15. Agree(p', TermRead(term', owed'))
    <2>1. TermRead(term', owed') = term'
      BY <1>12, <1>13, ReadNothing, Zenon
    <2> QED BY <1>12, <1>13, <2>1, AlikeReads, Zenon
  <1>16. OrderlyParser(p') /\ Effects(p') /\ p'.pending = <<>>
    BY <1>2, <1>7, <1>12, AlikeReads, Zenon DEF Alike
  <1> QED BY <1>13, <1>14, <1>15, <1>16, Zenon DEF Reads

\* The end of a chunk, and what is written there (StreamParser.push, its last line,
\* and the handler of child.stdout).
LEMMA EndChunkReads ==
  ASSUME IInv, Withholds, Reads, EndChunk, exiting = FALSE
  PROVE Reads' /\ OwnWritesBetween'
  <1> DEFINE q == emitRun(p)
  <1>1. /\ p \in Parser /\ OneKept(p) /\ p.out = <<>> /\ p.swallowed = <<>> /\ lost = FALSE
        /\ owed \in Seq(Bytes) /\ Total(p) = owed
    BY OwedIsTotal DEF Withholds
  <1>2. PICK full \in Terminals : full = TermRead(term, owed)
    BY <1>1, ReadTerminal DEF Reads
  <1>3. /\ OrderlyParser(p) /\ term \in Terminals /\ Agree(p, full) /\ Effects(p)
        /\ (p.pending # <<>> /\ p.kind # "kitty" => term.kind # "kitty")
    BY <1>2 DEF Reads
  <1>4. /\ q \in Parser /\ Same(q, p) /\ q.pending = p.pending /\ q.run = <<>> /\ Total(q) = owed
        /\ q.swallowed = <<>>
    BY <1>1, RunEmitted DEF Same
  <1>5. PICK t \in Terminals : t = TermRead(term, q.out)
    BY <1>3, <1>4, ParserFields, ReadTerminal
  <1>6. /\ Deliver(q, owed) /\ err' = flushed(q)
        /\ \/ term' = t /\ IF err'.n < err.n THEN Wrote("stderr", t, owed') ELSE own' = None
           \/ atSafeBoundary(q) /\ Wrote("injection", t, owed') /\ term' = TermTransaction(t)
    BY <1>5, Zenon DEF EndChunk
  <1>7. q.out = p.out \o p.run
    BY <1>1 DEF emitRun, Parser
  <1> HIDE DEF q
  <1>8. OneKept(q) /\ Alike(q, p)
    BY <1>4, Zenon DEF OneKept, Same, Alike
  <1>9. /\ Alike(p', q) /\ owed' = q.pending \o <<>>
    <2>1. p'.pending = q.pending /\ p'.run = q.run /\ owed' = p'.pending \o p'.run
      BY <1>1, <1>4, <1>6, <1>8, Delivered
    <2> QED BY <1>4, <1>6, <2>1, DeliverAlike, Zenon
  <1>10. q.out \in Seq(Bytes) /\ q.pending \in Seq(Bytes) /\ p.run \in Seq(Bytes) /\ owed' = q.pending
    <2>1. q.out \in Seq(Bytes) /\ q.pending \in Seq(Bytes) /\ p.run \in Seq(Bytes)
      BY <1>1, <1>4, ParserFields
    <2>2. q.pending \o <<>> = q.pending
      BY <2>1
    <2> QED BY <1>9, <2>1, <2>2, Zenon
  <1>11. TermRead(t, owed') = full
    <2>1. q.out \o q.pending = owed
      <3>1. q.pending \o <<>> = q.pending
        BY <1>10
      <3> QED BY <1>4, <3>1, Zenon DEF Total
    <2>2. TermRead(term, q.out \o q.pending) = TermRead(t, q.pending)
      BY <1>3, <1>5, <1>10, ReadParts
    <2> QED BY <1>2, <1>10, <2>1, <2>2, Zenon
  <1>12. OrderlyParser(q) /\ Agree(q, full) /\ Effects(q)
    BY <1>3, <1>8, AlikeReads, Zenon
  <1>13. q.pending = <<>> => t = full /\ owed' = <<>>
    BY <1>5, <1>10, <1>11, ReadNothing, Zenon
  <1>14. q.pending # <<>> => t = term
    <2>1. ASSUME q.pending # <<>> PROVE t = term
      <3>1. p.run = <<>>
        BY <1>4, <2>1, <1>1, Zenon DEF OneKept
      <3>2. <<>> \o <<>> = <<>>
        OBVIOUS
      <3>3. q.out = <<>>
        BY <1>1, <1>7, <3>1, <3>2, Zenon
      <3> QED BY <1>3, <1>5, <3>3, ReadNothing, Zenon
    <2> QED BY <2>1
  <1>15. atSafeBoundary(q) => /\ Between(t) /\ owed' = <<>> /\ t = full
                              /\ Agree(q, TermTransaction(t))
    <2>1. ASSUME atSafeBoundary(q) PROVE /\ Between(t) /\ owed' = <<>> /\ t = full
                                         /\ Agree(q, TermTransaction(t))
      <3>1. t = full /\ owed' = <<>>
        BY <1>13, <2>1 DEF atSafeBoundary
      <3>2. Between(full) /\ Agree(q, TermTransaction(full))
        BY <1>4, <1>12, <2>1, SafeBetween
      <3> QED BY <3>1, <3>2, Zenon
    <2> QED BY <2>1
  <1>16. p'.pending = q.pending /\ p'.kind = p.kind
    BY <1>8, <1>9 DEF Alike
  <1>17. OrderlyParser(p') /\ Effects(p') /\ \A x : Agree(q, x) => Agree(p', x)
    BY <1>9, <1>12, AlikeReads, Zenon
  <1>18. CASE term' = t /\ IF err'.n < err.n THEN Wrote("stderr", t, owed') ELSE own' = None
    <2>1. Reads'
      <3>1. Agree(p', TermRead(term', owed'))
        BY <1>11, <1>12, <1>17, <1>18, Zenon
      <3>2. p'.pending # <<>> /\ p'.kind # "kitty" => term'.kind # "kitty"
        BY <1>3, <1>4, <1>14, <1>16, <1>18, Zenon
      <3> QED BY <1>17, <1>18, <3>1, <3>2, Zenon DEF Reads
    <2>2. CASE err'.n < err.n
      <3>1. atSafeBoundary(q)
        BY <1>6, <2>2 DEF flushed, IInv, ErrType
      <3>2. Wrote("stderr", t, owed')
        BY <1>18, <2>2
      <3>3. OwnWritesBetween'
        BY <1>15, <3>1, <3>2, WroteBetween
      <3> QED BY <2>1, <3>3
    <2>3. CASE ~(err'.n < err.n)
      BY <1>18, <2>1, <2>3, NothingWritten
    <2> QED BY <2>2, <2>3
  <1>19. CASE atSafeBoundary(q) /\ Wrote("injection", t, owed') /\ term' = TermTransaction(t)
    <2>1. term' \in Terminals /\ Agree(p', term')
      BY <1>15, <1>17, <1>19, Transacted
    <2>2. TermRead(term', owed') = term'
      BY <1>15, <1>19, <2>1, ReadNothing, Zenon
    <2>3. p'.pending = <<>>
      BY <1>16, <1>19 DEF atSafeBoundary
    <2>4. OwnWritesBetween'
      BY <1>15, <1>19, WroteBetween
    <2> QED BY <1>17, <2>1, <2>2, <2>3, <2>4, Zenon DEF Reads
  <1> QED BY <1>6, <1>18, <1>19

\* Between two chunks nothing read waits in the run.
LEMMA BetweenChunks ==
  ASSUME Withholds, Reads, chunk = 0, exiting = FALSE
  PROVE /\ p \in Parser /\ Framed(p) /\ OrderlyParser(p) /\ term \in Terminals /\ owed = p.pending
        /\ owed \in Seq(Bytes) /\ Effects(p)
        /\ atSafeBoundary(p) =>
             /\ owed = <<>> /\ Between(term) /\ Agree(p, TermTransaction(term))
  <1>1. /\ p \in Parser /\ owed = p.pending \o p.run /\ p.run = <<>> /\ Framed(p)
        /\ owed \in Seq(Bytes)
    BY OwedIsTotal DEF Withholds
  <1>2. owed = p.pending
    <2>1. p.pending \in Seq(Bytes)
      BY <1>1, ParserFields
    <2>2. p.pending \o <<>> = p.pending
      BY <2>1
    <2> QED BY <1>1, <2>2, Zenon
  <1>3. OrderlyParser(p) /\ term \in Terminals /\ Effects(p)
    BY DEF Reads
  <1>4. ASSUME atSafeBoundary(p)
        PROVE owed = <<>> /\ Between(term) /\ Agree(p, TermTransaction(term))
    <2>1. owed = <<>>
      BY <1>2, <1>4 DEF atSafeBoundary
    <2>2. TermRead(term, owed) = term
      BY <1>3, <2>1, ReadNothing, Zenon
    <2>3. Agree(p, term)
      BY <2>2, Zenon DEF Reads
    <2> QED BY <1>1, <1>3, <1>4, <2>1, <2>3, SafeBetween
  <1> QED BY <1>1, <1>2, <1>3, <1>4

\* A step that reads nothing and writes at most at a safe boundary.
LEMMA QuietReads ==
  ASSUME IInv, Withholds, Reads, exiting = FALSE, SurfaceReady \/ queueStderr \/ stderrTimer
  PROVE Reads' /\ OwnWritesBetween'
  <1>1. chunk = 0 /\ p' = p /\ owed' = owed
    BY DEF SurfaceReady, queueStderr, stderrTimer
  <1>2. /\ p \in Parser /\ OrderlyParser(p) /\ term \in Terminals /\ Effects(p)
        /\ atSafeBoundary(p) =>
             /\ owed = <<>> /\ Between(term) /\ Agree(p, TermTransaction(term))
    BY <1>1, BetweenChunks
  <1>3. CASE SurfaceReady
    <2>1. atSafeBoundary(p) /\ Wrote("injection", term, owed) /\ term' = TermTransaction(term)
      BY <1>3 DEF SurfaceReady
    <2>2. term' \in Terminals
      BY <1>2, <2>1, Transacted
    <2>3. TermRead(term', owed') = term'
      BY <1>1, <1>2, <2>1, <2>2, ReadNothing, Zenon
    <2>4. p.pending = <<>>
      BY <2>1 DEF atSafeBoundary
    <2>5. OwnWritesBetween'
      BY <1>2, <2>1, WroteBetween
    <2> QED BY <1>1, <1>2, <2>1, <2>2, <2>3, <2>4, <2>5, Zenon DEF Reads
  <1>4. CASE queueStderr \/ stderrTimer
    <2>1. term' = term
      BY <1>4 DEF queueStderr, stderrTimer
    <2>2. Reads'
      BY <1>1, <2>1, Zenon DEF Reads
    <2>3. (atSafeBoundary(p) /\ Wrote("stderr", term, owed)) \/ own' = None
      <3>1. CASE queueStderr
        BY <3>1 DEF queueStderr
      <3>2. CASE stderrTimer
        <4>1. err' = [n |-> flushed(p).n, timer |-> flushed(p).n > 0]
              /\ IF err'.n < err.n THEN Wrote("stderr", term, owed) ELSE own' = None
          BY <3>2 DEF stderrTimer
        <4>2. err'.n < err.n => atSafeBoundary(p)
          BY <4>1 DEF flushed, IInv, ErrType
        <4> QED BY <4>1, <4>2
      <3> QED BY <1>4, <3>1, <3>2
    <2>4. OwnWritesBetween'
      BY <1>2, <2>3, NothingWritten, WroteBetween
    <2> QED BY <2>2, <2>4
  <1> QED BY <1>3, <1>4

\* The deletions written when the client goes, wherever the stream stands
\* (local-main.js onClientChange).
LEMMA TeardownReads ==
  ASSUME Withholds, Reads, exiting = FALSE, onClientChange
  PROVE Reads' /\ OwnWritesBetween'
  <1>1. /\ chunk = 0 /\ p' = p /\ owed' = owed /\ Wrote("teardown", term, owed)
        /\ term' = [TermTransaction(term) EXCEPT !.cut = ~atSafeBoundary(p)]
    BY DEF onClientChange
  <1>2. /\ p \in Parser /\ Framed(p) /\ OrderlyParser(p) /\ term \in Terminals /\ Effects(p)
        /\ owed = p.pending
    BY <1>1, BetweenChunks
  <1>3. PICK c \in BOOLEAN : c = ~atSafeBoundary(p)
    OBVIOUS
  <1>4. PICK t \in Terminals : /\ t = term' /\ t.state = "ground" /\ t.utf = 0 /\ t.kind = "none"
                               /\ t.open = FALSE /\ t.cut = c
    <2>1. PICK x \in Terminals : /\ x = TermTransaction(term) /\ x.state = "ground" /\ x.utf = 0
                                 /\ x.kind = "none" /\ x.open = FALSE
      BY <1>2, Transacted
    <2> DEFINE t == [x EXCEPT !.cut = c]
    <2>2. x \in Screen /\ Orderly(x)
      BY TerminalFields
    <2>3. t \in Screen
      BY <2>2 DEF Screen
    <2>4. /\ t.state = "ground" /\ t.utf = 0 /\ t.kind = "none" /\ t.open = FALSE /\ t.cut = c
          /\ t.esc = x.esc
      BY <2>1, <2>2 DEF Screen
    <2>5. t = term'
      BY <1>1, <1>3, <2>1
    <2> HIDE DEF t
    <2>6. t \in Terminals
      BY <2>1, <2>2, <2>3, <2>4 DEF Terminals, Orderly
    <2> QED BY <2>4, <2>5, <2>6
  <1>5. Agree(p, TermRead(t, p.pending))
    <2>1. CASE p.pending = <<>>
      <3>1. TermRead(t, p.pending) = t
        BY <2>1, ReadNothing, Zenon
      <3>2. ~Escaped(p)
        <4>1. p.state # "esc"
          <5>1. <<ESC>> # <<>>
            OBVIOUS
          <5> QED BY <1>2, <2>1, <5>1, Zenon DEF Framed
        <4>2. p.esc # TRUE
          <5>1. ASSUME p.esc = TRUE PROVE FALSE
            <6>1. OneKept(p)
              BY <2>1 DEF OneKept
            <6>2. Len(p.pending) >= 1 /\ Len(<<>>) = 0
              BY <1>2, <5>1, <6>1, EscIsLast
            <6> QED BY <2>1, <6>2
          <5> QED BY <5>1
        <4> QED BY <4>1, <4>2 DEF Escaped
      <3>3. p.kind # "apc-intro"
        <4>1. ASSUME p.kind = "apc-intro" PROVE FALSE
          <5>1. p.state = "string"
            BY <1>2, <4>1 DEF OrderlyParser
          <5>2. <<ESC, "_">> # <<>> /\ <<ESC, "_", ESC>> # <<>>
            OBVIOUS
          <5> QED BY <1>2, <2>1, <4>1, <5>1, <5>2, Zenon DEF Framed
        <4> QED BY <4>1
      <3>4. t.cut = FALSE => Lock(p, t)
        BY <1>3, <1>4 DEF atSafeBoundary, Lock
      <3>5. Agree(p, t)
        BY <1>4, <3>2, <3>3, <3>4 DEF Agree
      <3> QED BY <3>1, <3>5, Zenon
    <2>2. CASE p.pending # <<>> /\ p.kind # "kitty"
      <3>1. InStep(p, t, TermRead(t, p.pending))
        BY <1>2, <1>4, <2>2 DEF Effects
      <3> QED BY <1>4, <3>1 DEF InStep, Agree
    <2>3. CASE p.pending # <<>> /\ p.kind = "kitty"
      <3>1. p.state = "string"
        BY <1>2, <2>3 DEF OrderlyParser
      <3>2. p.esc = TRUE /\ p.pending = <<ESC>>
        BY <1>2, <2>3, <3>1, ParserFields DEF Framed
      <3>3. EscShown(TermRead(t, <<ESC>>), t)
        BY ReadEsc, StepsOnEsc
      <3>4. Agree(p, TermRead(t, <<ESC>>))
        BY <1>4, <3>1, <3>2, <3>3 DEF EscShown, Agree, Lock, Escaped
      <3> QED BY <3>2, <3>4, Zenon
    <2> QED BY <2>1, <2>2, <2>3
  <1>6. Agree(p', TermRead(term', owed'))
    BY <1>1, <1>2, <1>4, <1>5, Zenon
  <1>7. term' \in Terminals /\ term'.kind # "kitty"
    BY <1>4
  <1>8. own'.what = "teardown"
    BY <1>1 DEF Wrote
  <1>9. OwnWritesBetween'
    BY <1>8 DEF OwnWritesBetween
  <1> QED BY <1>1, <1>2, <1>6, <1>7, <1>9, Zenon DEF Reads

OwnInv ==
  /\ IInv /\ Withholds /\ OwnWritesBetween
  /\ exiting = FALSE => Reads

LEMMA InitOwnInv == Init => OwnInv
  <1> SUFFICES ASSUME Init PROVE OwnInv
    OBVIOUS
  <1>1. own.what = "nothing"
    BY DEF Init, None
  <1>2. OwnWritesBetween
    BY <1>1 DEF OwnWritesBetween
  <1> QED BY <1>2, InitIInv, InitWithholds, InitReads DEF OwnInv

LEMMA NextOwnInv == OwnInv /\ [Next]_vars => OwnInv'
  <1> SUFFICES ASSUME OwnInv, [Next]_vars PROVE OwnInv'
    OBVIOUS
  <1>1. IInv /\ Withholds /\ OwnWritesBetween /\ (exiting = FALSE => Reads) /\ exiting \in BOOLEAN
    BY DEF OwnInv, Withholds
  <1>2. IInv' /\ Withholds'
    BY <1>1, NextIInv, NextWithholds
  <1>3. ASSUME NEW b \in Bytes, ReadByte(b) PROVE OwnWritesBetween' /\ Reads'
    <2>1. exiting = FALSE /\ Reads
      BY <1>1, <1>3 DEF ReadByte
    <2>2. /\ p \in Parser /\ OneKept(p) /\ Framed(p) /\ p.swallowed = <<>>
      BY <1>1, <2>1 DEF Withholds
    <2>3. CASE Passes(byte(p, b), Append(Total(p), b))
      <3>1. Reads' /\ own' = None
        BY <1>1, <1>3, <2>1, <2>3, PassedReads
      <3> QED BY <3>1, NothingWritten
    <2>4. CASE Swallows(byte(p, b), p, b)
      BY <1>1, <1>3, <2>1, <2>4, SwallowedReads
    <2> QED BY <2>2, <2>3, <2>4, BytePasses
  <1>4. CASE EndChunk
    <2>1. exiting = FALSE
      <3>1. chunk > 0 /\ (exiting = TRUE => chunk = 0)
        BY <1>1, <1>4 DEF EndChunk, Withholds
      <3> QED BY <1>1, <3>1
    <2>2. Reads' /\ OwnWritesBetween'
      BY <1>1, <1>4, <2>1, EndChunkReads
    <2> QED BY <1>2, <2>2 DEF OwnInv
  <1>5. CASE SurfaceReady \/ queueStderr \/ stderrTimer
    <2>1. exiting = FALSE
      BY <1>1, <1>5 DEF SurfaceReady, queueStderr, stderrTimer
    <2>2. Reads' /\ OwnWritesBetween'
      BY <1>1, <1>5, <2>1, QuietReads
    <2> QED BY <1>2, <2>2 DEF OwnInv
  <1>6. CASE onClientChange
    <2>1. exiting = FALSE
      BY <1>1, <1>6 DEF onClientChange
    <2>2. Reads' /\ OwnWritesBetween'
      BY <1>1, <1>6, <2>1, TeardownReads
    <2> QED BY <1>2, <2>2 DEF OwnInv
  <1>7. CASE cleanup
    <2>1. own' = [what |-> "exit", between |-> TRUE] /\ exiting' = TRUE
      BY <1>7 DEF cleanup
    <2>2. own'.what = "exit"
      BY <2>1
    <2>3. OwnWritesBetween'
      BY <2>2 DEF OwnWritesBetween
    <2> QED BY <1>2, <2>1, <2>3 DEF OwnInv
  <1>8. CASE UNCHANGED vars
    <2>1. /\ p' = p /\ term' = term /\ owed' = owed /\ own' = own /\ exiting' = exiting
      BY <1>8 DEF vars
    <2>2. OwnWritesBetween' /\ (exiting' = FALSE => Reads')
      BY <1>1, <2>1, Zenon DEF OwnWritesBetween, Reads
    <2> QED BY <1>2, <2>2 DEF OwnInv
  <1> QED BY <1>2, <1>3, <1>4, <1>5, <1>6, <1>7, <1>8 DEF Next, OwnInv

\* Whatever the stream and however it is cut, for every token and every bound on a
\* marker: an injected frame and queued stderr fall between two sequences of the
\* stream, outside of a character and of an image whose last part is still to come,
\* and behind every byte read before them, also after a marker or a teardown has torn
\* a sequence (stream-parser.js atSafeBoundary; local-main.js tryInject, flushStderr).
THEOREM OwnWritesBetweenHolds == Spec => []OwnWritesBetween
  <1>1. OwnInv => OwnWritesBetween
    BY DEF OwnInv
  <1> QED BY <1>1, InitOwnInv, NextOwnInv, PTL DEF Spec
=============================================================================
