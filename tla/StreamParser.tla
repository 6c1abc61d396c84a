------------------------------ MODULE StreamParser ------------------------------
(***************************************************************************)
(* The filter of the local render helper (renderer/src/local/stream-       *)
(* parser.js and the part of local-main.js that drives it).                *)
(*                                                                         *)
(* The helper sits between ssh and the terminal.  Every byte it reads is   *)
(* passed on, except whole markers that carry its token, and wherever the  *)
(* parser reports a safe boundary the helper may write something of its    *)
(* own: an injected frame, or queued stderr.                               *)
(*                                                                         *)
(* Bytes are one symbol for each class the parser tells apart.  "m" stands  *)
(* for the field m=1 of a graphics command's control string, "k" for a     *)
(* byte of the token.  The stream is any sequence of bytes, cut into  *)
(* chunks anywhere.  What is read and not yet passed on is remembered in   *)
(* owed, and term is the terminal: it reads only what is passed on.        *)
(***************************************************************************)
EXTENDS Naturals, SequencesExt

CONSTANTS
    Prefix,      \* the token prefix of a marker, a sequence of bytes
    MarkerMax,   \* MARKER_CANDIDATE_MAX, the bound on a withheld candidate
    MaxChunk,    \* bound of the model: bytes in one chunk of ssh's output
    MaxErr       \* bound of the model: chunks of stderr waiting

VARIABLES
    p,      \* the parser's state; p.out is what one step passes on
    term,   \* the terminal's tokenizer
    owed,   \* bytes read, not passed on and not swallowed
    lost,   \* some byte was passed on out of turn, or swallowed wrongly
    chunk,  \* bytes of the current chunk already read; 0 between chunks
    err,    \* stderrQueue: [n |-> chunks waiting, timer |-> armed]
    own,    \* the helper's last own write, and whether it fell between sequences
    exiting \* cleanup has run

vars == <<p, term, owed, lost, chunk, err, own, exiting>>

ESC == "esc"
Final == {"_", "M", "G", "bslash", "[", "]", "P", "k", "m"}
Bytes == Final \cup {ESC, ";", "bel", "sp", "lead", "cont"}
LeadLength == 2

ASSUME StreamAssumption == Prefix \in Seq(Bytes) /\ {MarkerMax, MaxChunk, MaxErr} \subseteq Nat

NoControl == [done |-> FALSE, fields |-> {}]

Parser0 == [state |-> "ground", kind |-> "none", esc |-> FALSE, utf |-> 0,
            ctl |-> NoControl, open |-> FALSE, run |-> <<>>, pending |-> <<>>,
            committed |-> FALSE, pos |-> 0, out |-> <<>>, swallowed |-> <<>>]

-----------------------------------------------------------------------------
(* Passing bytes on: the streaming run and the one withheld region. *)

emitRun(q) == [q EXCEPT !.out = @ \o q.run, !.run = <<>>]

releasePending(q) ==
    [q EXCEPT !.out = @ \o q.pending, !.pending = <<>>, !.committed = FALSE, !.pos = 0]

\* A mutation of hold: what runs before the ESC is not passed on first.
holdEarly(q, b) == [q EXCEPT !.pending = Append(@, b)]

hold(q, b) == [emitRun(q) EXCEPT !.pending = Append(@, b)]

\* The byte stays in the run that is passed on at the end of the chunk.
stream(q, b) == [q EXCEPT !.run = Append(@, b)]

\* pending.push(b); releasePending(); runStart = i + 1
pushAndRelease(q, b) ==
    [releasePending([q EXCEPT !.pending = Append(@, b)]) EXCEPT !.run = <<>>]

utf8After(n, b) == CASE b = "lead"          -> LeadLength
                     [] b = "cont" /\ n > 0 -> n - 1
                     [] OTHER               -> 0

-----------------------------------------------------------------------------
(* The kitty control string: only an unfinished m=1 train matters. *)

\* A fresh command and a continuation both leave the train open iff m=1.
applyKittyControl(q) == [q EXCEPT !.open = "m" \in q.ctl.fields]

kittyByte(q, b) ==
    IF q.ctl.done THEN q
    ELSE IF b = ";" THEN applyKittyControl([q EXCEPT !.ctl.done = TRUE])
    ELSE [q EXCEPT !.ctl.fields = @ \cup ({b} \cap {"m"})]

finishKittyControl(q) ==
    [IF q.ctl.done THEN q ELSE applyKittyControl(q) EXCEPT !.ctl = NoControl]

-----------------------------------------------------------------------------
(* One operator for each state of the switch in byte(). *)

inGround(q, b) ==
    IF b = ESC THEN hold([q EXCEPT !.state = "esc", !.utf = 0], b)
    ELSE stream([q EXCEPT !.utf = utf8After(@, b)], b)

openerState(b) == CASE b = "["       -> "csi"
                    [] b \in {"]", "P"} -> "string"
                    [] b = "sp"      -> "esc-int"
                    [] OTHER         -> "ground"
openerKind(b) == CASE b = "]" -> "osc" [] b = "P" -> "str" [] OTHER -> "none"

inEsc(q, b) ==
    CASE b = "_" -> hold([q EXCEPT !.state = "string", !.kind = "apc-intro"], b)
      [] b = ESC -> hold(releasePending(q), b)
      [] OTHER   -> [pushAndRelease(q, b) EXCEPT !.state = openerState(b),
                                                 !.kind  = openerKind(b)]

inEscInt(q, b) ==
    IF b = ESC THEN hold([q EXCEPT !.state = "esc"], b)
    ELSE stream([q EXCEPT !.state = IF b = "sp" THEN @ ELSE "ground"], b)

inCsi(q, b) ==
    IF b = ESC THEN hold([q EXCEPT !.state = "esc"], b)
    ELSE stream([q EXCEPT !.state = IF b \in Final THEN "ground" ELSE @], b)

abortStringToEsc(q, b) ==
    LET flushed == releasePending([q EXCEPT !.pending = Front(@)])
    IN  inEsc([flushed EXCEPT !.pending = <<Last(q.pending)>>, !.esc = FALSE,
                              !.kind = "none", !.state = "esc"], b)

\* ST: a committed marker is swallowed, anything else goes out as it came.
endString(q, b) ==
    LET ended == [q EXCEPT !.state = "ground", !.kind = "none", !.esc = FALSE]
    IN  CASE q.kind = "marker" /\ q.committed ->
               [ended EXCEPT !.swallowed = Append(q.pending, b), !.pending = <<>>,
                             !.committed = FALSE, !.pos = 0, !.run = <<>>]
          [] q.kind = "marker" /\ ~q.committed -> pushAndRelease(ended, b)
          [] q.kind = "kitty" ->
               finishKittyControl(stream(releasePending(ended), b))
          [] OTHER -> stream(releasePending(ended), b)

apcIntro(q, b) ==
    CASE b = "M" -> hold([q EXCEPT !.kind = "marker", !.committed = Prefix = <<>>,
                                   !.pos = 0], b)
      [] b = "G" -> [pushAndRelease(q, b) EXCEPT !.kind = "kitty", !.ctl = NoControl]
      [] OTHER   -> [pushAndRelease(q, b) EXCEPT !.kind = "apc"]

markerByte(q, b) ==
    LET held    == hold(q, b)
        foreign == [releasePending(held) EXCEPT !.kind = "apc"]
    IN  IF q.committed
        THEN IF Len(held.pending) > MarkerMax THEN foreign ELSE held
        ELSE IF Prefix[q.pos + 1] # b THEN foreign
        ELSE [held EXCEPT !.pos = @ + 1, !.committed = q.pos + 1 = Len(Prefix)]

inString(q, b) ==
    CASE q.esc /\ b # "bslash" -> abortStringToEsc(q, b)
      [] q.esc /\ b = "bslash" -> endString(q, b)
      [] ~q.esc /\ b = ESC     -> hold([q EXCEPT !.esc = TRUE], b)
      [] OTHER -> CASE q.kind = "apc-intro" -> apcIntro(q, b)
                    [] q.kind = "marker"    -> markerByte(q, b)
                    [] q.kind = "kitty"     -> stream(kittyByte(q, b), b)
                    [] q.kind = "osc" /\ b = "bel" ->
                         stream([q EXCEPT !.state = "ground", !.kind = "none"], b)
                    [] OTHER -> stream(q, b)

byte(q, b) == CASE q.state = "ground"  -> inGround(q, b)
                [] q.state = "esc"     -> inEsc(q, b)
                [] q.state = "esc-int" -> inEscInt(q, b)
                [] q.state = "csi"     -> inCsi(q, b)
                [] q.state = "string"  -> inString(q, b)

\* A mutation of atSafeBoundary: an unfinished image is forgotten.
atSafeBoundaryAnyTrain(q) == q.state = "ground" /\ q.utf = 0 /\ q.pending = <<>>

atSafeBoundary(q) ==
    q.state = "ground" /\ q.utf = 0 /\ ~q.open /\ q.pending = <<>>

-----------------------------------------------------------------------------
(* The terminal (external): the same framing, read from what it is given.  A *)
(* graphics command takes effect when it ends; ESC ends any sequence.        *)

Term0 == [state |-> "ground", kind |-> "none", esc |-> FALSE, utf |-> 0,
          ctl |-> NoControl, open |-> FALSE, cut |-> FALSE]

TermControl(c, b) ==
    IF b = ";" THEN [c EXCEPT !.done = TRUE]
    ELSE [c EXCEPT !.fields = IF c.done THEN @ ELSE @ \cup ({b} \cap {"m"})]

TermString(t, b) ==
    IF t.esc /\ b = "bslash"
    THEN [t EXCEPT !.state = "ground", !.kind = "none", !.esc = FALSE, !.ctl = NoControl,
                   !.open = IF t.kind = "kitty" THEN "m" \in t.ctl.fields ELSE @]
    ELSE IF b = ESC THEN [t EXCEPT !.esc = TRUE]
    ELSE CASE t.kind = "apc-intro" -> [t EXCEPT !.kind = IF b = "G" /\ ~t.cut THEN "kitty" ELSE "apc"]
           [] t.kind = "osc" /\ b = "bel" -> [t EXCEPT !.state = "ground", !.kind = "none"]
           [] t.kind = "kitty" -> [t EXCEPT !.ctl = TermControl(@, b)]
           [] OTHER -> t

TermByte(t, b) ==
    LET opened == [t EXCEPT !.state = IF b = "_" THEN "string" ELSE openerState(b),
                            !.kind = IF b = "_" THEN "apc-intro" ELSE openerKind(b),
                            !.esc = FALSE, !.ctl = NoControl]
    IN  CASE t.state = "string" /\ t.esc /\ b # "bslash" /\ b # ESC -> opened
          [] t.state = "string" /\ t.esc /\ b = ESC ->
               [t EXCEPT !.state = "esc", !.kind = "none", !.esc = FALSE, !.ctl = NoControl]
          [] t.state = "string" /\ (~t.esc \/ b = "bslash") -> TermString(t, b)
          [] t.state # "string" /\ b = ESC -> [t EXCEPT !.state = "esc", !.utf = 0]
          [] t.state = "esc" /\ b # ESC -> opened
          [] t.state = "esc-int" /\ b # ESC ->
               [t EXCEPT !.state = IF b = "sp" THEN @ ELSE "ground"]
          [] t.state = "csi" /\ b # ESC ->
               [t EXCEPT !.state = IF b \in Final THEN "ground" ELSE @]
          [] OTHER -> [t EXCEPT !.utf = utf8After(@, b)]

\* cut: a swallowed marker, or a teardown, stood in the middle of a sequence;
\* terminal and parser disagree where it ends, until the next ESC.  (What the
\* terminal makes of the torn sequence is then no graphics command.)
AtGround(t) == t.state = "ground" /\ t.utf = 0
Between(t)  == t.cut \/ (AtGround(t) /\ ~t.open)

TermStep(t, b) == [TermByte(t, b) EXCEPT !.cut = t.cut /\ b # ESC]

TermRead(t, bytes) ==
    LET read[n \in 0..Len(bytes)] == IF n = 0 THEN t ELSE TermStep(read[n - 1], bytes[n])
    IN  read[Len(bytes)]

\* A transaction of the helper begins with ESC and ends its last sequence; it
\* ruins an m=1 train it falls into.
TermTransaction(t) == [t EXCEPT !.state = "ground", !.kind = "none", !.esc = FALSE,
                                !.utf = 0, !.open = FALSE, !.cut = FALSE]

IsMarker(s) == /\ Len(s) >= 5 + Len(Prefix)
               /\ SubSeq(s, 1, 3 + Len(Prefix)) = <<ESC, "_", "M">> \o Prefix
               /\ SubSeq(s, Len(s) - 1, Len(s)) = <<ESC, "bslash">>

-----------------------------------------------------------------------------
None == [what |-> "nothing", between |-> TRUE]

Init ==
    /\ p = Parser0 /\ term = Term0
    /\ owed = <<>> /\ lost = FALSE /\ chunk = 0
    /\ err = [n |-> 0, timer |-> FALSE]
    /\ own = None /\ exiting = FALSE

\* What the step q did with the bytes owed before it, b the byte just read.
Deliver(q, before) ==
    LET out  == IF IsPrefix(q.out, before) THEN Len(q.out) ELSE 0
        left == SubSeq(before, out + 1, Len(before))
    IN  /\ p' = [q EXCEPT !.out = <<>>, !.swallowed = <<>>]
        /\ lost' = (lost \/ q.out # SubSeq(before, 1, out)
                         \/ (q.swallowed # <<>> /\ (q.swallowed # left \/ ~IsMarker(left))))
        /\ owed' = IF q.swallowed # <<>> THEN <<>> ELSE left

Wrote(what, t, left) == own' = [what |-> what, between |-> Between(t) /\ left = <<>>]

\* Programs end the graphics commands they begin.
Plausible(b) == p.kind = "kitty" /\ p.esc => b = "bslash"

\* One byte of push().  onMarker is called inside the push: acceptMarker goes
\* on to tryInject, which writes if there is something to write.
ReadByte(b) ==
    LET q == byte(p, b)
        t == TermRead(term, q.out)
        u == [t EXCEPT !.cut = @ \/ (q.swallowed # <<>> /\ ~AtGround(t))]
    IN  /\ chunk < MaxChunk /\ ~exiting /\ Plausible(b)
        /\ chunk' = chunk + 1
        /\ Deliver(q, Append(owed, b))
        /\ \/ own' = None /\ term' = u
           \/ /\ q.swallowed # <<>> /\ atSafeBoundary(q)
              /\ Wrote("injection", u, owed')
              /\ term' = TermTransaction(u)
        /\ UNCHANGED <<err, exiting>>

\* flushStderr(false): every queued chunk in one go, at a safe boundary.
flushed(q) == IF atSafeBoundary(q) THEN [err EXCEPT !.n = 0] ELSE err

\* The end of push, then the boundary check of child.stdout's handler.
EndChunk ==
    LET q == emitRun(p)
        t == TermRead(term, q.out)
    IN  /\ chunk > 0 /\ chunk' = 0
        /\ Deliver(q, owed)
        /\ err' = flushed(q)
        /\ \/ term' = t /\ IF err'.n < err.n THEN Wrote("stderr", t, owed') ELSE own' = None
           \/ /\ atSafeBoundary(q) /\ Wrote("injection", t, owed')
              /\ term' = TermTransaction(t)
        /\ UNCHANGED exiting

\* onSurfaceReady: between two callbacks of the stream.
SurfaceReady ==
    /\ chunk = 0 /\ ~exiting /\ atSafeBoundary(p)
    /\ Wrote("injection", term, owed) /\ term' = TermTransaction(term)
    /\ UNCHANGED <<p, owed, lost, chunk, err, exiting>>

queueStderr ==
    /\ chunk = 0 /\ ~exiting /\ err.n < MaxErr
    /\ IF atSafeBoundary(p)
       THEN err' = [err EXCEPT !.n = 0] /\ Wrote("stderr", term, owed)
       ELSE err' = [n |-> err.n + 1, timer |-> TRUE] /\ own' = None
    /\ UNCHANGED <<p, term, owed, lost, chunk, exiting>>

\* A mutation of stderrTimer: the timer is not armed again.
stderrTimerOnce ==
    /\ chunk = 0 /\ ~exiting /\ err.timer
    /\ err' = [n |-> flushed(p).n, timer |-> FALSE]
    /\ IF err'.n < err.n THEN Wrote("stderr", term, owed) ELSE own' = None
    /\ UNCHANGED <<p, term, owed, lost, chunk, exiting>>

stderrTimer ==
    /\ chunk = 0 /\ ~exiting /\ err.timer
    /\ err' = [n |-> flushed(p).n, timer |-> flushed(p).n > 0]
    /\ IF err'.n < err.n THEN Wrote("stderr", term, owed) ELSE own' = None
    /\ UNCHANGED <<p, term, owed, lost, chunk, exiting>>

\* The attached Neovim is gone: the injector's deletions are written at once.
onClientChange ==
    /\ chunk = 0 /\ ~exiting
    /\ Wrote("teardown", term, owed)
    /\ term' = [TermTransaction(term) EXCEPT !.cut = ~atSafeBoundary(p)]
    /\ UNCHANGED <<p, owed, lost, chunk, err, exiting>>

\* cleanup: flush(), then stderr and the deletions whatever the boundary.  What
\* the child still prints before the process is gone is left out.
cleanup ==
    LET q == [releasePending(p) EXCEPT !.kind = IF @ = "marker" THEN "apc" ELSE @]
    IN  /\ chunk = 0 /\ ~exiting /\ exiting' = TRUE
        /\ Deliver(q, owed)
        /\ term' = TermTransaction(TermRead(term, q.out))
        /\ err' = [err EXCEPT !.n = 0]
        /\ own' = [what |-> "exit", between |-> TRUE]
        /\ UNCHANGED chunk

Next ==
    \/ \E b \in Bytes : ReadByte(b)
    \/ EndChunk \/ SurfaceReady \/ queueStderr \/ stderrTimer \/ onClientChange \/ cleanup

Spec == Init /\ [][Next]_vars

-----------------------------------------------------------------------------
TypeOK ==
    /\ p.state \in {"ground", "esc", "esc-int", "csi", "string"}
    /\ p.kind \in {"none", "osc", "str", "apc-intro", "apc", "kitty", "marker"}
    /\ Len(p.pending) <= MarkerMax + 2 /\ p.utf \in 0..LeadLength
    /\ chunk \in 0..MaxChunk /\ err.n \in 0..MaxErr

\* The filter is the identity but for whole markers with its token: what it
\* has read and not passed on is what it withholds, in order, and nothing is
\* passed on twice, out of turn, or dropped (the header of stream-parser.js).
Verbatim ==
    /\ ~lost /\ owed = p.pending \o p.run /\ (p.pending = <<>> \/ p.run = <<>>)
    /\ chunk = 0 => p.run = <<>>
    /\ exiting => owed = <<>>

\* What the helper writes on its own at what the parser calls a safe boundary
\* falls between two of the stream's sequences: not inside an escape sequence,
\* a character or an unfinished image, and after every byte read before it.
OwnWritesBetween == own.what \in {"injection", "stderr"} => own.between

\* Queued stderr always has a timer that will drain it, and none is kept at
\* exit, although any of four places may empty the queue or stop the timer.
StderrNotStranded == /\ err.n > 0 => err.timer
                     /\ exiting => err.n = 0

=============================================================================
