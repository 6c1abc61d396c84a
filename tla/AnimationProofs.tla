---------------------------- MODULE AnimationProofs ----------------------------
(***************************************************************************)
(* What is remembered as a still image is one because of its bytes, of the *)
(* size it is drawn at or of the page's own answer, and never because of   *)
(* trouble reported as an error; the books of the store are its disk,      *)
(* within the budget; and an animation lasts as long as its source,        *)
(* however it is thinned: for all images, documents, sizes and limits.     *)
(*                                                                         *)
(* A refusal travels: from a build or from a request's immediate answer    *)
(* into the request's answers, and from there to the pane, which may have  *)
(* changed size meanwhile.  IInv follows it all the way.                   *)
(*                                                                         *)
(* The books need more than themselves: that no key has two entries, and   *)
(* none has an entry and a build, for the directory of the one would be    *)
(* the other's.  StoreInv says so, and the rest is arithmetic: sums of     *)
(* sequences, the places of the frames that are kept, and the whole        *)
(* division that chooses them.  A sum is a function defined by recursion;  *)
(* what holds of it is proved by taking the least place where it would not.*)
(***************************************************************************)
EXTENDS Animation, SequenceTheorems, WellFoundedInduction, TLAPS

-----------------------------------------------------------------------------
(* Refusals. *)

Assets == {"none", "want", "frames", "plays", "refused", "turnedAway"}

\* The input's own fault, or what the page answered.
Still(k, byPage) == Len(Clip[k[1]]) < 2 \/ frameBudget[k[2]] < 2 \/ k \in byPage

\* Each place a refusal can be: the store, the answers of the request under way,
\* for the size it was made for, and the pane, for the size drawn now.
StoreRefusals == \A k \in refused : Still(k, pageRefused)
AnswerRefusals == \A s \in DOMAIN asked.got : asked.got[s] = "refused" =>
                      Still(Key(s, asked.size), pageRefused)
PaneRefusals == \A s \in Shas : asset[s] = "refused" => Still(Key(s, size), pageRefused)

PaneType ==
  /\ asset \in [Shas -> Assets]
  /\ asked = [size |-> asked.size, got |-> asked.got]
  /\ asked.got = [s \in DOMAIN asked.got |-> asked.got[s]]

IInv == PaneType /\ StoreRefusals /\ AnswerRefusals /\ PaneRefusals

LEMMA InitIInv == Init => IInv
  BY DEF Init, IInv, PaneType, StoreRefusals, AnswerRefusals, PaneRefusals, None, Assets

\* Asking remembers as refused only keys whose size leaves no two frames.
LEMMA MaterializeRefusals ==
  ASSUME StoreRefusals, NEW shas, NEW wanted, NEW w, materialize(shas, wanted, w)
  PROVE  StoreRefusals'
<1>1. \A k \in refused' : k \in refused \/ frameBudget[k[2]] < 2
  <2>1. PICK T : refused' = refused \cup {Key(s, w) : s \in {t \in T : frameBudget[w] < 2}}
    BY DEF materialize
  <2> QED BY <2>1 DEF Key
<1>2. pageRefused' = pageRefused
  BY DEF materialize
<1>3. QED
  BY <1>1, <1>2 DEF StoreRefusals, Still

\* An answer given at once is a refusal only for a still image.
LEMMA ImmediateRefusals ==
  ASSUME StoreRefusals, NEW k, immediate(k) = "refused"
  PROVE  Still(k, pageRefused)
  BY DEF immediate, StoreRefusals, Still

\* What the page has refused stays so.
LEMMA StillStays ==
  ASSUME NEW k, NEW P, NEW Q, P \subseteq Q, Still(k, P)
  PROVE  Still(k, Q)
  BY DEF Still

\* A build's outcome is a refusal for its askers only if its key is a still image.
LEMMA SettleRefusals ==
  ASSUME IInv, NEW outcome, settle(outcome), pageRefused \subseteq pageRefused',
         outcome = "refused" => Still(jobs[1].key, pageRefused')
  PROVE  PaneType' /\ AnswerRefusals' /\ PaneRefusals'
<1> DEFINE got == [s \in DOMAIN asked.got |->
                     IF Key(s, asked.size) = jobs[1].key /\ asked.got[s] = "?"
                     THEN outcome ELSE asked.got[s]]
<1>1. asked' = [size |-> asked.size, got |-> got] /\ asset' = asset /\ size' = size
  BY DEF settle, IInv, PaneType
<1>2. PaneType'
  BY <1>1 DEF IInv, PaneType
<1>3. PaneRefusals'
  BY <1>1, StillStays DEF IInv, PaneRefusals
<1>4. AnswerRefusals'
  <2>1. SUFFICES ASSUME NEW s \in DOMAIN asked.got, got[s] = "refused"
                 PROVE  Still(Key(s, asked.size), pageRefused')
    BY <1>1 DEF AnswerRefusals
  <2>2. CASE Key(s, asked.size) = jobs[1].key /\ asked.got[s] = "?"
    BY <2>1, <2>2
  <2>3. CASE ~(Key(s, asked.size) = jobs[1].key /\ asked.got[s] = "?")
    BY <2>1, <2>3, StillStays DEF IInv, AnswerRefusals
  <2>4. QED
    BY <2>2, <2>3
<1>5. QED
  BY <1>2, <1>3, <1>4

\* A build that fails leaves no refusal.
LEMMA FailIInv == ASSUME IInv, fail PROVE IInv'
<1>1. PaneType' /\ AnswerRefusals' /\ PaneRefusals'
  BY SettleRefusals DEF fail
<1>2. StoreRefusals'
  BY DEF fail, StoreRefusals, IInv
<1>3. QED
  BY <1>1, <1>2 DEF IInv

\* What leaves the pane, the request and the store's refusals alone keeps the
\* invariant.
LEMMA UntouchedIInv ==
  ASSUME IInv, UNCHANGED <<refused, pageRefused, asked, asset, size>>
  PROVE  IInv'
  BY DEF IInv, PaneType, StoreRefusals, AnswerRefusals, PaneRefusals

LEMMA DecodeIInv == ASSUME IInv, Decode \/ EnvironmentFails PROVE IInv'
<1>1. CASE StartDecode
  BY <1>1, FailIInv, UntouchedIInv DEF StartDecode, pane
<1>2. CASE DecodeFails
  BY <1>2, FailIInv, UntouchedIInv DEF DecodeFails, pane
<1>3. CASE EnvironmentFails
  BY <1>3, FailIInv DEF EnvironmentFails
<1>4. CASE Decoded
  <2> DEFINE key == jobs[1].key
  <2>1. CASE settle("ok") /\ UNCHANGED <<refused, pageRefused>>
    <3>1. PaneType' /\ AnswerRefusals' /\ PaneRefusals'
      BY <2>1, SettleRefusals
    <3>2. QED
      BY <2>1, <3>1 DEF IInv, StoreRefusals
  <2>2. CASE /\ settle("refused") /\ refused' = refused \cup {key}
             /\ \/ Len(Clip[key[1]]) < 2 /\ pageRefused' = pageRefused
                \/ pageRefused' = pageRefused \cup {key}
    <3>1. Still(key, pageRefused') /\ pageRefused \subseteq pageRefused'
      BY <2>2 DEF Still
    <3>2. PaneType' /\ AnswerRefusals' /\ PaneRefusals'
      BY <2>2, <3>1, SettleRefusals
    <3>3. StoreRefusals'
      BY <2>2, <3>1, StillStays DEF IInv, StoreRefusals
    <3>4. QED
      BY <3>2, <3>3 DEF IInv
  <2>3. QED
    BY <1>4, <2>1, <2>2 DEF Decoded
<1>5. QED
  BY <1>1, <1>2, <1>3, <1>4 DEF Decode

\* Drawing at another size forgets what the pane knew of the old one.
LEMMA ReconciledRefusals ==
  ASSUME IInv, NEW d, NEW w
  PROVE  /\ reconciled(d, w) \in [Shas -> Assets]
         /\ \A s \in Shas : reconciled(d, w)[s] = "refused" => w = size /\ asset[s] = "refused"
  BY DEF reconciled, IInv, PaneType, Assets

\* So an edit or a resize, whose last step is the reconciliation, keeps the invariant.
LEMMA ReconciledIInv ==
  ASSUME IInv, NEW d, asset' = reconciled(d, size'), UNCHANGED <<refused, pageRefused, asked>>
  PROVE  IInv'
<1>1. asset' \in [Shas -> Assets]
  BY ReconciledRefusals
<1>2. ASSUME NEW s \in Shas, asset'[s] = "refused"
      PROVE  size' = size /\ asset[s] = "refused"
  BY <1>2, ReconciledRefusals
<1>3. PaneRefusals'
  BY <1>2 DEF IInv, PaneRefusals, Key
<1>4. PaneType' /\ StoreRefusals' /\ AnswerRefusals'
  BY <1>1 DEF IInv, PaneType, StoreRefusals, AnswerRefusals
<1>5. QED
  BY <1>3, <1>4 DEF IInv

LEMMA PaneIInv ==
  ASSUME IInv, Edit \/ Resize \/ Elsewhere \/ Request \/ Answer \/ Upload
  PROVE  IInv'
<1>1. CASE Edit
  <2>1. asset' = reconciled(doc', size) /\ UNCHANGED <<refused, pageRefused, asked, size>>
    BY <1>1 DEF Edit
  <2>2. QED
    BY <2>1, ReconciledIInv
<1>2. CASE Resize
  <2>1. asset' = reconciled(doc, size') /\ UNCHANGED <<refused, pageRefused, asked>>
    BY <1>2 DEF Resize, store
  <2>2. QED
    BY <2>1, ReconciledIInv
<1>3. CASE Elsewhere
  <2>1. UNCHANGED <<asked, asset, size>>
    BY <1>3 DEF Elsewhere, pane
  <2>2. StoreRefusals'
    <3>1. CASE UNCHANGED <<refused, pageRefused>>
      BY <3>1 DEF IInv, StoreRefusals
    <3>2. CASE \E shas, wanted, w : materialize(shas, wanted, w)
      BY <3>2, MaterializeRefusals DEF IInv
    <3>3. QED
      BY <1>3, <3>1, <3>2 DEF Elsewhere
  <2>3. pageRefused' = pageRefused
    BY <1>3 DEF Elsewhere, materialize
  <2>4. QED
    BY <2>1, <2>2, <2>3 DEF IInv, PaneType, AnswerRefusals, PaneRefusals
<1>4. CASE Request
  <2> DEFINE wanted == {s \in ToSet(doc) : asset[s] = "want"}
             got == [s \in wanted |-> immediate(Key(s, size))]
  <2>1. /\ materialize(doc, wanted, size) /\ asked' = [size |-> size, got |-> got]
        /\ UNCHANGED <<size, asset, pageRefused>>
    BY <1>4 DEF Request, materialize
  <2> HIDE DEF wanted
  <2>2. StoreRefusals'
    BY <2>1, MaterializeRefusals DEF IInv
  <2>3. AnswerRefusals'
    BY <2>1, ImmediateRefusals DEF IInv, AnswerRefusals
  <2>4. QED
    BY <2>1, <2>2, <2>3 DEF IInv, PaneType, PaneRefusals
<1>5. CASE Answer
  <2>1. asked' = None /\ UNCHANGED <<refused, pageRefused, size>>
    BY <1>5 DEF Answer, store
  <2>2. asset' = [s \in Shas |->
          IF s \notin DOMAIN asked.got \/ asset[s] # "want" \/ asked.size # size THEN asset[s]
          ELSE CASE asked.got[s] = "ok" -> "frames"
                 [] asked.got[s] = "refused" -> "refused"
                 [] OTHER -> "want"]
    BY <1>5 DEF Answer
  <2>3. \A s \in Shas :
          /\ asset'[s] \in Assets
          /\ asset'[s] = "refused" => \/ asset[s] = "refused"
                                      \/ /\ s \in DOMAIN asked.got /\ asked.size = size
                                         /\ asked.got[s] = "refused"
    BY <2>2 DEF IInv, PaneType, Assets
  <2>4. PaneRefusals'
    BY <2>1, <2>3 DEF IInv, PaneRefusals, AnswerRefusals
  <2>5. asset' \in [Shas -> Assets]
    BY <2>2, <2>3
  <2>6. QED
    BY <2>1, <2>4, <2>5 DEF IInv, PaneType, StoreRefusals, AnswerRefusals, None
<1>6. CASE Upload
  <2>1. /\ UNCHANGED <<refused, pageRefused, asked, size>>
        /\ \E s \in Shas, to \in Assets \ {"refused"} : asset' = [asset EXCEPT ![s] = to]
    BY <1>6 DEF Upload, store, Assets
  <2>2. QED
    BY <2>1 DEF IInv, PaneType, Assets, StoreRefusals, AnswerRefusals, PaneRefusals
<1>7. QED
  BY <1>1, <1>2, <1>3, <1>4, <1>5, <1>6

LEMMA NextIInv == IInv /\ [Next]_vars => IInv'
<1> SUFFICES ASSUME IInv, [Next]_vars PROVE IInv'
  OBVIOUS
<1>1. CASE PageDies \/ BrowserDies \/ UNCHANGED vars
  BY <1>1, UntouchedIInv DEF PageDies, BrowserDies, vars, store, pane
<1>2. QED
  BY <1>1, DecodeIInv, PaneIInv DEF Next

\* What makes an image a still one for good is its bytes, the size it is drawn at or
\* the page's own answer: no dead browser, crashed page, timeout or failed write, in
\* whatever order they meet requests, joins, resizes and edits (animation.js:203-209,
\* animation.lua:381-389).
THEOREM TroubleIsForgottenHolds == Spec => []TroubleIsForgotten
<1>1. IInv => TroubleIsForgotten
  BY DEF IInv, StoreRefusals, PaneRefusals, TroubleIsForgotten, Still
<1>2. QED
  BY <1>1, InitIInv, NextIInv, PTL DEF Spec

-----------------------------------------------------------------------------
(* Functions defined by recursion. *)

\* A set of numbers that is not empty has a least one.
LEMMA LeastNumber ==
  ASSUME NEW S, S \subseteq Nat, S # {}
  PROVE \E n \in S : \A k \in S : n <= k
<1>1. PICK n \in S : \A k \in S : ~(<<k, n>> \in OpToRel(<, Nat))
  BY NatLessThanWellFounded, WFMin
<1>2. ASSUME NEW k \in S PROVE n <= k
  <2>1. n \in Nat /\ k \in Nat
    OBVIOUS
  <2>2. ~(k < n)
    BY <1>1, <2>1 DEF OpToRel
  <2> QED BY <2>1, <2>2
<1> QED BY <1>2

\* Induction up to n, for what can be said as membership of a set.
LEMMA Induction ==
  ASSUME NEW n \in Nat, NEW P, 0 \in P, \A i \in 1 .. n : i - 1 \in P => i \in P
  PROVE  \A i \in 0 .. n : i \in P
<1> DEFINE Bad == {i \in 0 .. n : i \notin P}
<1>1. SUFFICES ASSUME Bad # {} PROVE FALSE
  OBVIOUS
<1>2. PICK m \in Bad : \A k \in Bad : m <= k
  <2>1. Bad \subseteq Nat
    OBVIOUS
  <2> QED BY <1>1, <2>1, LeastNumber
<1>3. m \in 1 .. n /\ m - 1 \in 0 .. n /\ ~(m <= m - 1)
  OBVIOUS
<1>4. m - 1 \notin Bad
  BY <1>2, <1>3
<1> QED BY <1>3, <1>4

\* The first n steps from a.
Steps(h, n, a, step) == h[0] = a /\ \A i \in 1 .. n : h[i] = step[<<h[i - 1], i>>]

\* A function defined by its value at 0 and one step after the other.
LEMMA Recursion ==
  ASSUME NEW n \in Nat, NEW S, NEW a \in S, NEW step \in [S \X (1 .. n) -> S]
  PROVE  \E h \in [0 .. n -> S] : Steps(h, n, a, step)
<1> DEFINE Upto(m, h) == Steps(h, m, a, step)
           P == {m \in 0 .. n : \E h \in [0 .. m -> S] : Upto(m, h)}
<1> USE DEF Steps
<1>1. 0 \in P
  <2> DEFINE h == [i \in 0 .. 0 |-> a]
  <2>1. h \in [0 .. 0 -> S] /\ h[0] = a /\ 1 .. 0 = {}
    OBVIOUS
  <2> HIDE DEF h
  <2>2. Upto(0, h)
    BY <2>1
  <2> QED BY <2>1, <2>2
<1>2. ASSUME NEW m \in 1 .. n, m - 1 \in P PROVE m \in P
  <2>1. PICK g \in [0 .. m - 1 -> S] : Upto(m - 1, g)
    BY <1>2
  <2>2. g[m - 1] \in S /\ <<g[m - 1], m>> \in S \X (1 .. n)
    <3>1. m - 1 \in 0 .. m - 1
      OBVIOUS
    <3> QED BY <2>1, <3>1
  <2> DEFINE h == [i \in 0 .. m |-> IF i = m THEN step[<<g[m - 1], m>>] ELSE g[i]]
  <2>3. step[<<g[m - 1], m>>] \in S
    BY <2>2
  <2>4. h \in [0 .. m -> S]
    <3>1. \A i \in 0 .. m : i # m => i \in 0 .. m - 1
      OBVIOUS
    <3> QED BY <2>1, <2>3, <3>1
  <2>5. h[m] = step[<<g[m - 1], m>>] /\ \A i \in 0 .. m - 1 : h[i] = g[i]
    OBVIOUS
  <2> HIDE DEF h
  <2>6. h[0] = a
    <3>1. 0 \in 0 .. m - 1
      OBVIOUS
    <3> QED BY <2>1, <2>5, <3>1
  <2>7. ASSUME NEW i \in 1 .. m PROVE h[i] = step[<<h[i - 1], i>>]
    <3>1. i - 1 \in 0 .. m - 1 /\ h[i - 1] = g[i - 1]
      BY <2>5
    <3>2. CASE i = m
      BY <2>5, <3>1, <3>2
    <3>3. CASE i # m
      <4>1. i \in 1 .. m - 1 /\ i \in 0 .. m - 1
        BY <3>3
      <4> QED BY <2>1, <2>5, <3>1, <4>1
    <3> QED BY <3>2, <3>3
  <2>8. Upto(m, h)
    BY <2>6, <2>7
  <2> QED BY <2>4, <2>8
<1>3. n \in P
  <2>1. \A i \in 0 .. n : i \in P
    <3> HIDE DEF P
    <3> QED BY <1>1, <1>2, Induction
  <2> QED BY <2>1
<1> QED BY <1>3

-----------------------------------------------------------------------------
(* Sums. *)

\* u adds up the field of the elements of s.
Adds(u, s, field) ==
  /\ u \in [0 .. Len(s) -> Nat] /\ u[0] = 0
  /\ \A i \in 1 .. Len(s) : u[i] = u[i - 1] + s[i][field]

Weighs(T, field) == \A t \in T : t[field] \in Nat

\* A sum is the last of the numbers that add up to it, and these exist.
LEMMA SumAdds ==
  ASSUME NEW T, NEW s \in Seq(T), NEW field, Weighs(T, field)
  PROVE  \E u : Adds(u, s, field) /\ sum(s, field) = u[Len(s)]
<1> DEFINE n == Len(s)
           step == [p \in Nat \X (1 .. n) |-> p[1] + s[p[2]][field]]
           g == CHOOSE h : h = [i \in 0 .. Len(s) |-> IF i = 0 THEN 0 ELSE h[i - 1] + s[i][field]]
<1>1. n \in Nat /\ \A i \in 1 .. n : s[i] \in T /\ s[i][field] \in Nat
  BY DEF Weighs
<1>2. step \in [Nat \X (1 .. n) -> Nat]
  BY <1>1
<1>3. \A x \in Nat, i \in 1 .. n : step[<<x, i>>] = x + s[i][field]
  OBVIOUS
<1> HIDE DEF step
<1>4. PICK u \in [0 .. n -> Nat] : u[0] = 0 /\ \A i \in 1 .. n : u[i] = step[<<u[i - 1], i>>]
  <2>1. 0 \in Nat
    OBVIOUS
  <2>2. \E u \in [0 .. n -> Nat] : Steps(u, n, 0, step)
    <3> HIDE DEF n
    <3> QED BY <1>1, <1>2, <2>1, Recursion
  <2> QED BY <2>2 DEF Steps
<1>5. Adds(u, s, field)
  <2>1. \A i \in 1 .. n : u[i - 1] \in Nat
    BY <1>1, <1>4
  <2> QED BY <1>3, <1>4, <2>1 DEF Adds
<1>6. u = [i \in 0 .. Len(s) |-> IF i = 0 THEN 0 ELSE u[i - 1] + s[i][field]]
  <2> DEFINE h == [i \in 0 .. Len(s) |-> IF i = 0 THEN 0 ELSE u[i - 1] + s[i][field]]
  <2>1. ASSUME NEW i \in 0 .. n PROVE u[i] = h[i]
    <3>1. i = 0 \/ i \in 1 .. n
      BY <1>1
    <3> QED BY <1>5, <3>1 DEF Adds
  <2> QED BY <1>4, <2>1
<1>7. g = [i \in 0 .. Len(s) |-> IF i = 0 THEN 0 ELSE g[i - 1] + s[i][field]]
  BY <1>6
<1> HIDE DEF g
<1>8. \A i \in 0 .. n : i \in {j \in 0 .. n : g[j] = u[j]}
  <2> DEFINE P == {j \in 0 .. n : g[j] = u[j]}
  <2>1. 0 \in P
    <3>1. 0 \in 0 .. n
      BY <1>1
    <3> QED BY <1>4, <1>7, <3>1
  <2>2. ASSUME NEW i \in 1 .. n, i - 1 \in P PROVE i \in P
    <3>1. i \in 0 .. n /\ i # 0
      BY <1>1
    <3>2. g[i] = g[i - 1] + s[i][field]
      BY <1>7, <3>1
    <3> QED BY <1>5, <2>2, <3>1, <3>2 DEF Adds
  <2> HIDE DEF P
  <2>3. \A i \in 0 .. n : i \in P
    BY <1>1, <2>1, <2>2, Induction
  <2> QED BY <2>3 DEF P
<1>9. sum(s, field) = g[n]
  BY DEF sum, g
<1> QED BY <1>1, <1>5, <1>8, <1>9

\* Any numbers that add up, add up to the sum.
LEMMA AddsOnce ==
  ASSUME NEW T, NEW s \in Seq(T), NEW field, Weighs(T, field), NEW u, Adds(u, s, field)
  PROVE  sum(s, field) = u[Len(s)]
<1>1. PICK v : Adds(v, s, field) /\ sum(s, field) = v[Len(s)]
  BY SumAdds
<1> DEFINE P == {i \in 0 .. Len(s) : u[i] = v[i]}
<1>2. Len(s) \in Nat
  OBVIOUS
<1>3. 0 \in P
  BY <1>1, <1>2 DEF Adds
<1>4. ASSUME NEW i \in 1 .. Len(s), i - 1 \in P PROVE i \in P
  BY <1>1, <1>4 DEF Adds
<1>5. \A i \in 0 .. Len(s) : i \in P
  <2> HIDE DEF P
  <2> QED BY <1>2, <1>3, <1>4, Induction
<1> QED BY <1>1, <1>2, <1>5

\* A sum is a number.
LEMMA SumNat ==
  ASSUME NEW T, NEW s \in Seq(T), NEW field, Weighs(T, field)
  PROVE  sum(s, field) \in Nat
<1>1. PICK u : Adds(u, s, field) /\ sum(s, field) = u[Len(s)]
  BY SumAdds
<1>2. Len(s) \in Nat
  OBVIOUS
<1> QED BY <1>1, <1>2 DEF Adds

\* The sum of one, and of none.
LEMMA SumOne ==
  ASSUME NEW T, NEW x \in T, NEW field, Weighs(T, field)
  PROVE  sum(<<x>>, field) = x[field] /\ sum(<<>>, field) = 0
<1>1. x[field] \in Nat
  BY DEF Weighs
<1> DEFINE u == [i \in 0 .. 1 |-> IF i = 0 THEN 0 ELSE x[field]]
           v == [i \in 0 .. 0 |-> 0]
           one == <<x>>
<1>2. one \in Seq(T) /\ Len(one) = 1 /\ one[1] = x
  OBVIOUS
<1>3. u \in [0 .. 1 -> Nat] /\ u[0] = 0 /\ u[1] = x[field]
  BY <1>1
<1> HIDE DEF u, one
<1>4. Adds(u, one, field)
  <2>1. \A i \in 1 .. 1 : i = 1
    OBVIOUS
  <2> QED BY <1>1, <1>2, <1>3, <2>1 DEF Adds
<1>5. sum(one, field) = u[1]
  BY <1>2, <1>4, AddsOnce
<1>6. <<>> \in Seq(T) /\ Len(<<>>) = 0 /\ Adds(v, <<>>, field)
  BY DEF Adds
<1>7. sum(<<>>, field) = v[0]
  <2> HIDE DEF v
  <2> QED BY <1>6, AddsOnce
<1> QED BY <1>3, <1>5, <1>7 DEF one

\* The sum of one sequence after another is both sums.
LEMMA SumParts ==
  ASSUME NEW T, NEW a \in Seq(T), NEW b \in Seq(T), NEW field, Weighs(T, field)
  PROVE  sum(a \o b, field) = sum(a, field) + sum(b, field)
<1> DEFINE c == a \o b
           m == Len(a)
           n == Len(b)
<1>1. /\ c \in Seq(T) /\ Len(c) = m + n /\ m \in Nat /\ n \in Nat
      /\ \A i \in 1 .. m + n : c[i] = IF i <= m THEN a[i] ELSE b[i - m]
  BY ConcatProperties
<1>2. PICK u : Adds(u, a, field) /\ sum(a, field) = u[m]
  BY SumAdds
<1>3. PICK v : Adds(v, b, field) /\ sum(b, field) = v[n]
  BY SumAdds
<1> DEFINE w == [i \in 0 .. m + n |-> IF i <= m THEN u[i] ELSE u[m] + v[i - m]]
<1>4. /\ u \in [0 .. m -> Nat] /\ u[0] = 0 /\ \A i \in 1 .. m : u[i] = u[i - 1] + a[i][field]
      /\ v \in [0 .. n -> Nat] /\ v[0] = 0 /\ \A i \in 1 .. n : v[i] = v[i - 1] + b[i][field]
  BY <1>2, <1>3 DEF Adds
<1> HIDE DEF c, m, n
<1>5. w \in [0 .. m + n -> Nat]
  <2>1. u[m] \in Nat
    BY <1>1, <1>4
  <2>2. ASSUME NEW i \in 0 .. m + n PROVE (IF i <= m THEN u[i] ELSE u[m] + v[i - m]) \in Nat
    <3>1. CASE i <= m
      BY <1>1, <1>4, <3>1
    <3>2. CASE ~(i <= m)
      <4>1. i - m \in 0 .. n
        BY <1>1, <3>2
      <4>2. v[i - m] \in Nat
        BY <1>4, <4>1
      <4> QED BY <2>1, <3>2, <4>2
    <3> QED BY <3>1, <3>2
  <2> QED BY <2>2
<1>6. \A i \in 0 .. m + n : w[i] = IF i <= m THEN u[i] ELSE u[m] + v[i - m]
  OBVIOUS
<1> HIDE DEF w
<1>7. w[0] = 0
  <2>1. 0 \in 0 .. m + n /\ 0 <= m
    BY <1>1
  <2> QED BY <1>4, <1>6, <2>1
<1>8. ASSUME NEW i \in 1 .. m + n PROVE w[i] = w[i - 1] + c[i][field]
  <2>1. i \in 0 .. m + n /\ i - 1 \in 0 .. m + n
    BY <1>1
  <2>2. CASE i <= m
    <3>1. i \in 1 .. m /\ i - 1 <= m
      BY <1>1, <2>2
    <3> QED BY <1>1, <1>4, <1>6, <2>1, <2>2, <3>1
  <2>3. CASE i > m
    <3>1. i - m \in 1 .. n /\ c[i] = b[i - m] /\ w[i] = u[m] + v[i - m]
      BY <1>1, <1>6, <2>1, <2>3
    <3>2. v[i - m] = v[(i - m) - 1] + b[i - m][field]
      BY <1>4, <3>1
    <3>3. w[i - 1] = u[m] + v[(i - m) - 1]
      <4>1. CASE i - 1 <= m
        <5>1. i - 1 = m /\ (i - m) - 1 = 0
          BY <1>1, <2>3, <4>1
        <5>2. w[i - 1] = u[m] /\ v[(i - m) - 1] = 0
          BY <1>4, <1>6, <2>1, <5>1
        <5>3. u[m] \in Nat
          BY <1>1, <1>4
        <5> QED BY <5>2, <5>3
      <4>2. CASE ~(i - 1 <= m)
        <5>1. (i - 1) - m = (i - m) - 1
          BY <1>1
        <5> QED BY <1>6, <2>1, <4>2, <5>1
      <4> QED BY <4>1, <4>2
    <3>4. u[m] \in Nat /\ v[(i - m) - 1] \in Nat
      <4>1. m \in 0 .. m /\ (i - m) - 1 \in 0 .. n
        BY <1>1, <3>1
      <4> QED BY <1>4, <4>1
    <3>5. b[i - m][field] \in Nat
      <4>1. b[i - m] \in T
        BY <3>1 DEF n
      <4> QED BY <4>1 DEF Weighs
    <3> QED BY <3>1, <3>2, <3>3, <3>4, <3>5
  <2> QED BY <1>1, <2>2, <2>3
<1>9. Adds(w, c, field)
  BY <1>1, <1>5, <1>7, <1>8 DEF Adds
<1>10. sum(c, field) = w[m + n]
  BY <1>1, <1>9, AddsOnce
<1>11. w[m + n] = u[m] + v[n]
  <2>1. m + n \in 0 .. m + n
    BY <1>1
  <2>2. CASE n = 0
    <3>1. w[m + n] = u[m] /\ v[n] = 0 /\ u[m] \in Nat
      BY <1>1, <1>4, <1>6, <2>1, <2>2
    <3> QED BY <3>1
  <2>3. CASE n # 0
    <3>1. ~(m + n <= m) /\ (m + n) - m = n
      BY <1>1, <2>3
    <3> QED BY <1>6, <2>1, <3>1
  <2> QED BY <2>2, <2>3
<1> QED BY <1>2, <1>3, <1>10, <1>11 DEF c

\* The sum of the first n.
LEMMA SumFirst ==
  ASSUME NEW T, NEW s \in Seq(T), NEW field, Weighs(T, field), NEW u, Adds(u, s, field),
         NEW n \in 0 .. Len(s)
  PROVE  SubSeq(s, 1, n) \in Seq(T) /\ Len(SubSeq(s, 1, n)) = n /\ sum(SubSeq(s, 1, n), field) = u[n]
<1> DEFINE p == SubSeq(s, 1, n)
           v == [i \in 0 .. n |-> u[i]]
<1>1. n \in Nat /\ Len(s) \in Nat
  OBVIOUS
<1>2. p \in Seq(T) /\ Len(p) = n /\ \A i \in 1 .. n : p[i] = s[i]
  BY <1>1, SubSeqProperties
<1>3. /\ u \in [0 .. Len(s) -> Nat] /\ u[0] = 0
      /\ \A i \in 1 .. Len(s) : u[i] = u[i - 1] + s[i][field]
  BY DEF Adds
<1>4. v \in [0 .. n -> Nat] /\ \A i \in 0 .. n : v[i] = u[i]
  BY <1>1, <1>3
<1> HIDE DEF v, p
<1>5. Adds(v, p, field)
  <2>1. 0 \in 0 .. n /\ \A i \in 1 .. n : i \in 0 .. n /\ i - 1 \in 0 .. n /\ i \in 1 .. Len(s)
    BY <1>1
  <2> QED BY <1>2, <1>3, <1>4, <2>1 DEF Adds
<1>6. sum(p, field) = v[n] /\ v[n] = u[n]
  BY <1>1, <1>2, <1>4, <1>5, AddsOnce
<1> QED BY <1>2, <1>6 DEF p

\* Between two places it is the difference.
LEMMA SumBetween ==
  ASSUME NEW T, NEW s \in Seq(T), NEW field, Weighs(T, field), NEW u, Adds(u, s, field),
         NEW a \in 1 .. Len(s) + 1, NEW b \in a - 1 .. Len(s)
  PROVE  sum(SubSeq(s, a, b), field) = u[b] - u[a - 1] /\ SubSeq(s, a, b) \in Seq(T)
<1> DEFINE front == SubSeq(s, 1, a - 1)
           part == SubSeq(s, a, b)
           both == SubSeq(s, 1, b)
<1>1. Len(s) \in Nat /\ a \in Nat /\ b \in Nat /\ a - 1 \in 0 .. Len(s) /\ b \in 0 .. Len(s)
  OBVIOUS
<1>2. front \in Seq(T) /\ Len(front) = a - 1 /\ sum(front, field) = u[a - 1]
  BY <1>1, SumFirst
<1>3. both \in Seq(T) /\ Len(both) = b /\ sum(both, field) = u[b]
  BY <1>1, SumFirst
<1>4. /\ part \in Seq(T) /\ Len(part) = b - a + 1
      /\ \A i \in 1 .. b - a + 1 : part[i] = s[a + i - 1]
  <2>1. \A i \in a .. b : i \in 1 .. Len(s)
    BY <1>1
  <2>2. \A i \in a .. b : s[i] \in T
    BY <2>1
  <2> QED BY <1>1, <2>2, SubSeqProperties
<1>5. both = front \o part
  <2>1. /\ front \o part \in Seq(T) /\ Len(front \o part) = b
        /\ \A i \in 1 .. b : (front \o part)[i] = IF i <= a - 1 THEN front[i] ELSE part[i - (a - 1)]
    <3> HIDE DEF front, part
    <3>1. /\ front \o part \in Seq(T) /\ Len(front \o part) = Len(front) + Len(part)
          /\ \A i \in 1 .. Len(front) + Len(part) :
               (front \o part)[i] = IF i <= Len(front) THEN front[i] ELSE part[i - Len(front)]
      BY <1>2, <1>4, ConcatProperties
    <3>2. Len(front) + Len(part) = b
      BY <1>1, <1>2, <1>4
    <3> QED BY <1>2, <3>1, <3>2
  <2>2. \A i \in 1 .. a - 1 : front[i] = s[i]
    BY <1>1, SubSeqProperties
  <2>3. \A i \in 1 .. b : both[i] = s[i]
    BY <1>1, SubSeqProperties
  <2>4. ASSUME NEW i \in 1 .. b PROVE both[i] = (front \o part)[i]
    <3> HIDE DEF front, part, both
    <3>1. CASE i <= a - 1
      BY <1>1, <2>1, <2>2, <2>3, <3>1
    <3>2. CASE ~(i <= a - 1)
      <4>1. i - (a - 1) \in 1 .. b - a + 1 /\ a + (i - (a - 1)) - 1 = i
        BY <1>1, <3>2
      <4>2. part[i - (a - 1)] = s[i]
        BY <1>4, <4>1
      <4> QED BY <2>1, <2>3, <3>2, <4>2
    <3> QED BY <3>1, <3>2
  <2> QED BY <1>3, <2>1, <2>4, SeqEqual
<1> HIDE DEF front, part, both
<1>6. u[b] = u[a - 1] + sum(part, field)
  BY <1>2, <1>3, <1>4, <1>5, SumParts
<1>7. u[a - 1] \in Nat /\ sum(part, field) \in Nat
  BY <1>1, <1>4, SumNat DEF Adds
<1> QED BY <1>4, <1>6, <1>7 DEF part

-----------------------------------------------------------------------------
(* Thinning keeps the time. *)

Frame == [bytes : Nat, gap : Nat]

\* Places from the first on, each after the one before.
Places(at, n) ==
  /\ at \in Seq(1 .. n) /\ Len(at) >= 1 /\ at[1] = 1
  /\ \A k \in 1 .. Len(at) - 1 : at[k] < at[k + 1]

\* Frames have bytes and a time, so both can be summed.
LEMMA FrameWeighs == Weighs(Frame, "bytes") /\ Weighs(Frame, "gap")
  BY DEF Weighs, Frame

\* What is thinned to such places lasts as long.
LEMMA ThinFacts ==
  ASSUME NEW frames \in Seq(Frame), NEW at, Places(at, Len(frames))
  PROVE  /\ thin(frames, at) \in Seq(Frame) /\ Len(thin(frames, at)) = Len(at)
         /\ sum(thin(frames, at), "gap") = sum(frames, "gap")
<1> DEFINE n == Len(frames)
           m == Len(at)
           from(k) == IF k = m THEN n + 1 ELSE at[k + 1]
           t == thin(frames, at)
<1>1. n \in Nat /\ m \in Nat /\ m >= 1 /\ at[1] = 1 /\ DOMAIN at = 1 .. m
  BY DEF Places
<1>2. \A k \in 1 .. m : at[k] \in 1 .. n
  BY DEF Places
<1>3. \A k \in 1 .. m - 1 : at[k] < at[k + 1]
  BY DEF Places
<1>4. PICK u : Adds(u, frames, "gap") /\ sum(frames, "gap") = u[n]
  BY SumAdds, FrameWeighs
<1>5. u \in [0 .. n -> Nat] /\ u[0] = 0
  BY <1>4 DEF Adds
<1> HIDE DEF m, n
<1>6. ASSUME NEW k \in 1 .. m
      PROVE  from(k) \in Nat /\ at[k] < from(k) /\ from(k) - 1 \in 1 .. n
  <2>1. CASE k = m
    BY <1>1, <1>2, <2>1
  <2>2. CASE k # m
    <3>1. k \in 1 .. m - 1 /\ k + 1 \in 1 .. m
      BY <1>1, <2>2
    <3>2. at[k] \in 1 .. n /\ at[k + 1] \in 1 .. n /\ at[k] < at[k + 1]
      BY <1>2, <1>3, <3>1
    <3> QED BY <1>1, <2>2, <3>2
  <2> QED BY <2>1, <2>2
<1>7. ASSUME NEW k \in 1 .. m
      PROVE  t[k].gap = u[from(k) - 1] - u[at[k] - 1] /\ t[k] \in Frame
  <2> DEFINE until == IF k = Len(at) THEN Len(frames) ELSE at[k + 1] - 1
             s == SubSeq(frames, at[k], until)
  <2>1. t[k] = [bytes |-> frames[at[k]].bytes, gap |-> sum(s, "gap")]
    BY <1>1 DEF thin
  <2>2. until = from(k) - 1
    BY <1>1 DEF m, n
  <2> HIDE DEF until
  <2>3. at[k] \in 1 .. Len(frames) + 1 /\ until \in at[k] - 1 .. Len(frames)
    <3> HIDE DEF from
    <3>1. at[k] \in 1 .. n /\ at[k] < from(k) /\ from(k) \in Nat /\ from(k) - 1 \in 1 .. n
      BY <1>2, <1>6
    <3> QED BY <1>1, <2>2, <3>1 DEF n
  <2>4. sum(s, "gap") = u[until] - u[at[k] - 1] /\ s \in Seq(Frame)
    BY <1>4, <2>3, SumBetween, FrameWeighs
  <2> HIDE DEF s, from
  <2>5. sum(s, "gap") \in Nat
    BY <2>4, SumNat, FrameWeighs
  <2>6. frames[at[k]] \in Frame
    BY <1>2 DEF n
  <2>7. frames[at[k]].bytes \in Nat
    BY <2>6 DEF Frame
  <2> HIDE DEF t
  <2> QED BY <2>1, <2>2, <2>4, <2>5, <2>7 DEF Frame
<1>8. t \in Seq(Frame) /\ Len(t) = m
  <2>1. t = [k \in 1 .. m |-> t[k]]
    BY <1>1 DEF thin
  <2> HIDE DEF t
  <2>2. \A k \in 1 .. m : t[k] \in Frame
    BY <1>7
  <2> QED BY <1>1, <2>1, <2>2
<1> HIDE DEF t
<1> DEFINE v == [k \in 0 .. m |-> IF k = 0 THEN 0 ELSE u[from(k) - 1]]
<1>9. Adds(v, t, "gap")
  <2>1. v \in [0 .. m -> Nat]
    <3> HIDE DEF from
    <3>1. \A k \in 0 .. m : k # 0 => k \in 1 .. m
      BY <1>1
    <3>2. \A k \in 1 .. m : u[from(k) - 1] \in Nat
      BY <1>5, <1>6
    <3> QED BY <3>1, <3>2
  <2>2. v[0] = 0
    BY <1>1
  <2>3. ASSUME NEW k \in 1 .. m PROVE v[k] = v[k - 1] + t[k].gap
    <3>1. v[k] = u[from(k) - 1]
      BY <1>1
    <3>2. v[k - 1] = u[at[k] - 1]
      <4>1. CASE k = 1
        <5>1. v[0] = 0 /\ at[k] - 1 = 0
          BY <1>1, <4>1
        <5> QED BY <1>5, <4>1, <5>1
      <4>2. CASE k # 1
        <5>1. k - 1 \in 1 .. m /\ k - 1 # m /\ (k - 1) + 1 = k /\ k - 1 \in 0 .. m /\ k - 1 # 0
          BY <1>1, <4>2
        <5> QED BY <5>1
      <4> QED BY <4>1, <4>2
    <3>3. t[k].gap = u[from(k) - 1] - u[at[k] - 1]
      BY <1>7
    <3>4. u[from(k) - 1] \in Nat /\ u[at[k] - 1] \in Nat
      <4>1. from(k) - 1 \in 1 .. n /\ at[k] \in 1 .. n
        BY <1>2, <1>6
      <4> HIDE DEF from
      <4>2. from(k) - 1 \in 0 .. n /\ at[k] - 1 \in 0 .. n
        BY <1>1, <4>1
      <4> QED BY <1>5, <4>2
    <3> HIDE DEF v, from
    <3> QED BY <3>1, <3>2, <3>3, <3>4
  <2> HIDE DEF v
  <2> QED BY <1>8, <2>1, <2>2, <2>3 DEF Adds
<1>10. v[m] = u[n]
  BY <1>1
<1> HIDE DEF v
<1>11. sum(t, "gap") = v[m]
  BY <1>8, <1>9, AddsOnce, FrameWeighs
<1> QED BY <1>4, <1>8, <1>10, <1>11 DEF t, m, n

\* Whole division.
LEMMA Divides ==
  ASSUME NEW a \in Nat, NEW b \in Nat \ {0}
  PROVE  a \div b \in Nat /\ b * (a \div b) <= a /\ a < b * (a \div b) + b
  OBVIOUS

LEMMA DivGrows ==
  ASSUME NEW a \in Nat, NEW c \in Nat, NEW b \in Nat \ {0}, a + b <= c
  PROVE  a \div b < c \div b
  OBVIOUS

\* The frames kept for a budget of two and more.
LEMMA DecodeFacts ==
  ASSUME NEW frames \in Seq(Frame), Len(frames) >= 2, NEW budget \in Nat, budget >= 2
  PROVE  LET painted == decodeInPage(frames, budget)
         IN  /\ painted \in Seq(Frame) /\ Len(painted) >= 2
             /\ sum(painted, "gap") = sum(frames, "gap")
<1> DEFINE n == Len(frames)
           stride == ceil(n, budget)
           m == ceil(n, stride)
           at == [k \in 1 .. m |-> 1 + (k - 1) * stride]
<1>1. n \in Nat /\ n >= 2
  OBVIOUS
<1> HIDE DEF n
<1>2. stride \in Nat /\ budget * stride <= n + budget - 1 /\ n + budget - 1 < budget * stride + budget
  <2>1. n + budget - 1 \in Nat /\ budget \in Nat \ {0}
    BY <1>1
  <2> QED BY <2>1, Divides DEF ceil
<1> HIDE DEF stride
<1>3. stride >= 1 /\ stride < n
  <2>1. stride >= 1
    BY <1>1, <1>2
  <2>2. SUFFICES ASSUME stride >= n PROVE FALSE
    BY <1>1, <1>2, <2>1
  <2>3. budget * stride >= budget * n
    BY <1>1, <1>2, <2>2
  <2>4. (n - 1) * (budget - 1) >= 1
    BY <1>1
  <2> QED BY <1>1, <1>2, <2>3, <2>4
<1>4. m \in Nat /\ stride * m <= n + stride - 1 /\ n + stride - 1 < stride * m + stride
  <2>1. n + stride - 1 \in Nat /\ stride \in Nat \ {0}
    BY <1>1, <1>2, <1>3
  <2> QED BY <2>1, Divides DEF ceil
<1> HIDE DEF m
<1>5. m >= 2
  <2>1. m # 0
    <3>1. SUFFICES ASSUME m = 0 PROVE FALSE
      OBVIOUS
    <3>2. stride * m = 0
      BY <1>2, <3>1
    <3> DEFINE x == stride * m
    <3>3. x = 0 /\ n + stride - 1 < x + stride
      BY <1>4, <3>2
    <3> HIDE DEF x
    <3> QED BY <1>1, <1>2, <3>3
  <2>2. m # 1
    BY <1>1, <1>2, <1>3, <1>4
  <2> QED BY <1>4, <2>1, <2>2
<1>6. ASSUME NEW k \in 1 .. m PROVE 1 + (k - 1) * stride \in 1 .. n
  <2>1. (k - 1) * stride \in Nat
    BY <1>2, <1>4
  <2>2. (k - 1) * stride <= (m - 1) * stride
    BY <1>2, <1>3, <1>4
  <2>3. (m - 1) * stride = stride * m - stride
    BY <1>2, <1>4
  <2> QED BY <1>1, <1>2, <1>4, <2>1, <2>2, <2>3
<1>7. Places(at, n)
  <2>1. at \in [1 .. m -> 1 .. n]
    BY <1>6
  <2>2. at \in Seq(1 .. n) /\ Len(at) = m
    BY <1>4, <2>1
  <2>3. at[1] = 1
    BY <1>2, <1>4, <1>5
  <2>4. ASSUME NEW k \in 1 .. m - 1 PROVE at[k] < at[k + 1]
    <3>1. k \in 1 .. m /\ k + 1 \in 1 .. m
      BY <1>4
    <3>2. k * stride = (k - 1) * stride + stride
      BY <1>2, <1>4
    <3>3. (k - 1) * stride \in Nat
      BY <1>2, <1>4
    <3>4. at[k] = 1 + (k - 1) * stride /\ at[k + 1] = 1 + k * stride
      BY <3>1
    <3> HIDE DEF at
    <3> QED BY <1>2, <1>3, <3>2, <3>3, <3>4
  <2> HIDE DEF at
  <2> QED BY <1>5, <2>2, <2>3, <2>4 DEF Places
<1>8. Len(at) = m
  BY <1>4
<1>9. decodeInPage(frames, budget) = thin(frames, at)
  BY DEF decodeInPage, n, stride, m
<1> HIDE DEF at
<1> QED BY <1>5, <1>7, <1>8, <1>9, ThinFacts DEF n

\* However little room there is, two are kept.
LEMMA ShareFacts ==
  ASSUME ClipAssumption, NEW frames \in Seq(Frame), Len(frames) >= 2
  PROVE  /\ thinToShare(frames) \in Seq(Frame) /\ Len(thinToShare(frames)) >= 2
         /\ sum(thinToShare(frames), "gap") = sum(frames, "gap")
<1> DEFINE n == Len(frames)
           total == sum(frames, "bytes")
           share == (n * maxEntryBytes) \div total
           kept == Max({2, Min({n - 1, share})})
           at == [k \in 1 .. kept |-> 1 + ((k - 1) * n) \div kept]
<1>1. CASE total <= maxEntryBytes
  BY <1>1 DEF thinToShare
<1>2. CASE ~(total <= maxEntryBytes)
  <2>1. n \in Nat /\ n >= 2 /\ total \in Nat
    BY SumNat, FrameWeighs
  <2>2. maxEntryBytes \in Nat
    BY Divides DEF ClipAssumption, maxEntryBytes
  <2> HIDE DEF n, total
  <2>3. share \in Nat
    <3>1. total \in Nat \ {0} /\ n * maxEntryBytes \in Nat
      BY <1>2, <2>1, <2>2
    <3> QED BY <3>1, Divides
  <2> HIDE DEF share
  <2>4. kept \in 2 .. n
    <3>1. Min({n - 1, share}) \in Nat /\ Min({n - 1, share}) <= n - 1
      <4>1. Min({n - 1, share}) = IF n - 1 <= share THEN n - 1 ELSE share
        BY <2>1, <2>3 DEF Min
      <4> QED BY <2>1, <2>3, <4>1
    <3> DEFINE x == Min({n - 1, share})
    <3> HIDE DEF x
    <3>2. x \in Nat /\ x <= n - 1
      BY <3>1 DEF x
    <3>3. Max({2, x}) = IF 2 >= x THEN 2 ELSE x
      BY <3>2 DEF Max
    <3> QED BY <2>1, <3>2, <3>3 DEF x
  <2>5. thinToShare(frames) = thin(frames, at)
    BY <1>2, <2>1 DEF thinToShare, n, total, share
  <2> HIDE DEF kept
  <2>6. kept \in Nat /\ kept >= 2 /\ kept <= n
    BY <2>1, <2>4
  <2>7. ASSUME NEW k \in 1 .. kept
        PROVE  /\ (k - 1) * n \in Nat /\ ((k - 1) * n) \div kept \in Nat
               /\ ((k - 1) * n) \div kept < n
    <3>1. (k - 1) * n \in Nat
      BY <2>1, <2>6
    <3> DEFINE q == ((k - 1) * n) \div kept
    <3>2. q \in Nat /\ kept * q <= (k - 1) * n
      <4> DEFINE a == (k - 1) * n
      <4>1. a \in Nat /\ kept \in Nat \ {0}
        BY <2>6, <3>1
      <4> HIDE DEF a, kept
      <4>2. a \div kept \in Nat /\ kept * (a \div kept) <= a
        BY <4>1, Divides
      <4> QED BY <4>2 DEF a
    <3> HIDE DEF q
    <3>3. (k - 1) * n = kept * n - n - (kept - k) * n /\ (kept - k) * n \in Nat
      BY <2>1, <2>6
    <3>5. SUFFICES ASSUME q >= n PROVE FALSE
      BY <2>1, <3>1, <3>2 DEF q
    <3>6. kept * q = kept * n + kept * (q - n) /\ kept * (q - n) \in Nat /\ kept * n \in Nat
      BY <2>1, <2>6, <3>2, <3>5
    <3> DEFINE x == kept * q
               y == kept * n
               z == kept * (q - n)
               v == (k - 1) * n
               r == (kept - k) * n
    <3>7. x <= v /\ v = y - n - r /\ r \in Nat /\ x = y + z /\ z \in Nat /\ y \in Nat /\ v \in Nat
      BY <3>1, <3>2, <3>3, <3>6
    <3> HIDE DEF x, y, z, v, r
    <3> QED BY <2>1, <3>7
  <2>8. Places(at, n)
    <3>1. at \in [1 .. kept -> 1 .. n]
      <4> SUFFICES ASSUME NEW k \in 1 .. kept PROVE 1 + ((k - 1) * n) \div kept \in 1 .. n
        OBVIOUS
      <4> QED BY <2>1, <2>7
    <3>2. at \in Seq(1 .. n) /\ Len(at) = kept
      BY <2>6, <3>1
    <3>3. at[1] = 1
      <4>1. 1 \in 1 .. kept /\ (1 - 1) * n = 0 /\ 0 \div kept = 0
        BY <2>1, <2>6
      <4> QED BY <4>1
    <3>4. ASSUME NEW k \in 1 .. kept - 1 PROVE at[k] < at[k + 1]
      <4>1. k \in 1 .. kept /\ k + 1 \in 1 .. kept
        BY <2>6
      <4>2. (k - 1) * n \in Nat /\ k * n \in Nat /\ (k - 1) * n + kept <= k * n
        <5>1. k * n = (k - 1) * n + n /\ (k - 1) * n \in Nat
          BY <2>1, <2>6
        <5> QED BY <2>1, <2>6, <5>1
      <4>3. ((k - 1) * n) \div kept < (k * n) \div kept
        BY <2>6, <4>2, DivGrows
      <4>4. at[k] = 1 + ((k - 1) * n) \div kept /\ at[k + 1] = 1 + (k * n) \div kept
        BY <4>1
      <4>5. ((k - 1) * n) \div kept \in Nat /\ (k * n) \div kept \in Nat
        BY <2>6, <4>2, Divides
      <4> HIDE DEF at
      <4> QED BY <4>3, <4>4, <4>5
    <3> HIDE DEF at
    <3> QED BY <2>6, <3>2, <3>3, <3>4 DEF Places
  <2>9. Len(at) = kept
    BY <2>6
  <2> HIDE DEF at
  <2> QED BY <2>5, <2>6, <2>8, <2>9, ThinFacts DEF n
<1> QED BY <1>1, <1>2

-----------------------------------------------------------------------------
(* The order of the entries. *)

Keys == Shas \X Sizes
Entry == [key : Keys, frames : Seq(Frame), bytes : Nat]

\* No key is there twice.
OneEach(s) == \A i, j \in DOMAIN s : s[i].key = s[j].key => i = j

\* Where the k-th of n comes from when the i-th is moved to the end.
Turn(i, n, k) == IF k = n THEN i ELSE IF k < i THEN k ELSE k + 1

\* Entries have bytes, so they can be summed.
LEMMA EntryWeighs == Weighs(Entry, "bytes")
  BY DEF Weighs, Entry

\* To refresh an element moves it to the end and leaves the others in their order.
LEMMA RefreshTurns ==
  ASSUME NEW T, NEW s \in Seq(T), NEW e \in ToSet(s)
  PROVE  /\ refresh(s, e) \in Seq(T) /\ Len(refresh(s, e)) = Len(s)
         /\ \E i \in 1 .. Len(s) : \A k \in 1 .. Len(s) : refresh(s, e)[k] = s[Turn(i, Len(s), k)]
         /\ \A field : Weighs(T, field) => sum(refresh(s, e), field) = sum(s, field)
<1> DEFINE n == Len(s)
           i == Position(s, e)
           a == SubSeq(s, 1, i - 1)
           b == SubSeq(s, i + 1, n)
           one == <<e>>
           rest == a \o b
           r == refresh(s, e)
<1>1. n \in Nat /\ DOMAIN s = 1 .. n /\ e \in Range(s)
  BY DEF ToSet, Range
<1>2. i \in 1 .. n /\ s[i] = e
  BY <1>1 DEF Range, Position
<1>3. r = Append(rest, e)
  BY <1>1 DEF refresh, Without
<1> HIDE DEF i, r
<1>4. e \in T /\ one \in Seq(T) /\ Len(one) = 1 /\ one[1] = e
  BY <1>1, <1>2
<1> HIDE DEF n
<1>5. a \in Seq(T) /\ Len(a) = i - 1 /\ \A k \in 1 .. i - 1 : a[k] = s[k]
  <2>1. \A k \in 1 .. i - 1 : s[k] \in T
    BY <1>1, <1>2
  <2> QED BY <1>1, <1>2, <2>1, SubSeqProperties
<1>6. b \in Seq(T) /\ Len(b) = n - i /\ \A k \in 1 .. n - i : b[k] = s[i + k]
  <2>1. \A k \in i + 1 .. n : s[k] \in T
    BY <1>1, <1>2
  <2>2. CASE i = n
    <3>1. b = <<>>
      BY <1>1, <2>2
    <3> QED BY <1>1, <2>2, <3>1
  <2>3. CASE i < n
    <3>1. i + 1 \in 1 .. Len(s) + 1 /\ n \in i + 1 .. Len(s)
      BY <1>1, <1>2, <2>3 DEF n
    <3>2. b \in Seq(T) /\ Len(b) = n - (i + 1) + 1
          /\ \A k \in 1 .. n - (i + 1) + 1 : b[k] = s[(i + 1) + k - 1]
      BY <2>1, <3>1, SubSeqProperties
    <3>3. n - (i + 1) + 1 = n - i /\ \A k \in 1 .. n - i : (i + 1) + k - 1 = i + k
      BY <1>1, <1>2
    <3> QED BY <3>2, <3>3
  <2> QED BY <1>1, <1>2, <2>2, <2>3
<1> HIDE DEF a, b, one
<1>7. rest \in Seq(T) /\ Len(rest) = n - 1
      /\ \A k \in 1 .. n - 1 : rest[k] = IF k <= i - 1 THEN a[k] ELSE b[k - (i - 1)]
  <2>1. /\ a \o b \in Seq(T) /\ Len(a \o b) = Len(a) + Len(b)
        /\ \A k \in 1 .. Len(a) + Len(b) : (a \o b)[k] = IF k <= Len(a) THEN a[k] ELSE b[k - Len(a)]
    BY <1>5, <1>6, ConcatProperties
  <2>2. Len(a) + Len(b) = n - 1
    BY <1>1, <1>2, <1>5, <1>6
  <2> QED BY <1>5, <2>1, <2>2
<1>8. r \in Seq(T) /\ Len(r) = n /\ r[n] = e /\ \A k \in 1 .. n - 1 : r[k] = rest[k]
  <2> HIDE DEF rest
  <2> QED BY <1>1, <1>3, <1>4, <1>7
<1>9. \A k \in 1 .. n : r[k] = s[Turn(i, n, k)]
  <2> SUFFICES ASSUME NEW k \in 1 .. n PROVE r[k] = s[Turn(i, n, k)]
    OBVIOUS
  <2>1. CASE k = n
    BY <1>2, <1>8, <2>1 DEF Turn
  <2>2. CASE k # n /\ k < i
    <3>1. k \in 1 .. n - 1 /\ k <= i - 1 /\ k \in 1 .. i - 1 /\ Turn(i, n, k) = k
      BY <1>1, <1>2, <2>2 DEF Turn
    <3>2. r[k] = rest[k] /\ rest[k] = a[k] /\ a[k] = s[k]
      <4> HIDE DEF rest
      <4> QED BY <1>5, <1>7, <1>8, <3>1
    <3> QED BY <3>1, <3>2
  <2>3. CASE k # n /\ ~(k < i)
    <3>1. /\ k \in 1 .. n - 1 /\ ~(k <= i - 1) /\ k - (i - 1) \in 1 .. n - i
          /\ i + (k - (i - 1)) = k + 1 /\ Turn(i, n, k) = k + 1
      BY <1>1, <1>2, <2>3 DEF Turn
    <3>2. r[k] = rest[k] /\ rest[k] = b[k - (i - 1)] /\ b[k - (i - 1)] = s[i + (k - (i - 1))]
      <4> HIDE DEF rest
      <4> QED BY <1>6, <1>7, <1>8, <3>1
    <3> QED BY <3>1, <3>2
  <2> QED BY <2>1, <2>2, <2>3
<1>10. ASSUME NEW field, Weighs(T, field) PROVE sum(r, field) = sum(s, field)
  <2>1. sum(rest, field) = sum(a, field) + sum(b, field)
    BY <1>5, <1>6, <1>10, SumParts
  <2>2. r = rest \o one
    <3>1. /\ rest \o one \in Seq(T) /\ Len(rest \o one) = Len(rest) + Len(one)
          /\ \A k \in 1 .. Len(rest) + Len(one) :
               (rest \o one)[k] = IF k <= Len(rest) THEN rest[k] ELSE one[k - Len(rest)]
      <4> HIDE DEF rest
      <4> QED BY <1>4, <1>7, ConcatProperties
    <3>2. Len(rest) + Len(one) = n
      BY <1>1, <1>4, <1>7
    <3>3. ASSUME NEW k \in 1 .. n PROVE r[k] = (rest \o one)[k]
      <4> HIDE DEF rest
      <4>1. CASE k = n
        <5>1. ~(k <= Len(rest)) /\ k - Len(rest) = 1
          BY <1>1, <1>7, <4>1
        <5> QED BY <1>4, <1>8, <3>1, <3>2, <4>1, <5>1
      <4>2. CASE k # n
        <5>1. k \in 1 .. n - 1 /\ k <= Len(rest)
          BY <1>1, <1>7, <4>2
        <5> QED BY <1>8, <3>1, <3>2, <5>1
      <4> QED BY <4>1, <4>2
    <3> HIDE DEF rest
    <3> QED BY <1>8, <3>1, <3>2, <3>3, SeqEqual
  <2>3. sum(r, field) = sum(rest, field) + sum(one, field)
    <3> HIDE DEF rest
    <3> QED BY <1>4, <1>7, <1>10, <2>2, SumParts
  <2>4. PICK u : Adds(u, s, field) /\ sum(s, field) = u[n]
    BY <1>10, SumAdds DEF n
  <2>5. sum(a, field) = u[i - 1]
    <3>1. i - 1 \in 0 .. Len(s)
      BY <1>1, <1>2 DEF n
    <3> QED BY <1>10, <2>4, <3>1, SumFirst DEF a
  <2>6. sum(b, field) = u[n] - u[i]
    <3>1. i + 1 \in 1 .. Len(s) + 1 /\ n \in (i + 1) - 1 .. Len(s) /\ (i + 1) - 1 = i
      BY <1>1, <1>2 DEF n
    <3> QED BY <1>10, <2>4, <3>1, SumBetween DEF b
  <2>7. sum(one, field) = e[field]
    BY <1>4, <1>10, SumOne DEF one
  <2>8. u[i] = u[i - 1] + e[field] /\ u[i] \in Nat /\ u[i - 1] \in Nat /\ u[n] \in Nat /\ e[field] \in Nat
    <3>1. i \in 1 .. Len(s) /\ i \in 0 .. Len(s) /\ i - 1 \in 0 .. Len(s) /\ n \in 0 .. Len(s)
      BY <1>1, <1>2 DEF n
    <3>2. e[field] \in Nat
      BY <1>4, <1>10 DEF Weighs
    <3> QED BY <1>2, <2>4, <3>1, <3>2 DEF Adds
  <2> HIDE DEF rest
  <2> QED BY <2>1, <2>3, <2>4, <2>5, <2>6, <2>7, <2>8
<1> QED BY <1>2, <1>8, <1>9, <1>10 DEF n, r

\* Another order of the same entries.
Orders(s) == {m \in Seq(Entry) : /\ ToSet(m) = ToSet(s) /\ Len(m) = Len(s) /\ OneEach(m)
                                 /\ sum(m, "bytes") = sum(s, "bytes")}

\* To touch an entry gives another order of the same entries.
LEMMA TouchOrders ==
  ASSUME NEW s \in Seq(Entry), NEW m \in Orders(s), NEW key
  PROVE  touch(m, key) \in Orders(s)
<1> DEFINE hits == {x \in ToSet(m) : x.key = key}
           e == CHOOSE x \in hits : TRUE
<1>1. CASE hits = {}
  BY <1>1 DEF touch
<1>2. CASE hits # {}
  <2>1. e \in ToSet(m) /\ touch(m, key) = refresh(m, e)
    BY <1>2 DEF touch
  <2> HIDE DEF e, hits
  <2>2. m \in Seq(Entry) /\ ToSet(m) = ToSet(s) /\ Len(m) = Len(s) /\ OneEach(m)
        /\ sum(m, "bytes") = sum(s, "bytes")
    BY DEF Orders
  <2> DEFINE r == refresh(m, e)
             n == Len(m)
  <2>3. r \in Seq(Entry) /\ Len(r) = n /\ sum(r, "bytes") = sum(m, "bytes")
    BY <2>1, <2>2, RefreshTurns, EntryWeighs
  <2>4. PICK i \in 1 .. n : \A k \in 1 .. n : r[k] = m[Turn(i, n, k)]
    BY <2>1, <2>2, RefreshTurns
  <2>5. n \in Nat /\ DOMAIN m = 1 .. n /\ DOMAIN r = 1 .. n
    BY <2>2, <2>3
  <2> HIDE DEF r, n
  <2>6. \A k, l \in 1 .. n : Turn(i, n, k) \in 1 .. n /\ (Turn(i, n, k) = Turn(i, n, l) => k = l)
    BY <2>5 DEF Turn
  <2>7. OneEach(r)
    <3> SUFFICES ASSUME NEW k \in 1 .. n, NEW l \in 1 .. n, r[k].key = r[l].key PROVE k = l
      BY <2>5 DEF OneEach
    <3>1. r[k] = m[Turn(i, n, k)] /\ r[l] = m[Turn(i, n, l)]
      BY <2>4
    <3>2. Turn(i, n, k) \in DOMAIN m /\ Turn(i, n, l) \in DOMAIN m
      BY <2>5, <2>6
    <3>3. Turn(i, n, k) = Turn(i, n, l)
      BY <2>2, <3>1, <3>2 DEF OneEach
    <3> QED BY <2>6, <3>3
  <2>8. ToSet(r) = ToSet(m)
    <3>1. ASSUME NEW k \in 1 .. n PROVE \E l \in 1 .. n : Turn(i, n, l) = k
      <4> DEFINE l == IF k = i THEN n ELSE IF k < i THEN k ELSE k - 1
      <4>1. l \in 1 .. n /\ Turn(i, n, l) = k
        BY <2>5 DEF Turn
      <4> QED BY <4>1
    <3>2. ToSet(r) = {r[k] : k \in 1 .. n} /\ ToSet(m) = {m[k] : k \in 1 .. n}
      BY <2>5 DEF ToSet
    <3>3. ASSUME NEW k \in 1 .. n PROVE r[k] \in {m[l] : l \in 1 .. n}
      BY <2>4, <2>6
    <3>4. ASSUME NEW k \in 1 .. n PROVE m[k] \in {r[l] : l \in 1 .. n}
      BY <2>4, <3>1
    <3> QED BY <3>2, <3>3, <3>4
  <2> QED BY <2>1, <2>2, <2>3, <2>7, <2>8 DEF Orders, r, n
<1> QED BY <1>1, <1>2

\* So has the store after a request has moved what it met to the young end.
LEMMA TouchedOrders ==
  ASSUME materialized \in Seq(Entry), OneEach(materialized),
         NEW shas \in Seq(Shas), NEW wanted, NEW w, materialize(shas, wanted, w)
  PROVE  materialized' \in Orders(materialized)
<1> DEFINE n == Len(shas)
           S == Orders(materialized)
           next(m, i) == IF shas[i] \in wanted THEN touch(m, Key(shas[i], w)) ELSE m
           step == [p \in S \X (1 .. n) |-> next(p[1], p[2])]
           g == CHOOSE touched : touched = [i \in 0 .. Len(shas) |->
                  IF i = 0 THEN materialized
                  ELSE IF shas[i] \in wanted THEN touch(touched[i - 1], Key(shas[i], w))
                  ELSE touched[i - 1]]
<1>1. materialized' = g[n]
  BY DEF materialize
<1>2. n \in Nat /\ materialized \in S
  BY DEF Orders
<1>3. \A m \in S, i \in 1 .. n : next(m, i) \in S
  BY TouchOrders
<1>4. step \in [S \X (1 .. n) -> S] /\ \A m \in S, i \in 1 .. n : step[<<m, i>>] = next(m, i)
  <2> HIDE DEF S, next
  <2> QED BY <1>3
<1> HIDE DEF step, S, n
<1>5. PICK h \in [0 .. n -> S] : Steps(h, n, materialized, step)
  <2> HIDE DEF g, next
  <2> QED BY <1>2, <1>4, Recursion
<1>6. h[0] = materialized /\ \A i \in 1 .. n : h[i] = next(h[i - 1], i)
  <2>1. \A i \in 1 .. n : h[i - 1] \in S
    BY <1>2
  <2> HIDE DEF next, g
  <2> QED BY <1>4, <1>5, <2>1 DEF Steps
<1>7. h = [i \in 0 .. Len(shas) |-> IF i = 0 THEN materialized
                                   ELSE IF shas[i] \in wanted THEN touch(h[i - 1], Key(shas[i], w))
                                   ELSE h[i - 1]]
  <2> DEFINE f == [i \in 0 .. Len(shas) |-> IF i = 0 THEN materialized ELSE next(h[i - 1], i)]
  <2>1. ASSUME NEW i \in 0 .. n PROVE h[i] = f[i]
    <3>1. i = 0 \/ i \in 1 .. n
      BY <1>2
    <3> HIDE DEF next, g
    <3> QED BY <1>6, <3>1 DEF n
  <2> HIDE DEF g
  <2> QED BY <2>1 DEF n
<1>8. g = [i \in 0 .. Len(shas) |-> IF i = 0 THEN materialized
                                   ELSE IF shas[i] \in wanted THEN touch(g[i - 1], Key(shas[i], w))
                                   ELSE g[i - 1]]
  BY <1>7
<1> HIDE DEF g
<1>9. g[0] = materialized /\ \A i \in 1 .. n : g[i] = next(g[i - 1], i)
  <2>1. 0 \in 0 .. Len(shas) /\ \A i \in 1 .. n : i \in 0 .. Len(shas) /\ i # 0
    BY <1>2 DEF n
  <2>2. g[0] = materialized
    BY <1>8, <2>1
  <2>3. ASSUME NEW i \in 1 .. n PROVE g[i] = next(g[i - 1], i)
    BY <1>8, <2>1
  <2> QED BY <2>2, <2>3
<1> HIDE DEF next
<1> DEFINE P == {i \in 0 .. n : g[i] \in S}
<1>10. 0 \in P
  BY <1>2, <1>9
<1>11. ASSUME NEW i \in 1 .. n, i - 1 \in P PROVE i \in P
  BY <1>2, <1>3, <1>9, <1>11
<1>12. \A i \in 0 .. n : i \in P
  <2> HIDE DEF P
  <2> QED BY <1>2, <1>10, <1>11, Induction
<1>13. g[n] \in S
  BY <1>2, <1>12
<1> QED BY <1>1, <1>13 DEF S

-----------------------------------------------------------------------------
(* The builds. *)

\* A selection holds only what was asked for, each once.
LEMMA SelectFacts ==
  ASSUME NEW T, NEW s \in Seq(T), NEW S
  PROVE  /\ select(s, S) \in Seq(T) /\ \A k \in DOMAIN select(s, S) : select(s, S)[k] \in S
         /\ Distinct(select(s, S))
<1> DEFINE n == Len(s)
           next(m, i) == IF s[i] \in S \ ToSet(m) THEN Append(m, s[i]) ELSE m
           step == [p \in Seq(T) \X (1 .. n) |-> next(p[1], p[2])]
           g == CHOOSE upTo : upTo = [i \in 0 .. Len(s) |->
                  IF i = 0 THEN <<>>
                  ELSE IF s[i] \in S \ ToSet(upTo[i - 1]) THEN Append(upTo[i - 1], s[i])
                  ELSE upTo[i - 1]]
<1>1. select(s, S) = g[n]
  BY DEF select
<1>2. n \in Nat /\ <<>> \in Seq(T) /\ \A i \in 1 .. n : s[i] \in T
  OBVIOUS
<1>3. \A m \in Seq(T), i \in 1 .. n : next(m, i) \in Seq(T)
  BY <1>2
<1>4. /\ step \in [Seq(T) \X (1 .. n) -> Seq(T)]
      /\ \A m \in Seq(T), i \in 1 .. n : step[<<m, i>>] = next(m, i)
  <2> HIDE DEF next
  <2> QED BY <1>3
<1> HIDE DEF step, n
<1>5. PICK h \in [0 .. n -> Seq(T)] : Steps(h, n, <<>>, step)
  <2> HIDE DEF g, next
  <2> QED BY <1>2, <1>4, Recursion
<1>6. h[0] = <<>> /\ \A i \in 1 .. n : h[i] = next(h[i - 1], i)
  <2>1. \A i \in 1 .. n : h[i - 1] \in Seq(T)
    BY <1>2
  <2> HIDE DEF next, g
  <2> QED BY <1>4, <1>5, <2>1 DEF Steps
<1>7. h = [i \in 0 .. Len(s) |-> IF i = 0 THEN <<>>
                                ELSE IF s[i] \in S \ ToSet(h[i - 1]) THEN Append(h[i - 1], s[i])
                                ELSE h[i - 1]]
  <2> DEFINE f == [i \in 0 .. Len(s) |-> IF i = 0 THEN <<>> ELSE next(h[i - 1], i)]
  <2>1. ASSUME NEW i \in 0 .. n PROVE h[i] = f[i]
    <3>1. i = 0 \/ i \in 1 .. n
      BY <1>2
    <3> HIDE DEF next, g
    <3> QED BY <1>6, <3>1 DEF n
  <2> HIDE DEF g
  <2> QED BY <2>1 DEF n
<1>8. g = [i \in 0 .. Len(s) |-> IF i = 0 THEN <<>>
                                ELSE IF s[i] \in S \ ToSet(g[i - 1]) THEN Append(g[i - 1], s[i])
                                ELSE g[i - 1]]
  BY <1>7
<1> HIDE DEF g
<1>9. g[0] = <<>> /\ \A i \in 1 .. n : g[i] = next(g[i - 1], i)
  <2>1. 0 \in 0 .. Len(s) /\ \A i \in 1 .. n : i \in 0 .. Len(s) /\ i # 0
    BY <1>2 DEF n
  <2>2. g[0] = <<>>
    BY <1>8, <2>1
  <2>3. ASSUME NEW i \in 1 .. n PROVE g[i] = next(g[i - 1], i)
    BY <1>8, <2>1
  <2> QED BY <2>2, <2>3
<1> DEFINE Good(m) == m \in Seq(T) /\ (\A k \in 1 .. Len(m) : m[k] \in S) /\ Distinct(m)
           P == {i \in 0 .. n : Good(g[i])}
<1>10. 0 \in P
  <2>1. Good(<<>>) /\ 0 \in 0 .. n
    BY <1>2 DEF Distinct
  <2> HIDE DEF Good, next
  <2> QED BY <1>9, <2>1
<1>11. ASSUME NEW i \in 1 .. n, i - 1 \in P PROVE i \in P
  <2> DEFINE m == g[i - 1]
  <2>1. Good(m) /\ g[i] = next(m, i) /\ i \in 0 .. n
    BY <1>2, <1>9, <1>11
  <2> HIDE DEF m
  <2>2. CASE s[i] \notin S \ ToSet(m)
    <3>1. g[i] = m
      BY <2>1, <2>2
    <3> HIDE DEF Good
    <3> QED BY <2>1, <3>1
  <2>3. CASE s[i] \in S \ ToSet(m)
    <3> DEFINE q == Append(m, s[i])
    <3>1. m \in Seq(T) /\ s[i] \in T /\ Distinct(m)
      BY <1>2, <2>1
    <3>2. /\ q \in Seq(T) /\ Len(q) = Len(m) + 1 /\ Len(m) \in Nat /\ q[Len(m) + 1] = s[i]
          /\ \A k \in 1 .. Len(m) : q[k] = m[k]
      BY <3>1
    <3> HIDE DEF q
    <3>3. \A k \in 1 .. Len(q) : k \in 1 .. Len(m) \/ k = Len(m) + 1
      BY <3>2
    <3>4. \A k \in 1 .. Len(q) : q[k] \in S
      BY <2>1, <2>3, <3>2, <3>3
    <3>5. \A k \in 1 .. Len(m) : m[k] # s[i]
      BY <2>3, <3>1 DEF ToSet
    <3>6. Distinct(q)
      <4>1. DOMAIN q = 1 .. Len(q) /\ DOMAIN m = 1 .. Len(m)
        BY <3>1, <3>2
      <4> SUFFICES ASSUME NEW k \in 1 .. Len(q), NEW l \in 1 .. Len(q), q[k] = q[l] PROVE k = l
        BY <4>1 DEF Distinct
      <4>2. CASE k \in 1 .. Len(m) /\ l \in 1 .. Len(m)
        BY <3>1, <3>2, <4>1, <4>2 DEF Distinct
      <4>3. CASE k \in 1 .. Len(m) /\ l = Len(m) + 1
        BY <3>2, <3>5, <4>3
      <4>4. CASE k = Len(m) + 1 /\ l \in 1 .. Len(m)
        BY <3>2, <3>5, <4>4
      <4>5. CASE k = Len(m) + 1 /\ l = Len(m) + 1
        BY <4>5
      <4> QED BY <3>3, <4>2, <4>3, <4>4, <4>5
    <3>7. Good(q)
      BY <3>2, <3>4, <3>6
    <3>8. g[i] = q
      BY <2>1, <2>3 DEF q
    <3> HIDE DEF Good
    <3> QED BY <2>1, <3>7, <3>8
  <2> QED BY <2>2, <2>3
<1>12. \A i \in 0 .. n : i \in P
  <2> HIDE DEF P
  <2> QED BY <1>2, <1>10, <1>11, Induction
<1>13. Good(g[n])
  BY <1>2, <1>12
<1> QED BY <1>1, <1>13

JobOf == [key : Keys, at : {"queued", "retry", "run"}, attempt : {0, 1}, live : BOOLEAN]

\* No two builds of one key, none of a key that has its entry, and none of a size
\* that leaves no two frames.
Building(s, entries) ==
  /\ s \in Seq(JobOf) /\ OneEach(s)
  /\ \A i \in DOMAIN s : /\ frameBudget[s[i].key[2]] >= 2
                         /\ \A e \in ToSet(entries) : e.key # s[i].key

\* A request starts builds only where there is neither an entry nor a build.
LEMMA BuildsStarted ==
  ASSUME NEW shas \in Seq(Shas), NEW wanted, NEW w \in Sizes,
         materialize(shas, wanted, w), materialized \in Seq(Entry), OneEach(materialized),
         Building(jobs, materialized), alive \in BOOLEAN
  PROVE  Building(jobs', materialized')
<1> DEFINE fresh == {s \in wanted : /\ entryOf(Key(s, w)) = {} /\ Key(s, w) \notin refused
                                    /\ ~pending(Key(s, w)) /\ s \in ToSet(sources)}
           S == {s \in fresh : frameBudget[w] >= 2}
           builds == select(shas, S)
           started == [i \in DOMAIN builds |-> Job(Key(builds[i], w))]
<1>1. jobs' = jobs \o started
  BY DEF materialize
<1>2. builds \in Seq(Shas) /\ (\A k \in DOMAIN builds : builds[k] \in S) /\ Distinct(builds)
  BY SelectFacts
<1>3. ToSet(materialized') = ToSet(materialized)
  BY TouchedOrders DEF Orders
<1>4. \A s \in S : /\ frameBudget[w] >= 2
                   /\ \A e \in ToSet(materialized) : e.key # Key(s, w)
                   /\ \A j \in ToSet(jobs) : j.key # Key(s, w)
  BY DEF entryOf, pending
<1> HIDE DEF S, builds
<1> DEFINE m == Len(jobs)
           n == Len(builds)
<1>5. DOMAIN builds = 1 .. n /\ n \in Nat /\ \A k \in 1 .. n : builds[k] \in Shas /\ builds[k] \in S
  BY <1>2
<1>6. jobs \in Seq(JobOf) /\ m \in Nat /\ DOMAIN jobs = 1 .. m
  BY DEF Building
<1>7. started \in Seq(JobOf) /\ Len(started) = n
      /\ \A k \in 1 .. n : started[k].key = <<builds[k], w>>
  <2>1. \A k \in 1 .. n : /\ started[k] \in JobOf /\ started[k].key = <<builds[k], w>>
    <3> SUFFICES ASSUME NEW k \in 1 .. n
                 PROVE  started[k] \in JobOf /\ started[k].key = <<builds[k], w>>
      OBVIOUS
    <3>1. started[k] = [key |-> <<builds[k], w>>, at |-> "queued", attempt |-> 0, live |-> alive]
      BY <1>5 DEF Job, Key
    <3>2. <<builds[k], w>> \in Keys
      BY <1>5 DEF Keys
    <3> HIDE DEF started, Keys
    <3>3. [key |-> <<builds[k], w>>, at |-> "queued", attempt |-> 0, live |-> alive] \in JobOf
      BY <3>2 DEF JobOf
    <3>4. started[k].key = <<builds[k], w>>
      BY <3>1
    <3> QED BY <3>1, <3>3, <3>4
  <2>2. started = [k \in 1 .. n |-> started[k]]
    BY <1>5
  <2> HIDE DEF started
  <2> QED BY <1>5, <2>1, <2>2
<1> HIDE DEF started
<1>8. /\ jobs' \in Seq(JobOf) /\ Len(jobs') = m + n
      /\ \A i \in 1 .. m + n : jobs'[i] = IF i <= m THEN jobs[i] ELSE started[i - m]
  <2>1. /\ jobs \o started \in Seq(JobOf) /\ Len(jobs \o started) = Len(jobs) + Len(started)
        /\ \A i \in 1 .. Len(jobs) + Len(started) :
             (jobs \o started)[i] = IF i <= Len(jobs) THEN jobs[i] ELSE started[i - Len(jobs)]
    <3>1. jobs \in Seq(JobOf) /\ started \in Seq(JobOf)
      BY <1>6, <1>7
    <3> HIDE DEF m, n
    <3> QED BY <3>1, ConcatProperties
  <2> HIDE DEF n
  <2> QED BY <1>1, <1>7, <2>1
<1> HIDE DEF m, n
<1>9. ASSUME NEW i \in 1 .. m + n
      PROVE  \/ i \in 1 .. m /\ jobs'[i] = jobs[i]
             \/ i - m \in 1 .. n /\ jobs'[i].key = <<builds[i - m], w>>
  BY <1>6, <1>5, <1>7, <1>8
<1>10. \A i \in 1 .. m, k \in 1 .. n : jobs[i].key # <<builds[k], w>>
  <2>1. \A i \in 1 .. m : jobs[i] \in ToSet(jobs)
    BY <1>6 DEF ToSet
  <2> QED BY <1>4, <1>5, <2>1 DEF Key
<1>11. OneEach(jobs')
  <2> SUFFICES ASSUME NEW i \in 1 .. m + n, NEW j \in 1 .. m + n, jobs'[i].key = jobs'[j].key
               PROVE  i = j
    BY <1>5, <1>6, <1>8 DEF OneEach
  <2>1. CASE i \in 1 .. m /\ jobs'[i] = jobs[i] /\ j \in 1 .. m /\ jobs'[j] = jobs[j]
    BY <1>6, <2>1 DEF Building, OneEach
  <2>2. CASE i - m \in 1 .. n /\ jobs'[i].key = <<builds[i - m], w>>
             /\ j - m \in 1 .. n /\ jobs'[j].key = <<builds[j - m], w>>
    <3> DEFINE x == builds[i - m]
               y == builds[j - m]
    <3>0. <<x, w>> = <<y, w>>
      BY <2>2
    <3> HIDE DEF x, y
    <3>3. x = y
      BY <3>0
    <3>1. builds[i - m] = builds[j - m]
      BY <3>3 DEF x, y
    <3>2. i - m = j - m
      BY <1>2, <1>5, <2>2, <3>1 DEF Distinct
    <3> QED BY <1>6, <3>2
  <2> QED BY <1>9, <1>10, <2>1, <2>2
<1>12. ASSUME NEW i \in 1 .. m + n
       PROVE  /\ frameBudget[jobs'[i].key[2]] >= 2
              /\ \A e \in ToSet(materialized') : e.key # jobs'[i].key
  <2>1. CASE i \in 1 .. m /\ jobs'[i] = jobs[i]
    BY <1>3, <1>6, <2>1 DEF Building
  <2>2. CASE i - m \in 1 .. n /\ jobs'[i].key = <<builds[i - m], w>>
    <3>1. builds[i - m] \in S /\ jobs'[i].key = Key(builds[i - m], w) /\ jobs'[i].key[2] = w
      BY <1>5, <2>2 DEF Key
    <3> QED BY <1>3, <1>4, <3>1
  <2> QED BY <1>9, <2>1, <2>2
<1> QED BY <1>5, <1>6, <1>8, <1>11, <1>12 DEF Building

\* A build that ends may leave an entry of its key.
LEMMA BuildingLess ==
  ASSUME NEW s, NEW entries, NEW more, Building(s, entries), s # <<>>,
         \A e \in ToSet(more) : e \in ToSet(entries) \/ e.key = s[1].key
  PROVE  Building(Tail(s), more)
<1>1. s \in Seq(JobOf) /\ OneEach(s)
  BY DEF Building
<1>2. /\ Tail(s) \in Seq(JobOf) /\ Len(s) \in Nat /\ DOMAIN s = 1 .. Len(s) /\ 1 \in 1 .. Len(s)
      /\ DOMAIN Tail(s) = 1 .. Len(s) - 1
      /\ \A i \in 1 .. Len(s) - 1 : Tail(s)[i] = s[i + 1] /\ i + 1 \in 1 .. Len(s) /\ i + 1 # 1
  BY <1>1
<1>3. OneEach(Tail(s))
  <2> SUFFICES ASSUME NEW i \in 1 .. Len(s) - 1, NEW j \in 1 .. Len(s) - 1,
                      Tail(s)[i].key = Tail(s)[j].key
               PROVE  i = j
    BY <1>2 DEF OneEach
  <2>1. i + 1 = j + 1
    BY <1>1, <1>2 DEF OneEach
  <2> QED BY <1>2, <2>1
<1>4. ASSUME NEW i \in 1 .. Len(s) - 1
      PROVE  /\ frameBudget[Tail(s)[i].key[2]] >= 2
             /\ \A e \in ToSet(more) : e.key # Tail(s)[i].key
  <2>1. Tail(s)[i] = s[i + 1] /\ i + 1 \in DOMAIN s /\ s[i + 1].key # s[1].key
    BY <1>1, <1>2 DEF OneEach
  <2>2. frameBudget[s[i + 1].key[2]] >= 2 /\ \A e \in ToSet(entries) : e.key # s[i + 1].key
    BY <2>1 DEF Building
  <2> QED BY <2>1, <2>2
<1> QED BY <1>2, <1>3, <1>4 DEF Building

\* Builds are told apart by their keys alone.
LEMMA BuildingSame ==
  ASSUME NEW s, NEW entries, Building(s, entries), NEW r \in Seq(JobOf), Len(r) = Len(s),
         \A i \in 1 .. Len(s) : r[i].key = s[i].key
  PROVE  Building(r, entries)
<1>1. s \in Seq(JobOf) /\ DOMAIN s = 1 .. Len(s) /\ DOMAIN r = 1 .. Len(s)
  BY DEF Building
<1>2. OneEach(r)
  BY <1>1 DEF OneEach, Building
<1> QED BY <1>1, <1>2 DEF Building

-----------------------------------------------------------------------------
(* The eviction. *)

\* What is left when the first n are dropped.
LEMMA DropFacts ==
  ASSUME NEW T, NEW s \in Seq(T), NEW n \in 0 .. Len(s)
  PROVE  /\ drop(s, n) \in Seq(T) /\ Len(drop(s, n)) = Len(s) - n
         /\ \A i \in 1 .. Len(s) - n : drop(s, n)[i] = s[n + i]
<1>1. Len(s) \in Nat /\ n \in Nat /\ n <= Len(s)
  OBVIOUS
<1>2. CASE n = Len(s)
  <2>1. drop(s, n) = <<>>
    BY <1>1, <1>2 DEF drop
  <2> QED BY <1>1, <1>2, <2>1
<1>3. CASE n < Len(s)
  <2>1. n + 1 \in 1 .. Len(s) + 1 /\ Len(s) \in n + 1 .. Len(s)
    BY <1>1, <1>3
  <2>2. \A i \in n + 1 .. Len(s) : s[i] \in T
    BY <1>1
  <2>3. /\ drop(s, n) \in Seq(T) /\ Len(drop(s, n)) = Len(s) - (n + 1) + 1
        /\ \A i \in 1 .. Len(s) - (n + 1) + 1 : drop(s, n)[i] = s[(n + 1) + i - 1]
    BY <2>1, <2>2, SubSeqProperties DEF drop
  <2>4. Len(s) - (n + 1) + 1 = Len(s) - n /\ \A i \in 1 .. Len(s) - n : (n + 1) + i - 1 = n + i
    BY <1>1
  <2> QED BY <2>3, <2>4
<1> QED BY <1>1, <1>2, <1>3

\* Eviction stops within the limit, or at the last entry.
LEMMA ExcessFacts ==
  ASSUME NEW s \in Seq(Entry), Len(s) >= 1, NEW limit \in Nat
  PROVE  /\ excess(s, limit) \in 0 .. Len(s) - 1
         /\ excess(s, limit) = Len(s) - 1 \/ sum(drop(s, excess(s, limit)), "bytes") <= limit
<1> DEFINE n == Len(s)
           over(m) == m < Len(s) - 1 /\ sum(drop(s, m), "bytes") > limit
           D == {m \in 0 .. n : ~over(m)}
           e == CHOOSE m \in 0 .. n : ~over(m) /\ \A i \in 0 .. m - 1 : over(i)
<1>1. n \in Nat /\ n >= 1
  OBVIOUS
<1>2. excess(s, limit) = e
  BY DEF excess
<1>3. PICK m \in D : \A k \in D : m <= k
  <2>1. n \in D
    BY <1>1
  <2>2. D \subseteq Nat /\ D # {}
    BY <1>1, <2>1
  <2> HIDE DEF D
  <2> QED BY <2>2, LeastNumber
<1> HIDE DEF over
<1>4. \A i \in 0 .. m - 1 : over(i)
  <2> SUFFICES ASSUME NEW i \in 0 .. m - 1 PROVE over(i)
    OBVIOUS
  <2>1. i \in 0 .. n /\ ~(m <= i)
    BY <1>1, <1>3
  <2> QED BY <1>3, <2>1
<1>5. e \in 0 .. n /\ ~over(e) /\ \A i \in 0 .. e - 1 : over(i)
  <2>1. m \in 0 .. n /\ ~over(m)
    BY <1>3
  <2> HIDE DEF n
  <2> QED BY <1>4, <2>1
<1> HIDE DEF e
<1>6. e \in 0 .. n - 1
  <2>1. CASE e = 0
    BY <1>1, <2>1
  <2>2. CASE e # 0
    <3>1. e - 1 \in 0 .. e - 1
      BY <1>1, <1>5, <2>2
    <3>2. e - 1 < n - 1
      BY <1>5, <3>1 DEF over
    <3> QED BY <1>1, <1>5, <3>2
  <2> QED BY <2>1, <2>2
<1>7. sum(drop(s, e), "bytes") \in Nat
  <2>1. drop(s, e) \in Seq(Entry)
    <3>1. e \in 0 .. Len(s)
      BY <1>5
    <3> QED BY <3>1, DropFacts
  <2> QED BY <2>1, SumNat, EntryWeighs
<1>8. e = n - 1 \/ sum(drop(s, e), "bytes") <= limit
  <2>1. ~(e < n - 1) \/ ~(sum(drop(s, e), "bytes") > limit)
    BY <1>5 DEF over
  <2> QED BY <1>1, <1>6, <1>7, <2>1
<1> QED BY <1>2, <1>6, <1>8

StoreType == materialized \in Seq(Entry) /\ size \in Sizes /\ doc \in Seq(Shas)

\* The inductive invariant of the store.
StoreInv ==
  /\ StoreType /\ OneEach(materialized) /\ Building(jobs, materialized)
  /\ BooksMatchDisk /\ PlaysAsLong

\* One set of frames plays as long as its source.
LongEnough(e) == Len(e.frames) >= 2 /\ sum(e.frames, "gap") = sum(Clip[e.key[1]], "gap")

\* Where the new entry and what is evicted for it leave the store.
LEMMA KeepFacts ==
  ASSUME ClipAssumption, StoreInv, NEW entry \in Entry,
         \A e \in ToSet(materialized) : e.key # entry.key,
         LongEnough(entry), keep(Append(materialized, entry))
  PROVE  /\ materialized' \in Seq(Entry) /\ OneEach(materialized') /\ BooksMatchDisk' /\ PlaysAsLong'
         /\ \A e \in ToSet(materialized') : e \in ToSet(materialized) \/ e.key = entry.key
<1> DEFINE s == Append(materialized, entry)
           L == Len(materialized)
           n == excess(s, MaxFrameStoreBytes)
<1>1. /\ materialized \in Seq(Entry) /\ OneEach(materialized) /\ L \in Nat
      /\ DOMAIN materialized = 1 .. L /\ frameBytes = sum(materialized, "bytes")
  BY DEF StoreInv, StoreType, BooksMatchDisk
<1>2. /\ s \in Seq(Entry) /\ Len(s) = L + 1 /\ DOMAIN s = 1 .. L + 1 /\ s[L + 1] = entry
      /\ (\A i \in 1 .. L : s[i] = materialized[i]) /\ Last(s) = entry
  BY <1>1 DEF Last
<1>3. /\ materialized' = drop(s, n)
      /\ frameBytes' = frameBytes + entry.bytes - sum(SubSeq(s, 1, n), "bytes")
      /\ disk' = (disk \cup {entry.key}) \ {s[i].key : i \in 1 .. n}
  BY <1>2 DEF keep, directory
<1> HIDE DEF s
<1>4. MaxFrameStoreBytes \in Nat
  BY DEF ClipAssumption
<1>5. /\ n \in 0 .. Len(s) - 1
      /\ n = Len(s) - 1 \/ sum(drop(s, n), "bytes") <= MaxFrameStoreBytes
  <2>1. Len(s) >= 1
    BY <1>1, <1>2
  <2> QED BY <1>2, <1>4, <2>1, ExcessFacts
<1> HIDE DEF n, L
<1>6. /\ n \in 0 .. L /\ materialized' \in Seq(Entry) /\ Len(materialized') = L + 1 - n
      /\ DOMAIN materialized' = 1 .. L + 1 - n
      /\ \A i \in 1 .. L + 1 - n : materialized'[i] = s[n + i] /\ n + i \in 1 .. L + 1
  <2>1. n \in 0 .. Len(s) /\ n \in 0 .. L
    BY <1>1, <1>2, <1>5
  <2>2. /\ drop(s, n) \in Seq(Entry) /\ Len(drop(s, n)) = Len(s) - n
        /\ \A i \in 1 .. Len(s) - n : drop(s, n)[i] = s[n + i]
    <3>1. s \in Seq(Entry) /\ n \in 0 .. Len(s)
      BY <1>2, <2>1
    <3> QED BY <3>1, DropFacts
  <2>3. Len(s) - n = L + 1 - n /\ \A i \in 1 .. L + 1 - n : n + i \in 1 .. L + 1
    BY <1>1, <1>2, <2>1
  <2> QED BY <1>3, <2>1, <2>2, <2>3
<1>7. \A i \in 1 .. L + 1 : s[i] \in ToSet(materialized) \/ s[i] = entry
  <2> SUFFICES ASSUME NEW i \in 1 .. L + 1 PROVE s[i] \in ToSet(materialized) \/ s[i] = entry
    OBVIOUS
  <2>1. CASE i = L + 1
    BY <1>2, <2>1
  <2>2. CASE i \in 1 .. L
    BY <1>1, <1>2, <2>2 DEF ToSet
  <2> QED BY <1>1, <2>1, <2>2
<1>8. \A i, j \in 1 .. L + 1 : s[i].key = s[j].key => i = j
  <2>1. \A i \in 1 .. L : materialized[i].key # entry.key
    BY <1>1 DEF ToSet
  <2> SUFFICES ASSUME NEW i \in 1 .. L + 1, NEW j \in 1 .. L + 1, s[i].key = s[j].key PROVE i = j
    OBVIOUS
  <2>2. CASE i \in 1 .. L /\ j \in 1 .. L
    BY <1>1, <1>2, <2>2 DEF OneEach
  <2>3. CASE i \in 1 .. L /\ j = L + 1
    BY <1>2, <2>1, <2>3
  <2>4. CASE i = L + 1 /\ j \in 1 .. L
    BY <1>2, <2>1, <2>4
  <2> QED BY <1>1, <2>2, <2>3, <2>4
<1>9. OneEach(materialized')
  <2> SUFFICES ASSUME NEW i \in 1 .. L + 1 - n, NEW j \in 1 .. L + 1 - n,
                      materialized'[i].key = materialized'[j].key
               PROVE  i = j
    BY <1>6 DEF OneEach
  <2>1. n + i = n + j
    <3>1. /\ materialized'[i] = s[n + i] /\ n + i \in 1 .. L + 1
          /\ materialized'[j] = s[n + j] /\ n + j \in 1 .. L + 1
      BY <1>6
    <3>2. s[n + i].key = s[n + j].key
      BY <3>1
    <3> QED BY <1>8, <3>1, <3>2
  <2> QED BY <1>1, <1>6, <2>1
<1>10. ToSet(materialized') = {s[i] : i \in n + 1 .. L + 1}
  <2>1. \A i \in n + 1 .. L + 1 : i - n \in 1 .. L + 1 - n /\ n + (i - n) = i
    BY <1>1, <1>6
  <2>2. \A i \in 1 .. L + 1 - n : n + i \in n + 1 .. L + 1
    BY <1>1, <1>6
  <2> DEFINE m == materialized'
  <2>3. DOMAIN m = 1 .. L + 1 - n /\ \A i \in 1 .. L + 1 - n : m[i] = s[n + i]
    BY <1>6
  <2>4. ToSet(materialized') = {m[i] : i \in 1 .. L + 1 - n}
    BY <2>3 DEF ToSet
  <2> HIDE DEF m
  <2>5. ASSUME NEW i \in n + 1 .. L + 1 PROVE s[i] \in {m[k] : k \in 1 .. L + 1 - n}
    <3>1. i - n \in 1 .. L + 1 - n /\ m[i - n] = s[i]
      BY <2>1, <2>3
    <3> QED BY <3>1
  <2>6. ASSUME NEW k \in 1 .. L + 1 - n PROVE m[k] \in {s[i] : i \in n + 1 .. L + 1}
    BY <2>2, <2>3
  <2> QED BY <2>4, <2>5, <2>6
<1>11. \A e \in ToSet(materialized') : e \in ToSet(materialized) \/ e = entry
  <2>1. \A i \in n + 1 .. L + 1 : i \in 1 .. L + 1
    BY <1>1, <1>6
  <2> QED BY <1>7, <1>10, <2>1
<1>12. PlaysAsLong'
  <2> SUFFICES ASSUME NEW e \in ToSet(materialized') PROVE LongEnough(e)
    BY DEF PlaysAsLong, LongEnough
  <2>1. CASE e \in ToSet(materialized)
    BY <2>1 DEF StoreInv, PlaysAsLong, LongEnough
  <2> QED BY <1>11, <2>1
<1>13. disk' = {directory(e.key) : e \in ToSet(materialized')}
  <2>1. disk = {e.key : e \in ToSet(materialized)}
    BY DEF StoreInv, BooksMatchDisk, directory
  <2>2. disk \cup {entry.key} = {s[i].key : i \in 1 .. L + 1}
    <3>1. \A i \in 1 .. L : i \in 1 .. L + 1
      BY <1>1
    <3>2. L + 1 \in 1 .. L + 1
      BY <1>1
    <3>3. ASSUME NEW e \in ToSet(materialized) PROVE e.key \in {s[i].key : i \in 1 .. L + 1}
      <4>1. PICK i \in 1 .. L : materialized[i] = e
        BY <1>1 DEF ToSet
      <4> QED BY <1>2, <3>1, <4>1
    <3>4. entry.key \in {s[i].key : i \in 1 .. L + 1}
      BY <1>2, <3>2
    <3>5. ASSUME NEW i \in 1 .. L + 1 PROVE s[i].key \in disk \cup {entry.key}
      BY <1>7, <2>1
    <3> QED BY <2>1, <3>3, <3>4, <3>5
  <2>3. \A i \in 1 .. L + 1 : i \in 1 .. n \/ i \in n + 1 .. L + 1
    BY <1>1, <1>6
  <2>4. (\A i \in 1 .. n : i \in 1 .. L + 1) /\ (\A i \in n + 1 .. L + 1 : i \in 1 .. L + 1 /\ i \notin 1 .. n)
    BY <1>1, <1>6
  <2>5. disk' = {s[i].key : i \in n + 1 .. L + 1}
    <3>1. ASSUME NEW k \in disk' PROVE k \in {s[i].key : i \in n + 1 .. L + 1}
      <4>1. k \in {s[i].key : i \in 1 .. L + 1} /\ k \notin {s[i].key : i \in 1 .. n}
        BY <1>3, <2>2
      <4>2. PICK i \in 1 .. L + 1 : k = s[i].key
        BY <4>1
      <4>3. i \in n + 1 .. L + 1
        BY <2>3, <4>1, <4>2
      <4> QED BY <4>2, <4>3
    <3>2. ASSUME NEW i \in n + 1 .. L + 1 PROVE s[i].key \in disk'
      <4>1. i \in 1 .. L + 1 /\ i \notin 1 .. n
        BY <2>4
      <4>2. s[i].key \notin {s[k].key : k \in 1 .. n}
        BY <1>8, <2>4, <4>1
      <4>3. s[i].key \in disk \cup {entry.key}
        BY <2>2, <4>1
      <4> QED BY <1>3, <4>2, <4>3
    <3> QED BY <3>1, <3>2
  <2>6. {s[i].key : i \in n + 1 .. L + 1} = {e.key : e \in {s[i] : i \in n + 1 .. L + 1}}
    OBVIOUS
  <2> QED BY <1>10, <2>5, <2>6 DEF directory
<1>14. frameBytes' = sum(materialized', "bytes")
  <2>1. PICK u : Adds(u, s, "bytes") /\ sum(s, "bytes") = u[Len(s)]
    BY <1>2, SumAdds, EntryWeighs
  <2>2. sum(SubSeq(s, 1, n), "bytes") = u[n]
    <3>1. n \in 0 .. Len(s)
      BY <1>1, <1>2, <1>6
    <3> QED BY <1>2, <2>1, <3>1, SumFirst, EntryWeighs
  <2>3. sum(materialized', "bytes") = u[Len(s)] - u[n]
    <3>1. n + 1 \in 1 .. Len(s) + 1 /\ Len(s) \in (n + 1) - 1 .. Len(s) /\ (n + 1) - 1 = n
      BY <1>1, <1>2, <1>6
    <3>2. sum(SubSeq(s, n + 1, Len(s)), "bytes") = u[Len(s)] - u[(n + 1) - 1]
      BY <1>2, <2>1, <3>1, SumBetween, EntryWeighs
    <3> QED BY <1>3, <3>1, <3>2 DEF drop
  <2>4. sum(s, "bytes") = frameBytes + entry.bytes
    <3> DEFINE one == <<entry>>
    <3>1. one \in Seq(Entry) /\ s = materialized \o one
      BY <1>1 DEF s
    <3>2. sum(one, "bytes") = entry.bytes
      BY SumOne, EntryWeighs
    <3> HIDE DEF one
    <3>3. sum(materialized \o one, "bytes") = sum(materialized, "bytes") + sum(one, "bytes")
      BY <1>1, <3>1, SumParts, EntryWeighs
    <3> QED BY <1>1, <3>1, <3>2, <3>3
  <2>5. u[Len(s)] \in Nat /\ u[n] \in Nat
    <3>1. n \in 0 .. Len(s) /\ Len(s) \in 0 .. Len(s)
      BY <1>1, <1>2, <1>6
    <3> QED BY <2>1, <3>1 DEF Adds
  <2>6. frameBytes \in Nat /\ entry.bytes \in Nat
    BY <1>1, SumNat, EntryWeighs DEF Entry
  <2> QED BY <1>3, <2>1, <2>2, <2>3, <2>4, <2>5, <2>6
<1>15. frameBytes' <= MaxFrameStoreBytes \/ Len(materialized') = 1
  <2>1. CASE n = Len(s) - 1
    BY <1>1, <1>2, <1>6, <2>1
  <2> QED BY <1>3, <1>5, <1>14, <2>1
<1>16. BooksMatchDisk'
  BY <1>13, <1>14, <1>15 DEF BooksMatchDisk
<1> QED BY <1>6, <1>9, <1>11, <1>12, <1>16

-----------------------------------------------------------------------------
(* The steps. *)

\* An entry as a build makes it.
LEMMA DecodedEntry ==
  ASSUME ClipAssumption, NEW key \in Keys, Len(Clip[key[1]]) >= 2, frameBudget[key[2]] >= 2,
         NEW frames, frames = thinToShare(decodeInPage(Clip[key[1]], frameBudget[key[2]]))
  PROVE  LET entry == [key |-> key, frames |-> frames, bytes |-> sum(frames, "bytes")]
         IN  entry \in Entry /\ LongEnough(entry)
<1> DEFINE clip == Clip[key[1]]
           budget == frameBudget[key[2]]
           painted == decodeInPage(clip, budget)
           entry == [key |-> key, frames |-> frames, bytes |-> sum(frames, "bytes")]
<1>1. key[1] \in Shas /\ key[2] \in Sizes
  BY DEF Keys
<1>2. clip \in Seq(Frame)
  <2> DEFINE Clips == [bytes : Nat \ {0}, gap : Nat \ {0}]
  <2>1. clip \in Seq(Clips)
    BY <1>1 DEF ClipAssumption
  <2>2. Clips \subseteq Frame
    BY DEF Frame
  <2> HIDE DEF Clips, clip
  <2> QED BY <2>1, <2>2
<1>3. budget \in Nat
  BY <1>1 DEF ClipAssumption
<1> HIDE DEF clip, budget
<1>4. Len(clip) >= 2 /\ budget >= 2 /\ frames = thinToShare(painted)
  BY DEF clip, budget
<1>5. painted \in Seq(Frame) /\ Len(painted) >= 2 /\ sum(painted, "gap") = sum(clip, "gap")
  BY <1>2, <1>3, <1>4, DecodeFacts
<1> HIDE DEF painted
<1>6. frames \in Seq(Frame) /\ Len(frames) >= 2 /\ sum(frames, "gap") = sum(painted, "gap")
  BY <1>4, <1>5, ShareFacts
<1>7. sum(frames, "bytes") \in Nat
  BY <1>6, SumNat, FrameWeighs
<1>8. entry \in Entry
  <2> HIDE DEF Keys, Frame
  <2> QED BY <1>6, <1>7 DEF Entry
<1>9. LongEnough(entry)
  <2>1. entry.frames = frames /\ entry.key = key
    OBVIOUS
  <2> HIDE DEF entry
  <2> QED BY <1>5, <1>6, <2>1 DEF LongEnough, clip
<1> QED BY <1>8, <1>9

\* What leaves the entries, their bytes and their directories alone keeps what is said of them.
LEMMA BooksUntouched ==
  ASSUME StoreInv, UNCHANGED <<materialized, frameBytes, disk>>
  PROVE  OneEach(materialized') /\ BooksMatchDisk' /\ PlaysAsLong' /\ materialized' \in Seq(Entry)
  BY DEF StoreInv, StoreType, OneEach, BooksMatchDisk, PlaysAsLong

\* A build that ends without an entry.
LEMMA TailStoreInv ==
  ASSUME StoreInv, jobs # <<>>, jobs' = Tail(jobs),
         UNCHANGED <<materialized, frameBytes, disk, doc, size>>
  PROVE  StoreInv'
<1>1. Building(Tail(jobs), materialized)
  <2>1. Building(jobs, materialized)
    BY DEF StoreInv
  <2> QED BY <2>1, BuildingLess
<1> QED BY <1>1, BooksUntouched DEF StoreInv, StoreType, BooksMatchDisk, PlaysAsLong

\* A step of the pane or of the page, or another document's.
LEMMA SameJobsStoreInv ==
  ASSUME StoreInv, UNCHANGED <<jobs, materialized, frameBytes, disk>>,
         size' \in Sizes, doc' \in Seq(Shas)
  PROVE  StoreInv'
<1>1. OneEach(materialized') /\ BooksMatchDisk' /\ PlaysAsLong' /\ materialized' \in Seq(Entry)
  BY BooksUntouched
<1>2. Building(jobs', materialized')
  BY DEF StoreInv
<1> QED BY <1>1, <1>2 DEF StoreInv, StoreType

\* A build that starts, or starts again, is still the build of its key.
LEMMA RunsStoreInv ==
  ASSUME StoreInv, jobs # <<>>, NEW one \in JobOf, one.key = jobs[1].key, jobs' = [jobs EXCEPT ![1] = one],
         UNCHANGED <<materialized, frameBytes, disk, doc, size>>
  PROVE  StoreInv'
<1>1. jobs \in Seq(JobOf) /\ Building(jobs, materialized)
  BY DEF StoreInv, Building
<1>2. /\ jobs' \in Seq(JobOf) /\ Len(jobs') = Len(jobs)
      /\ \A i \in 1 .. Len(jobs) : jobs'[i].key = jobs[i].key
  <2>1. jobs \in Seq(JobOf) /\ 1 \in 1 .. Len(jobs)
    BY <1>1
  <2> DEFINE r == [jobs EXCEPT ![1] = one]
  <2>2. /\ r \in Seq(JobOf) /\ Len(r) = Len(jobs)
        /\ \A i \in 1 .. Len(jobs) : r[i] = IF i = 1 THEN one ELSE jobs[i]
    BY <2>1, ExceptSeq
  <2>3. jobs' = r
    OBVIOUS
  <2> HIDE DEF r
  <2> QED BY <2>2, <2>3
<1>3. Building(jobs', materialized)
  BY <1>1, <1>2, BuildingSame
<1> QED BY <1>3, BooksUntouched DEF StoreInv, StoreType

\* The steps of a build.
LEMMA DecodeStoreInv ==
  ASSUME ClipAssumption, StoreInv, Decode \/ EnvironmentFails
  PROVE  StoreInv'
<1>1. ASSUME fail, jobs # <<>> PROVE StoreInv'
  BY <1>1, TailStoreInv DEF fail, settle
<1>2. CASE StartDecode
  <2>1. CASE fail
    BY <1>1, <1>2, <2>1 DEF StartDecode
  <2>2. CASE jobs' = [jobs EXCEPT ![1].at = "run"] /\ UNCHANGED <<materialized, frameBytes, disk, pane>>
    <3>1. jobs # <<>> /\ jobs[1] \in JobOf
      BY <1>2 DEF StartDecode, StoreInv, Building
    <3> DEFINE one == [jobs[1] EXCEPT !.at = "run"]
    <3>2. one \in JobOf /\ one.key = jobs[1].key
      BY <3>1 DEF JobOf
    <3>3. jobs' = [jobs EXCEPT ![1] = one]
      BY <2>2
    <3> HIDE DEF one
    <3> QED BY <2>2, <3>1, <3>2, <3>3, RunsStoreInv DEF pane
  <2> QED BY <1>2, <2>1, <2>2 DEF StartDecode
<1>3. CASE DecodeFails
  <2>1. CASE jobs[1].attempt = 1 /\ fail
    BY <1>1, <1>3, <2>1 DEF DecodeFails, Running
  <2>2. CASE /\ jobs' = [jobs EXCEPT ![1].at = "retry", ![1].attempt = 1]
             /\ UNCHANGED <<materialized, frameBytes, disk, pane>>
    <3>1. jobs # <<>> /\ jobs[1] \in JobOf
      BY <1>3 DEF DecodeFails, Running, StoreInv, Building
    <3> DEFINE again == [jobs[1] EXCEPT !.at = "retry"]
               one == [again EXCEPT !.attempt = 1]
               first == [jobs EXCEPT ![1] = again]
    <3>2. again \in JobOf /\ again.key = jobs[1].key
      BY <3>1 DEF JobOf
    <3>3. one \in JobOf /\ one.key = again.key
      <4> HIDE DEF again
      <4> QED BY <3>2 DEF JobOf
    <3>4. jobs \in Seq(JobOf) /\ 1 \in DOMAIN jobs
      BY <3>1 DEF StoreInv, Building
    <3>5. first[1] = again /\ jobs' = [first EXCEPT ![1].attempt = 1]
      BY <2>2, <3>4
    <3>6. jobs' = [jobs EXCEPT ![1] = one]
      <4>1. jobs' = [first EXCEPT ![1] = one]
        <5> HIDE DEF again, first
        <5> QED BY <3>5
      <4> HIDE DEF one, again
      <4> QED BY <4>1
    <3> HIDE DEF one
    <3> QED BY <2>2, <3>1, <3>2, <3>3, <3>6, RunsStoreInv DEF pane
  <2> QED BY <1>3, <2>1, <2>2 DEF DecodeFails
<1>4. CASE EnvironmentFails
  BY <1>1, <1>4 DEF EnvironmentFails, Running
<1>5. CASE Decoded
  <2> DEFINE key == jobs[1].key
  <2>1. jobs # <<>> /\ jobs' = Tail(jobs) /\ UNCHANGED <<doc, size>>
    BY <1>5 DEF Decoded, Running, settle
  <2>2. CASE UNCHANGED <<materialized, frameBytes, disk>>
    BY <2>1, <2>2, TailStoreInv
  <2>3. CASE ~UNCHANGED <<materialized, frameBytes, disk>>
    <3>1. Len(Clip[key[1]]) >= 2 /\
            \E painted \in {decodeInPage(Clip[key[1]], frameBudget[key[2]])} :
            \E frames \in {thinToShare(painted)} :
            \E entry \in {[key |-> key, frames |-> frames, bytes |-> sum(frames, "bytes")]} :
            \E entries \in {Append(materialized, entry)} : keep(entries)
      BY <1>5, <2>3 DEF Decoded
    <3>2. PICK frames : /\ frames = thinToShare(decodeInPage(Clip[key[1]], frameBudget[key[2]]))
                        /\ keep(Append(materialized, [key |-> key, frames |-> frames,
                                                      bytes |-> sum(frames, "bytes")]))
      BY <3>1
    <3>3. jobs[1] \in JobOf /\ 1 \in DOMAIN jobs /\ Building(jobs, materialized)
      BY <2>1 DEF StoreInv, Building
    <3>4. /\ key \in Keys /\ frameBudget[key[2]] >= 2
          /\ \A e \in ToSet(materialized) : e.key # key
      BY <3>3 DEF JobOf, Building
    <3> DEFINE entry == [key |-> key, frames |-> frames, bytes |-> sum(frames, "bytes")]
    <3>5. entry \in Entry /\ LongEnough(entry) /\ entry.key = key
      <4> HIDE DEF key
      <4> QED BY <3>1, <3>2, <3>4, DecodedEntry
    <3>6. keep(Append(materialized, entry))
      BY <3>2
    <3> HIDE DEF entry
    <3>7. /\ materialized' \in Seq(Entry) /\ OneEach(materialized') /\ BooksMatchDisk' /\ PlaysAsLong'
          /\ \A e \in ToSet(materialized') : e \in ToSet(materialized) \/ e.key = entry.key
      BY <3>4, <3>5, <3>6, KeepFacts
    <3>8. Building(Tail(jobs), materialized')
      BY <2>1, <3>3, <3>5, <3>7, BuildingLess
    <3> QED BY <2>1, <3>7, <3>8 DEF StoreInv, StoreType
  <2> QED BY <2>2, <2>3
<1> QED BY <1>2, <1>3, <1>4, <1>5 DEF Decode

\* A request moves entries and starts builds.
LEMMA MaterializeStoreInv ==
  ASSUME StoreInv, alive \in BOOLEAN, NEW shas \in Seq(Shas), NEW wanted, NEW w \in Sizes,
         materialize(shas, wanted, w), UNCHANGED <<doc, size>>
  PROVE  StoreInv'
<1>1. /\ materialized \in Seq(Entry) /\ OneEach(materialized) /\ Building(jobs, materialized)
      /\ BooksMatchDisk /\ PlaysAsLong
  BY DEF StoreInv, StoreType
<1>2. Building(jobs', materialized')
  BY <1>1, BuildsStarted
<1>3. materialized' \in Orders(materialized)
  BY <1>1, TouchedOrders
<1>4. /\ materialized' \in Seq(Entry) /\ OneEach(materialized')
      /\ ToSet(materialized') = ToSet(materialized) /\ Len(materialized') = Len(materialized)
      /\ sum(materialized', "bytes") = sum(materialized, "bytes")
  BY <1>3 DEF Orders
<1>5. UNCHANGED <<frameBytes, disk>>
  BY DEF materialize
<1>6. BooksMatchDisk' /\ PlaysAsLong'
  BY <1>1, <1>4, <1>5 DEF BooksMatchDisk, PlaysAsLong
<1>7. StoreType'
  BY <1>4 DEF StoreInv, StoreType
<1> QED BY <1>2, <1>4, <1>6, <1>7 DEF StoreInv

\* The steps of the pane, and the failures of the page and of the browser.
LEMMA PaneStoreInv ==
  ASSUME ClipAssumption, StoreInv, alive \in BOOLEAN,
         Edit \/ Resize \/ Elsewhere \/ Request \/ Answer \/ Upload \/ PageDies \/ BrowserDies
  PROVE  StoreInv'
<1>1. size \in Sizes /\ doc \in Seq(Shas)
  BY DEF StoreInv, StoreType
<1>2. CASE Edit
  <2>1. doc' \in Seq(Shas)
    BY <1>2 DEF Edit, ClipAssumption
  <2> QED BY <1>1, <1>2, <2>1, SameJobsStoreInv DEF Edit
<1>3. CASE Resize
  BY <1>1, <1>3, SameJobsStoreInv DEF Resize, store
<1>4. CASE Elsewhere
  <2>1. UNCHANGED <<doc, size>>
    BY <1>4 DEF Elsewhere, pane
  <2>2. CASE UNCHANGED <<materialized, frameBytes, jobs, disk>>
    BY <1>1, <2>1, <2>2, SameJobsStoreInv
  <2>3. CASE \E sha \in Others, w \in Sizes : materialize(<<sha>>, {sha}, w)
    <3>1. PICK sha \in Others, w \in Sizes : materialize(<<sha>>, {sha}, w)
      BY <2>3
    <3> DEFINE shas == <<sha>>
    <3>2. shas \in Seq(Shas)
      <4>1. sha \in Shas
        BY DEF ClipAssumption
      <4> QED BY <4>1
    <3>3. materialize(shas, {sha}, w)
      BY <3>1
    <3> HIDE DEF shas
    <3> QED BY <2>1, <3>2, <3>3, MaterializeStoreInv
  <2> QED BY <1>4, <2>2, <2>3 DEF Elsewhere
<1>5. CASE Request
  <2>1. PICK wanted : materialize(doc, wanted, size)
    BY <1>5 DEF Request
  <2> QED BY <1>1, <1>5, <2>1, MaterializeStoreInv DEF Request
<1>6. CASE Answer \/ Upload \/ PageDies
  <2>1. UNCHANGED <<store, doc, size>>
    BY <1>6 DEF Answer, Upload, PageDies, pane
  <2> QED BY <1>1, <2>1, SameJobsStoreInv DEF store
<1>7. CASE BrowserDies
  <2>1. /\ jobs' = [i \in DOMAIN jobs |-> [jobs[i] EXCEPT !.live = FALSE]]
        /\ UNCHANGED <<materialized, frameBytes, disk, doc, size>>
    BY <1>7 DEF BrowserDies, pane
  <2>2. jobs \in Seq(JobOf) /\ Building(jobs, materialized)
    BY DEF StoreInv, Building
  <2>3. \A i \in DOMAIN jobs : jobs'[i] \in JobOf /\ jobs'[i].key = jobs[i].key
    <3> SUFFICES ASSUME NEW i \in DOMAIN jobs
                 PROVE  jobs'[i] \in JobOf /\ jobs'[i].key = jobs[i].key
      OBVIOUS
    <3>1. jobs'[i] = [jobs[i] EXCEPT !.live = FALSE] /\ jobs[i] \in JobOf
      BY <2>1, <2>2
    <3> HIDE DEF JobOf
    <3> QED BY <3>1 DEF JobOf
  <2>4. jobs' \in Seq(JobOf) /\ Len(jobs') = Len(jobs)
    <3>1. Len(jobs) \in Nat /\ DOMAIN jobs = 1 .. Len(jobs)
      BY <2>2
    <3>2. jobs' = [i \in 1 .. Len(jobs) |-> jobs'[i]]
      BY <2>1, <3>1
    <3> QED BY <2>3, <3>1, <3>2
  <2>5. Building(jobs', materialized)
    <3>1. \A i \in 1 .. Len(jobs) : jobs'[i].key = jobs[i].key
      BY <2>2, <2>3
    <3> QED BY <2>2, <2>4, <3>1, BuildingSame
  <2> QED BY <2>1, <2>5, BooksUntouched DEF StoreInv, StoreType
<1> QED BY <1>2, <1>3, <1>4, <1>5, <1>6, <1>7

LEMMA InitStoreInv == ClipAssumption /\ Init => StoreInv
<1> SUFFICES ASSUME ClipAssumption, Init PROVE StoreInv
  OBVIOUS
<1>1. /\ materialized = <<>> /\ frameBytes = 0 /\ jobs = <<>> /\ disk = {} /\ doc = <<>>
      /\ size \in Sizes
  BY DEF Init
<1> DEFINE empty == <<>>
<1>2. empty \in Seq(Entry) /\ empty \in Seq(JobOf) /\ empty \in Seq(Shas) /\ DOMAIN empty = {}
  OBVIOUS
<1>3. sum(empty, "bytes") = 0
  <2> DEFINE u == [i \in 0 .. 0 |-> 0]
  <2>1. Len(empty) = 0 /\ Adds(u, empty, "bytes") /\ u[0] = 0
    BY DEF Adds
  <2> HIDE DEF u, empty
  <2> QED BY <1>2, <2>1, AddsOnce, EntryWeighs
<1>4. ToSet(empty) = {}
  BY <1>2 DEF ToSet
<1>5. materialized = empty /\ jobs = empty /\ doc = empty
  BY <1>1
<1> HIDE DEF empty
<1>6. StoreType /\ OneEach(materialized) /\ Building(jobs, materialized)
  BY <1>1, <1>2, <1>5 DEF StoreType, OneEach, Building
<1>7. PlaysAsLong
  BY <1>4, <1>5 DEF PlaysAsLong
<1>8. BooksMatchDisk
  <2>1. 0 <= MaxFrameStoreBytes
    BY DEF ClipAssumption
  <2> QED BY <1>1, <1>3, <1>4, <1>5, <2>1 DEF BooksMatchDisk
<1> QED BY <1>6, <1>7, <1>8 DEF StoreInv

\* The invariant needs to know of the browser only that it is there or not.
StoreSafe == StoreInv /\ alive \in BOOLEAN

LEMMA AliveOrNot == alive \in BOOLEAN /\ [Next]_vars => alive' \in BOOLEAN
  BY DEF Next, Decode, StartDecode, DecodeFails, Decoded, EnvironmentFails, fail, settle, PageDies,
         BrowserDies, Edit, Resize, Elsewhere, Request, Answer, Upload, vars

LEMMA NextStoreSafe == ClipAssumption /\ StoreSafe /\ [Next]_vars => StoreSafe'
<1> SUFFICES ASSUME ClipAssumption, StoreInv, alive \in BOOLEAN, [Next]_vars PROVE StoreInv'
  BY AliveOrNot DEF StoreSafe
<1>1. CASE UNCHANGED vars
  BY <1>1, SameJobsStoreInv DEF vars, store, pane, StoreInv, StoreType
<1>2. CASE Next
  BY <1>2, DecodeStoreInv, PaneStoreInv DEF Next
<1> QED BY <1>1, <1>2

\* In every state the directories are the entries, the bytes counted are the bytes
\* held, and they are within the budget unless one entry alone exceeds it, through
\* builds, evictions, requests, crashes and resizes (animation.js:204-226, :328-347).
THEOREM BooksMatchDiskHolds == Spec => []BooksMatchDisk
<1>1. StoreSafe => BooksMatchDisk
  BY DEF StoreSafe, StoreInv
<1>2. Init => StoreSafe
  BY ClipAssumption, InitStoreInv DEF StoreSafe, Init
<1>3. StoreSafe /\ [Next]_vars => StoreSafe'
  BY ClipAssumption, NextStoreSafe
<1> QED BY <1>1, <1>2, <1>3, PTL DEF Spec

\* Thinned to the budget of its size and then to its share of the store, every set
\* of frames keeps two frames at least and the time of its source, whatever the
\* clip, the budgets and the costs of its frames (animation.js:303-326).
THEOREM PlaysAsLongHolds == Spec => []PlaysAsLong
<1>1. StoreSafe => PlaysAsLong
  BY DEF StoreSafe, StoreInv
<1>2. Init => StoreSafe
  BY ClipAssumption, InitStoreInv DEF StoreSafe, Init
<1>3. StoreSafe /\ [Next]_vars => StoreSafe'
  BY ClipAssumption, NextStoreSafe
<1> QED BY <1>1, <1>2, <1>3, PTL DEF Spec
=============================================================================
