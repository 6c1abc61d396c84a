------------------------ MODULE BrowserLifecycleProofs ------------------------
(***************************************************************************)
(* One context, and frames of the page and the scale asked for, for any    *)
(* probes, scales and number of contexts.                                  *)
(*                                                                         *)
(* Nothing keeps two calls from crossing inside ensure().  Until two have, *)
(* and again from the moment the fields belong together, every field is    *)
(* either of the context that stands or names what is closed (SInv), and   *)
(* everything that takes pixels goes by what is open.  A crossing breaks   *)
(* SInv but not UInv, and FieldsAgree with UInv gives SInv back.           *)
(***************************************************************************)
EXTENDS BrowserLifecycle, FiniteSetTheorems, TLAPS

EnsureStages == {"launch", "closeContext", "newContext", "policy", "newPage", "cdpSession"}
PixelStages  == {"load", "measure", "capture"}

Fields ==
  /\ wanted \in [Callers -> 0 .. 3]
  /\ target \in [Callers -> DOMAIN scaleOf \cup {0}]

\* Contexts are numbered as they are made.
ContextsNumbered == DOMAIN scaleOf = 1 .. Cardinality(DOMAIN scaleOf)

\* What a field that is set says of another, whatever has crossed.
Named ==
  /\ browser = 0 => context = 0
  /\ context # 0 => deviceScaleFactor # 0
  /\ \A c \in Callers : pc[c] \in EnsureStages => wanted[c] # 0
  /\ \A c \in Callers : pc[c] \in EnsureStages \ {"launch", "closeContext"} => deviceScaleFactor # 0
  /\ \A c \in Probes : pc[c] \notin PixelStages

\* What holds of the fields whatever has crossed.
UInv == TypeOK /\ Fields /\ ContextsNumbered /\ Named

\* Inside ensure() there is at most one call.
Alone == \A c, d \in Callers : pc[c] \in EnsureStages /\ pc[d] \in EnsureStages => c = d

\* Only a first context is ever made for a probe; a context that is replaced is closed;
\* the one that stands is of the scale recorded, which is what a render goes on with.
ContextStands ==
  /\ context = 0 => page = 0 /\ active = FALSE /\ pc["render"] \notin PixelStages
  /\ \A c \in Callers : pc[c] \in {"launch", "closeContext", "newContext"} => context \notin open
  /\ \A c \in Probes : pc[c] \in {"launch", "closeContext", "newContext"} => context = 0
  /\ context \in open => scaleOf[context] = deviceScaleFactor
  /\ \A c \in Callers : pc[c] \in {"newContext", "policy", "newPage", "cdpSession"} \cup PixelStages
                          => wanted[c] = deviceScaleFactor

\* A page of another context is closed with it; a layout is of a page that was loaded.
PageStands ==
  /\ page # context => page \notin open
  /\ \A c \in Probes : pc[c] \in {"policy", "newPage"} => page = 0 /\ active = FALSE
  /\ \A c \in Callers : pc[c] = "newPage" => target[c] = context
  /\ \A c \in Callers : pc[c] = "cdpSession" => page = context /\ context # 0
  /\ pc["render"] \in PixelStages => target["render"] \in {0, page}
  /\ pc["render"] \in {"measure", "capture"} => page \in loaded
  /\ active /\ pc["render"] # "cdpSession" => page \in loaded

\* What holds as long as no crossing has left the fields apart.
SInv == Alone /\ ContextStands /\ PageStands

IInv ==
  /\ UInv
  /\ mixed => crossed
  /\ ~mixed => SInv
  /\ ContextSound

\* The calls inside ensure() cross when there are two of them.
LEMMA AloneIsNoCrossing == ~Crossing <=> Alone
  BY DEF Crossing, Inside, Alone, EnsureStages

\* The same of the state a step leads to.
LEMMA AloneIsNoCrossingNext == ~Crossing' <=> Alone'
  BY DEF Crossing, Inside, Alone, EnsureStages

\* When no call is inside and the fields are those of one context, all is as if no calls
\* had crossed.
LEMMA AgreeingHeals ==
  ASSUME UInv, FieldsAgree
  PROVE  SInv
<1>1. \A c \in Callers : pc[c] \notin EnsureStages
  BY DEF FieldsAgree, Inside, EnsureStages
<1>2. Alone
  BY <1>1 DEF Alone
<1>3. ContextStands
  <2>1. \A c \in Callers : pc[c] \notin PixelStages
    BY DEF UInv, Named, FieldsAgree, Callers, PixelStages
  <2>2. QED
    BY <1>1, <2>1 DEF FieldsAgree, ContextStands, EnsureStages, PixelStages, Callers
<1>4. PageStands
  BY <1>1 DEF FieldsAgree, PageStands, EnsureStages, PixelStages, Callers
<1>5. QED
  BY <1>2, <1>3, <1>4 DEF SInv

\* The invariant at the start.
LEMMA InitIInv == Init => IInv
<1> SUFFICES ASSUME Init PROVE IInv
  OBVIOUS
<1>1. DOMAIN scaleOf = {} /\ Cardinality(DOMAIN scaleOf) = 0
  BY FS_EmptySet DEF Init
<1>2. TypeOK
  <2>1. pc \in [Callers -> Awaiting]
    BY DEF Init, Awaiting
  <2>2. spawned \in 0 .. MaxMade /\ running \subseteq 1 .. spawned /\ browser \in 0 .. spawned
    BY LifecycleAssumption DEF Init
  <2>3. /\ DOMAIN scaleOf \subseteq 1 .. MaxMade
        /\ \A x \in DOMAIN scaleOf : scaleOf[x] \in 1 .. 3
        /\ open \subseteq DOMAIN scaleOf
        /\ loaded \subseteq DOMAIN scaleOf
        /\ context \in DOMAIN scaleOf \cup {0}
        /\ page \in DOMAIN scaleOf \cup {0}
    BY <1>1 DEF Init
  <2>4. deviceScaleFactor \in 0 .. 3
    BY DEF Init
  <2>5. {active, crossed, mixed} \subseteq BOOLEAN
    BY DEF Init
  <2>6. QED
    BY <2>1, <2>2, <2>3, <2>4, <2>5 DEF TypeOK
<1>3. Fields /\ ContextsNumbered /\ Named
  BY <1>1 DEF Init, Fields, ContextsNumbered, Named, Callers, EnsureStages, PixelStages
<1>4. SInv
  BY <1>1 DEF Init, SInv, Alone, ContextStands, PageStands, Callers, EnsureStages, PixelStages
<1>5. (mixed => crossed) /\ ContextSound
  BY DEF Init, ContextSound, OneContext, FrameIsAsked, FrameHasDocument, FrameScale, NoFrame
<1>6. QED
  BY <1>2, <1>3, <1>4, <1>5 DEF IInv, UInv

\* The scale is recorded before the context of that scale is made.
LEMMA ContextClosedUniversal ==
  ASSUME UInv, NEW c \in Callers, ContextClosed(c), {crossed, mixed}' \subseteq BOOLEAN
  PROVE  UInv'
<1> USE LifecycleAssumption DEF ContextClosed, goes
<1>1. TypeOK'
  BY DEF UInv, TypeOK, Fields, Awaiting, Callers, browserFields
<1>2. Fields' /\ ContextsNumbered'
  BY DEF UInv, TypeOK, Fields, ContextsNumbered, Callers, browserFields
<1>3. Named'
  BY DEF UInv, TypeOK, Fields, Named, EnsureStages, PixelStages, Callers, browserFields
<1>4. QED
  BY <1>1, <1>2, <1>3 DEF UInv

\* Crossing no other call, it leaves the fields together and its frame is as asked.
LEMMA ContextClosedStands ==
  ASSUME UInv, SInv, NEW c \in Callers, ContextClosed(c), Alone'
  PROVE  SInv' /\ FrameIsAsked' /\ (OneContext => OneContext')
<1> USE LifecycleAssumption DEF ContextClosed, goes
<1>1. ContextStands'
  BY DEF UInv, TypeOK, Fields, Named, SInv, Alone, ContextStands, PageStands,
         EnsureStages, PixelStages, Callers, browserFields
<1>2. PageStands'
  BY DEF UInv, TypeOK, Fields, Named, SInv, Alone, ContextStands, PageStands,
         EnsureStages, PixelStages, Callers, browserFields
<1>3. FrameIsAsked'
  BY DEF UInv, TypeOK, Fields, SInv, ContextStands, PageStands, FrameIsAsked, FrameHasDocument,
         FrameScale, NoFrame, PixelStages, Callers, browserFields
<1>4. OneContext => OneContext'
  BY DEF OneContext, SInv, ContextStands, Callers, browserFields
<1>5. QED
  BY <1>1, <1>2, <1>3, <1>4 DEF SInv

\* The page will be made in the context that stands now.
LEMMA PolicyInstalledUniversal ==
  ASSUME UInv, NEW c \in Callers, PolicyInstalled(c), {crossed, mixed}' \subseteq BOOLEAN
  PROVE  UInv'
<1> USE LifecycleAssumption DEF PolicyInstalled, goes, aims
<1>1. TypeOK'
  BY DEF UInv, TypeOK, Fields, Awaiting, Callers, browserFields
<1>2. Fields' /\ ContextsNumbered'
  BY DEF UInv, TypeOK, Fields, ContextsNumbered, Callers, browserFields
<1>3. Named'
  BY DEF UInv, TypeOK, Fields, Named, EnsureStages, PixelStages, Callers, browserFields
<1>4. QED
  BY <1>1, <1>2, <1>3 DEF UInv

\* Crossing no other call, it leaves the fields together and its frame is as asked.
LEMMA PolicyInstalledStands ==
  ASSUME UInv, SInv, NEW c \in Callers, PolicyInstalled(c), Alone'
  PROVE  SInv' /\ FrameIsAsked' /\ (OneContext => OneContext')
<1> USE LifecycleAssumption DEF PolicyInstalled, goes, aims
<1>1. ContextStands'
  BY DEF UInv, TypeOK, Fields, Named, SInv, Alone, ContextStands, PageStands,
         EnsureStages, PixelStages, Callers, browserFields
<1>2. PageStands'
  BY DEF UInv, TypeOK, Fields, Named, SInv, Alone, ContextStands, PageStands,
         EnsureStages, PixelStages, Callers, browserFields
<1>3. FrameIsAsked'
  BY DEF UInv, TypeOK, Fields, SInv, ContextStands, PageStands, FrameIsAsked, FrameHasDocument,
         FrameScale, NoFrame, PixelStages, Callers, browserFields
<1>4. OneContext => OneContext'
  BY DEF OneContext, SInv, ContextStands, Callers, browserFields
<1>5. QED
  BY <1>1, <1>2, <1>3, <1>4 DEF SInv

\* The new page is not loaded, and the layout is of the old one until the next step.
LEMMA PageMadeUniversal ==
  ASSUME UInv, NEW c \in Callers, PageMade(c), {crossed, mixed}' \subseteq BOOLEAN
  PROVE  UInv'
<1> USE LifecycleAssumption DEF PageMade, goes
<1>1. TypeOK'
  BY DEF UInv, TypeOK, Fields, Awaiting, Callers, browserFields
<1>2. Fields' /\ ContextsNumbered'
  BY DEF UInv, TypeOK, Fields, ContextsNumbered, Callers, browserFields
<1>3. Named'
  BY DEF UInv, TypeOK, Fields, Named, EnsureStages, PixelStages, Callers, browserFields
<1>4. QED
  BY <1>1, <1>2, <1>3 DEF UInv

\* Crossing no other call, it leaves the fields together and its frame is as asked.
LEMMA PageMadeStands ==
  ASSUME UInv, SInv, NEW c \in Callers, PageMade(c), Alone'
  PROVE  SInv' /\ FrameIsAsked' /\ (OneContext => OneContext')
<1> USE LifecycleAssumption DEF PageMade, goes
<1>1. ContextStands'
  BY DEF UInv, TypeOK, Fields, Named, SInv, Alone, ContextStands, PageStands,
         EnsureStages, PixelStages, Callers, browserFields
<1>2. PageStands'
  BY DEF UInv, TypeOK, Fields, Named, SInv, Alone, ContextStands, PageStands,
         EnsureStages, PixelStages, Callers, browserFields
<1>3. FrameIsAsked'
  BY DEF UInv, TypeOK, Fields, SInv, ContextStands, PageStands, FrameIsAsked, FrameHasDocument,
         FrameScale, NoFrame, PixelStages, Callers, browserFields
<1>4. OneContext => OneContext'
  BY DEF OneContext, SInv, ContextStands, Callers, browserFields
<1>5. QED
  BY <1>1, <1>2, <1>3, <1>4 DEF SInv

\* The layout of the old page is dropped.
LEMMA CdpSessionMadeUniversal ==
  ASSUME UInv, NEW c \in Callers, CdpSessionMade(c), {crossed, mixed}' \subseteq BOOLEAN
  PROVE  UInv'
<1> USE LifecycleAssumption DEF CdpSessionMade, goes, aims
<1>1. TypeOK'
  BY DEF UInv, TypeOK, Fields, Awaiting, Callers, browserFields
<1>2. Fields' /\ ContextsNumbered'
  BY DEF UInv, TypeOK, Fields, ContextsNumbered, Callers, browserFields
<1>3. Named'
  BY DEF UInv, TypeOK, Fields, Named, EnsureStages, PixelStages, Callers, browserFields
<1>4. QED
  BY <1>1, <1>2, <1>3 DEF UInv

\* Crossing no other call, it leaves the fields together and its frame is as asked.
LEMMA CdpSessionMadeStands ==
  ASSUME UInv, SInv, NEW c \in Callers, CdpSessionMade(c), Alone'
  PROVE  SInv' /\ FrameIsAsked' /\ (OneContext => OneContext')
<1> USE LifecycleAssumption DEF CdpSessionMade, goes, aims
<1>1. ContextStands'
  <2>1. context # 0
    BY DEF SInv, PageStands
  <2>2. /\ wanted' = wanted /\ deviceScaleFactor' = deviceScaleFactor /\ wanted[c] = deviceScaleFactor
        /\ \A d \in Callers : d # c => pc'[d] = pc[d]
        /\ pc'[c] \in {"idle", "load"}
    BY DEF UInv, TypeOK, SInv, ContextStands
  <2>3. QED
    BY <2>1, <2>2 DEF SInv, ContextStands, PixelStages, Callers
<1>2. PageStands'
  BY DEF UInv, TypeOK, Fields, Named, SInv, Alone, ContextStands, PageStands,
         EnsureStages, PixelStages, Callers, browserFields
<1>3. FrameIsAsked'
  BY DEF UInv, TypeOK, Fields, SInv, ContextStands, PageStands, FrameIsAsked, FrameHasDocument,
         FrameScale, NoFrame, PixelStages, Callers, browserFields
<1>4. OneContext => OneContext'
  BY DEF OneContext, SInv, ContextStands, Callers, browserFields
<1>5. QED
  BY <1>1, <1>2, <1>3, <1>4 DEF SInv

\* An ensure() given up half way: what is open is still of the scale recorded.
LEMMA RejectsUniversal ==
  ASSUME UInv, NEW c \in Callers, Rejects(c), {crossed, mixed}' \subseteq BOOLEAN
  PROVE  UInv'
<1> USE LifecycleAssumption DEF Rejects, goes
<1>1. TypeOK'
  BY DEF UInv, TypeOK, Fields, Awaiting, Callers, browserFields
<1>2. Fields' /\ ContextsNumbered'
  BY DEF UInv, TypeOK, Fields, ContextsNumbered, Callers, browserFields
<1>3. Named'
  BY DEF UInv, TypeOK, Fields, Named, EnsureStages, PixelStages, Callers, browserFields
<1>4. QED
  BY <1>1, <1>2, <1>3 DEF UInv

\* Crossing no other call, it leaves the fields together and its frame is as asked.
LEMMA RejectsStands ==
  ASSUME UInv, SInv, NEW c \in Callers, Rejects(c), Alone'
  PROVE  SInv' /\ FrameIsAsked' /\ (OneContext => OneContext')
<1> USE LifecycleAssumption DEF Rejects, goes
<1>1. ContextStands'
  BY DEF UInv, TypeOK, Fields, Named, SInv, Alone, ContextStands, PageStands,
         EnsureStages, PixelStages, Callers, browserFields
<1>2. PageStands'
  BY DEF UInv, TypeOK, Fields, Named, SInv, Alone, ContextStands, PageStands,
         EnsureStages, PixelStages, Callers, browserFields
<1>3. FrameIsAsked'
  BY DEF UInv, TypeOK, Fields, SInv, ContextStands, PageStands, FrameIsAsked, FrameHasDocument,
         FrameScale, NoFrame, PixelStages, Callers, browserFields
<1>4. OneContext => OneContext'
  BY DEF OneContext, SInv, ContextStands, Callers, browserFields
<1>5. QED
  BY <1>1, <1>2, <1>3, <1>4 DEF SInv

\* A launched Chromium has no context yet.
LEMMA LaunchedUniversal ==
  ASSUME UInv, NEW c \in Callers, Launched(c), {crossed, mixed}' \subseteq BOOLEAN
  PROVE  UInv'
<1> USE LifecycleAssumption DEF Launched, checksContext, returns, goes, aims
<1>1. TypeOK'
  <2>1. pc' \in [Callers -> Awaiting]
    BY DEF UInv, TypeOK, Awaiting, Callers
  <2>2. spawned' \in 0 .. MaxMade /\ running' \subseteq 1 .. spawned' /\ browser' \in 0 .. spawned'
    BY DEF UInv, TypeOK
  <2>3. open' \subseteq open
    OBVIOUS
  <2>4. active' \in BOOLEAN
    BY DEF UInv, TypeOK
  <2>5. QED
    BY <2>1, <2>2, <2>3, <2>4 DEF UInv, TypeOK
<1>2. Fields' /\ ContextsNumbered'
  BY DEF UInv, TypeOK, Fields, ContextsNumbered, Callers, browserFields
<1>3. Named'
  BY DEF UInv, TypeOK, Fields, Named, EnsureStages, PixelStages, Callers, browserFields
<1>4. QED
  BY <1>1, <1>2, <1>3 DEF UInv

\* Crossing no other call, it leaves the fields together and its frame is as asked.
LEMMA LaunchedStands ==
  ASSUME UInv, SInv, NEW c \in Callers, Launched(c), Alone'
  PROVE  SInv' /\ FrameIsAsked' /\ (OneContext => OneContext')
<1> USE LifecycleAssumption DEF Launched, checksContext, returns, goes, aims
<1>1. ContextStands'
  BY DEF UInv, TypeOK, Fields, Named, SInv, Alone, ContextStands, PageStands,
         EnsureStages, PixelStages, Callers, browserFields
<1>2. PageStands'
  BY DEF UInv, TypeOK, Fields, Named, SInv, Alone, ContextStands, PageStands,
         EnsureStages, PixelStages, Callers, browserFields
<1>3. FrameIsAsked'
  BY DEF UInv, TypeOK, Fields, SInv, ContextStands, PageStands, FrameIsAsked, FrameHasDocument,
         FrameScale, NoFrame, PixelStages, Callers, browserFields
<1>4. OneContext => OneContext'
  BY DEF OneContext, SInv, ContextStands, Callers, browserFields
<1>5. QED
  BY <1>1, <1>2, <1>3, <1>4 DEF SInv

\* The one step that opens a context: its number.
LEMMA ContextMadeNumbers ==
  ASSUME UInv, NEW c \in Callers, ContextMade(c)
  PROVE  \E n \in Nat :
           /\ n + 1 <= MaxMade /\ DOMAIN scaleOf = 1 .. n /\ DOMAIN scaleOf' = 1 .. n + 1
           /\ Cardinality(DOMAIN scaleOf') = n + 1
           /\ scaleOf' = [x \in 1 .. n + 1 |-> IF x = n + 1 THEN wanted[c] ELSE scaleOf[x]]
           /\ open' = open \cup {n + 1} /\ context' = n + 1
<1> USE LifecycleAssumption DEF ContextMade
<1> DEFINE n == Cardinality(DOMAIN scaleOf)
<1>1. n \in Nat /\ n + 1 <= MaxMade /\ DOMAIN scaleOf = 1 .. n /\ DOMAIN scaleOf' = 1 .. n + 1
  <2>1. IsFiniteSet(1 .. MaxMade) /\ DOMAIN scaleOf \subseteq 1 .. MaxMade
    BY FS_Interval DEF UInv, TypeOK
  <2> IsFiniteSet(DOMAIN scaleOf)
    BY <2>1, FS_Subset
  <2>2. QED
    BY <2>1, FS_CardinalityType DEF UInv, ContextsNumbered
<1>2. Cardinality(DOMAIN scaleOf') = n + 1
  BY <1>1, FS_Interval
<1>3. /\ scaleOf' = [x \in 1 .. n + 1 |-> IF x = n + 1 THEN wanted[c] ELSE scaleOf[x]]
      /\ open' = open \cup {n + 1} /\ context' = n + 1
  OBVIOUS
<1> HIDE DEF n
<1>4. QED
  BY <1>1, <1>2, <1>3

\* Whatever else is open, the new context has the next number and the scale wanted.
LEMMA ContextMadeUniversal ==
  ASSUME UInv, NEW c \in Callers, ContextMade(c), {crossed, mixed}' \subseteq BOOLEAN
  PROVE  UInv'
<1>1. PICK n \in Nat :
         /\ n + 1 <= MaxMade /\ DOMAIN scaleOf = 1 .. n /\ DOMAIN scaleOf' = 1 .. n + 1
         /\ Cardinality(DOMAIN scaleOf') = n + 1
         /\ scaleOf' = [x \in 1 .. n + 1 |-> IF x = n + 1 THEN wanted[c] ELSE scaleOf[x]]
         /\ open' = open \cup {n + 1} /\ context' = n + 1
  BY ContextMadeNumbers
<1>2. /\ pc[c] = "newContext" /\ browser \in running /\ pc' = [pc EXCEPT ![c] = "policy"]
      /\ UNCHANGED <<browser, spawned, running, deviceScaleFactor, page, active, loaded, wanted, target>>
  BY DEF ContextMade, goes
<1>3. wanted[c] \in 1 .. 3 /\ deviceScaleFactor # 0
  BY <1>2 DEF UInv, Fields, Named, EnsureStages
<1>4. TypeOK'
  <2>1. pc' \in [Callers -> Awaiting]
    BY <1>2 DEF UInv, TypeOK, Awaiting
  <2>2. \A x \in DOMAIN scaleOf' : scaleOf'[x] \in 1 .. 3
    BY <1>1, <1>3 DEF UInv, TypeOK
  <2>3. QED
    BY <1>1, <1>2, <2>1, <2>2, LifecycleAssumption DEF UInv, TypeOK
<1>5. Fields' /\ ContextsNumbered'
  BY <1>1, <1>2 DEF UInv, Fields, ContextsNumbered
<1>6. Named'
  BY <1>2, <1>3 DEF UInv, TypeOK, Named, EnsureStages, PixelStages
<1>7. QED
  BY <1>4, <1>5, <1>6 DEF UInv

\* It is the only one open: the one before it was closed by the call that makes it.
LEMMA ContextMadeStands ==
  ASSUME UInv, SInv, NEW c \in Callers, ContextMade(c), Alone'
  PROVE  SInv' /\ FrameIsAsked' /\ (OneContext => OneContext')
<1>1. PICK n \in Nat :
         /\ n + 1 <= MaxMade /\ DOMAIN scaleOf = 1 .. n /\ DOMAIN scaleOf' = 1 .. n + 1
         /\ Cardinality(DOMAIN scaleOf') = n + 1
         /\ scaleOf' = [x \in 1 .. n + 1 |-> IF x = n + 1 THEN wanted[c] ELSE scaleOf[x]]
         /\ open' = open \cup {n + 1} /\ context' = n + 1
  BY ContextMadeNumbers
<1>2. /\ pc[c] = "newContext" /\ pc' = [pc EXCEPT ![c] = "policy"] /\ frame' = NoFrame
      /\ UNCHANGED <<deviceScaleFactor, page, active, loaded, wanted, target>>
  BY DEF ContextMade, goes
<1>3. /\ wanted[c] = deviceScaleFactor /\ context \notin open /\ page \notin open
      /\ \A d \in Callers : d # c => pc[d] \notin EnsureStages
  BY <1>2 DEF SInv, Alone, ContextStands, PageStands, EnsureStages
<1>4. /\ pc' \in [Callers -> Awaiting] /\ pc'[c] = "policy"
      /\ \A d \in Callers : d # c => pc'[d] = pc[d]
  BY <1>2 DEF UInv, TypeOK, Awaiting
<1>5. page \in 0 .. n /\ 0 \notin open /\ n + 1 \notin open
  BY <1>1 DEF UInv, TypeOK
<1>6. c \in Probes => page = 0 /\ active = FALSE
  BY <1>2 DEF SInv, ContextStands
<1>7. ContextStands'
  BY <1>1, <1>2, <1>3, <1>4 DEF SInv, ContextStands, EnsureStages, PixelStages, Callers
<1>8. PageStands'
  BY <1>1, <1>2, <1>3, <1>4, <1>5, <1>6 DEF SInv, PageStands, EnsureStages, PixelStages, Callers
<1>9. FrameIsAsked'
  BY <1>2 DEF FrameIsAsked, FrameHasDocument, FrameScale
<1>10. OneContext => OneContext'
  BY <1>1, <1>3 DEF OneContext
<1>11. QED
  BY <1>7, <1>8, <1>9, <1>10 DEF SInv

\* The document is in the page.
LEMMA DocumentSetUniversal ==
  ASSUME UInv, DocumentSet, {crossed, mixed}' \subseteq BOOLEAN
  PROVE  UInv'
<1> USE LifecycleAssumption DEF DocumentSet, goes
<1>1. TypeOK'
  BY DEF UInv, TypeOK, Fields, Awaiting, Callers, browserFields
<1>2. Fields' /\ ContextsNumbered'
  BY DEF UInv, TypeOK, Fields, ContextsNumbered, Callers, browserFields
<1>3. Named'
  BY DEF UInv, TypeOK, Fields, Named, EnsureStages, PixelStages, Callers, browserFields
<1>4. QED
  BY <1>1, <1>2, <1>3 DEF UInv

\* Crossing no other call, it leaves the fields together and its frame is as asked.
LEMMA DocumentSetStands ==
  ASSUME UInv, SInv, DocumentSet, Alone'
  PROVE  SInv' /\ FrameIsAsked' /\ (OneContext => OneContext')
<1> USE LifecycleAssumption DEF DocumentSet, goes
<1>1. ContextStands'
  BY DEF UInv, TypeOK, Fields, Named, SInv, Alone, ContextStands, PageStands,
         EnsureStages, PixelStages, Callers, browserFields
<1>2. PageStands'
  BY DEF UInv, TypeOK, Fields, Named, SInv, Alone, ContextStands, PageStands,
         EnsureStages, PixelStages, Callers, browserFields
<1>3. FrameIsAsked'
  BY DEF UInv, TypeOK, Fields, SInv, ContextStands, PageStands, FrameIsAsked, FrameHasDocument,
         FrameScale, NoFrame, PixelStages, Callers, browserFields
<1>4. OneContext => OneContext'
  BY DEF OneContext, SInv, ContextStands, Callers, browserFields
<1>5. QED
  BY <1>1, <1>2, <1>3, <1>4 DEF SInv

\* The layout is of a page that was loaded.
LEMMA DocumentMeasuredUniversal ==
  ASSUME UInv, DocumentMeasured, {crossed, mixed}' \subseteq BOOLEAN
  PROVE  UInv'
<1> USE LifecycleAssumption DEF DocumentMeasured, goes, aims
<1>1. TypeOK'
  BY DEF UInv, TypeOK, Fields, Awaiting, Callers, browserFields
<1>2. Fields' /\ ContextsNumbered'
  BY DEF UInv, TypeOK, Fields, ContextsNumbered, Callers, browserFields
<1>3. Named'
  BY DEF UInv, TypeOK, Fields, Named, EnsureStages, PixelStages, Callers, browserFields
<1>4. QED
  BY <1>1, <1>2, <1>3 DEF UInv

\* Crossing no other call, it leaves the fields together and its frame is as asked.
LEMMA DocumentMeasuredStands ==
  ASSUME UInv, SInv, DocumentMeasured, Alone'
  PROVE  SInv' /\ FrameIsAsked' /\ (OneContext => OneContext')
<1> USE LifecycleAssumption DEF DocumentMeasured, goes, aims
<1>1. ContextStands'
  BY DEF UInv, TypeOK, Fields, Named, SInv, Alone, ContextStands, PageStands,
         EnsureStages, PixelStages, Callers, browserFields
<1>2. PageStands'
  BY DEF UInv, TypeOK, Fields, Named, SInv, Alone, ContextStands, PageStands,
         EnsureStages, PixelStages, Callers, browserFields
<1>3. FrameIsAsked'
  BY DEF UInv, TypeOK, Fields, SInv, ContextStands, PageStands, FrameIsAsked, FrameHasDocument,
         FrameScale, NoFrame, PixelStages, Callers, browserFields
<1>4. OneContext => OneContext'
  BY DEF OneContext, SInv, ContextStands, Callers, browserFields
<1>5. QED
  BY <1>1, <1>2, <1>3, <1>4 DEF SInv

\* A frame is of an open page, which is of the context that stands.
LEMMA CapturedUniversal ==
  ASSUME UInv, Captured, {crossed, mixed}' \subseteq BOOLEAN
  PROVE  UInv'
<1> USE LifecycleAssumption DEF Captured, goes
<1>1. TypeOK'
  BY DEF UInv, TypeOK, Fields, Awaiting, Callers, browserFields
<1>2. Fields' /\ ContextsNumbered'
  BY DEF UInv, TypeOK, Fields, ContextsNumbered, Callers, browserFields
<1>3. Named'
  BY DEF UInv, TypeOK, Fields, Named, EnsureStages, PixelStages, Callers, browserFields
<1>4. QED
  BY <1>1, <1>2, <1>3 DEF UInv

\* Crossing no other call, it leaves the fields together and its frame is as asked.
LEMMA CapturedStands ==
  ASSUME UInv, SInv, Captured, Alone'
  PROVE  SInv' /\ FrameIsAsked' /\ (OneContext => OneContext')
<1> USE LifecycleAssumption DEF Captured, goes
<1>1. ContextStands'
  BY DEF UInv, TypeOK, Fields, Named, SInv, Alone, ContextStands, PageStands,
         EnsureStages, PixelStages, Callers, browserFields
<1>2. PageStands'
  BY DEF UInv, TypeOK, Fields, Named, SInv, Alone, ContextStands, PageStands,
         EnsureStages, PixelStages, Callers, browserFields
<1>3. FrameIsAsked'
  BY DEF UInv, TypeOK, Fields, SInv, ContextStands, PageStands, FrameIsAsked, FrameHasDocument,
         FrameScale, NoFrame, PixelStages, Callers, browserFields
<1>4. OneContext => OneContext'
  BY DEF OneContext, SInv, ContextStands, Callers, browserFields
<1>5. QED
  BY <1>1, <1>2, <1>3, <1>4 DEF SInv

\* Nothing is open any more.
LEMMA ChromiumDiesUniversal ==
  ASSUME UInv, ChromiumDies, {crossed, mixed}' \subseteq BOOLEAN
  PROVE  UInv'
<1> USE LifecycleAssumption DEF ChromiumDies
<1>1. TypeOK'
  BY DEF UInv, TypeOK, Fields, Awaiting, Callers, browserFields
<1>2. Fields' /\ ContextsNumbered'
  BY DEF UInv, TypeOK, Fields, ContextsNumbered, Callers, browserFields
<1>3. Named'
  BY DEF UInv, TypeOK, Fields, Named, EnsureStages, PixelStages, Callers, browserFields
<1>4. QED
  BY <1>1, <1>2, <1>3 DEF UInv

\* Crossing no other call, it leaves the fields together and its frame is as asked.
LEMMA ChromiumDiesStands ==
  ASSUME UInv, SInv, ChromiumDies, Alone'
  PROVE  SInv' /\ FrameIsAsked' /\ (OneContext => OneContext')
<1> USE LifecycleAssumption DEF ChromiumDies
<1>1. ContextStands'
  BY DEF UInv, TypeOK, Fields, Named, SInv, Alone, ContextStands, PageStands,
         EnsureStages, PixelStages, Callers, browserFields
<1>2. PageStands'
  BY DEF UInv, TypeOK, Fields, Named, SInv, Alone, ContextStands, PageStands,
         EnsureStages, PixelStages, Callers, browserFields
<1>3. FrameIsAsked'
  BY DEF UInv, TypeOK, Fields, SInv, ContextStands, PageStands, FrameIsAsked, FrameHasDocument,
         FrameScale, NoFrame, PixelStages, Callers, browserFields
<1>4. OneContext => OneContext'
  BY DEF OneContext, SInv, ContextStands, Callers, browserFields
<1>5. QED
  BY <1>1, <1>2, <1>3, <1>4 DEF SInv

\* A call enters ensure(): it goes on with what stands, or closes it first.
LEMMA EnteredUniversal ==
  ASSUME UInv, NEW c \in Callers, NEW s \in 1 .. 3, ensure(c, s), c \in Probes => s = probeScale, {crossed, mixed}' \subseteq BOOLEAN
  PROVE  UInv'
<1> USE LifecycleAssumption DEF ensure, probeScale, checksContext, returns, goes, aims
<1>1. TypeOK'
  BY DEF UInv, TypeOK, Fields, Awaiting, Callers, browserFields
<1>2. Fields' /\ ContextsNumbered'
  BY DEF UInv, TypeOK, Fields, ContextsNumbered, Callers, browserFields
<1>3. Named'
  BY DEF UInv, TypeOK, Fields, Named, EnsureStages, PixelStages, Callers, browserFields
<1>4. QED
  BY <1>1, <1>2, <1>3 DEF UInv

\* Crossing no other call, it leaves the fields together and its frame is as asked.
LEMMA EnteredStands ==
  ASSUME UInv, SInv, NEW c \in Callers, NEW s \in 1 .. 3, ensure(c, s), c \in Probes => s = probeScale, Alone'
  PROVE  SInv' /\ FrameIsAsked' /\ (OneContext => OneContext')
<1> USE LifecycleAssumption DEF ensure, probeScale, checksContext, returns, goes, aims
<1>1. ContextStands'
  BY DEF UInv, TypeOK, Fields, Named, SInv, Alone, ContextStands, PageStands,
         EnsureStages, PixelStages, Callers, browserFields
<1>2. PageStands'
  BY DEF UInv, TypeOK, Fields, Named, SInv, Alone, ContextStands, PageStands,
         EnsureStages, PixelStages, Callers, browserFields
<1>3. FrameIsAsked'
  BY DEF UInv, TypeOK, Fields, SInv, ContextStands, PageStands, FrameIsAsked, FrameHasDocument,
         FrameScale, NoFrame, PixelStages, Callers, browserFields
<1>4. OneContext => OneContext'
  BY DEF OneContext, SInv, ContextStands, Callers, browserFields
<1>5. QED
  BY <1>1, <1>2, <1>3, <1>4 DEF SInv

\* A step keeps what holds of the fields whatever has crossed.
LEMMA StepUniversal ==
  ASSUME UInv, Step, {crossed, mixed}' \subseteq BOOLEAN
  PROVE  UInv'
<1>1. CASE Render
  <2>1. PICK s \in Scales : ensure("render", s)
    BY <1>1 DEF Render
  <2>2. s \in 1 .. 3 /\ "render" \in Callers /\ "render" \notin Probes
    BY LifecycleAssumption DEF Callers
  <2>3. QED
    BY <2>1, <2>2, EnteredUniversal
<1>2. ASSUME NEW c \in Probes, Health(c)
      PROVE  UInv'
  <2>1. probeScale \in 1 .. 3 /\ c \in Callers
    BY DEF probeScale, UInv, TypeOK, Callers
  <2>2. QED
    BY <1>2, <2>1, EnteredUniversal DEF Health
<1>3. ASSUME NEW c \in Callers,
             \/ Launched(c) \/ ContextClosed(c) \/ ContextMade(c) \/ PolicyInstalled(c)
             \/ PageMade(c) \/ CdpSessionMade(c) \/ Rejects(c)
      PROVE  UInv'
  BY <1>3, LaunchedUniversal, ContextClosedUniversal, ContextMadeUniversal, PolicyInstalledUniversal,
     PageMadeUniversal, CdpSessionMadeUniversal, RejectsUniversal
<1>4. CASE DocumentSet \/ DocumentMeasured \/ Captured \/ ChromiumDies
  BY <1>4, DocumentSetUniversal, DocumentMeasuredUniversal, CapturedUniversal, ChromiumDiesUniversal
<1>5. QED
  BY <1>1, <1>2, <1>3, <1>4 DEF Step

\* A step that does not cross another call keeps the rest, and its frame is as asked.
LEMMA StepStands ==
  ASSUME UInv, SInv, Step, Alone'
  PROVE  SInv' /\ FrameIsAsked' /\ (OneContext => OneContext')
<1>1. CASE Render
  <2>1. PICK s \in Scales : ensure("render", s)
    BY <1>1 DEF Render
  <2>2. s \in 1 .. 3 /\ "render" \in Callers /\ "render" \notin Probes
    BY LifecycleAssumption DEF Callers
  <2>3. QED
    BY <2>1, <2>2, EnteredStands
<1>2. ASSUME NEW c \in Probes, Health(c)
      PROVE  SInv' /\ FrameIsAsked' /\ (OneContext => OneContext')
  <2>1. probeScale \in 1 .. 3 /\ c \in Callers
    BY DEF probeScale, UInv, TypeOK, Callers
  <2>2. QED
    BY <1>2, <2>1, EnteredStands DEF Health
<1>3. ASSUME NEW c \in Callers,
             \/ Launched(c) \/ ContextClosed(c) \/ ContextMade(c) \/ PolicyInstalled(c)
             \/ PageMade(c) \/ CdpSessionMade(c) \/ Rejects(c)
      PROVE  SInv' /\ FrameIsAsked' /\ (OneContext => OneContext')
  BY <1>3, LaunchedStands, ContextClosedStands, ContextMadeStands, PolicyInstalledStands,
     PageMadeStands, CdpSessionMadeStands, RejectsStands
<1>4. CASE DocumentSet \/ DocumentMeasured \/ Captured \/ ChromiumDies
  BY <1>4, DocumentSetStands, DocumentMeasuredStands, CapturedStands, ChromiumDiesStands
<1>5. QED
  BY <1>1, <1>2, <1>3, <1>4 DEF Step

\* Every step keeps the invariant.
LEMMA NextIInv ==
  ASSUME IInv, [Next]_vars
  PROVE  IInv'
<1>1. ASSUME Next PROVE IInv'
  <2>1. crossed' = (crossed \/ Crossing') /\ mixed' = ((mixed /\ ~FieldsAgree) \/ Crossing')
    BY <1>1 DEF Next
  <2>2. {crossed, mixed} \subseteq BOOLEAN
    BY DEF IInv, UInv, TypeOK
  <2>3. {crossed, mixed}' \subseteq BOOLEAN
    BY <2>1, <2>2 DEF Crossing
  <2>4. UInv'
    BY <1>1, <2>3, StepUniversal DEF Next, IInv
  <2>5. mixed' => crossed'
    BY <2>1, <2>2 DEF IInv
  <2>6. ASSUME ~mixed' PROVE SInv' /\ FrameIsAsked' /\ (~mixed /\ OneContext => OneContext')
    <3>1. Alone'
      BY <2>1, <2>6, AloneIsNoCrossingNext
    <3>2. SInv
      BY <2>1, <2>6, AgreeingHeals DEF IInv
    <3>3. QED
      BY <1>1, <3>1, <3>2, StepStands DEF Next, IInv
  <2>7. ASSUME ~crossed' PROVE OneContext'
    <3>1. ~crossed /\ ~mixed
      BY <2>1, <2>7 DEF IInv
    <3>2. ~mixed'
      BY <2>5, <2>7
    <3>3. QED
      BY <2>6, <3>1, <3>2 DEF IInv, ContextSound
  <2>8. QED
    BY <2>4, <2>5, <2>6, <2>7 DEF IInv, ContextSound
<1>2. CASE UNCHANGED vars
  BY <1>2 DEF vars, browserFields, IInv, UInv, TypeOK, Fields, ContextsNumbered, Named, SInv, Alone,
              ContextStands, PageStands, ContextSound, OneContext, FrameIsAsked, FrameHasDocument, FrameScale
<1>3. QED
  BY <1>1, <1>2

\* There is one context until two calls cross inside ensure(), and a frame is of the
\* document's page at the scale its render asked for, but between such a crossing and the
\* first time the fields belong together again (browser.js ensure, render, health).
THEOREM ContextSoundHolds == Spec => []ContextSound
<1>1. IInv /\ [Next]_vars => IInv'
  BY NextIInv
<1>2. IInv => ContextSound
  BY DEF IInv
<1>3. QED
  BY <1>1, <1>2, InitIInv, PTL DEF Spec
===============================================================================
