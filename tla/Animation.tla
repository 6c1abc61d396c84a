------------------------------- MODULE Animation -------------------------------
(***************************************************************************)
(* The animated images of a preview: the store of the renderer process     *)
(* (animation.js), the page of Chromium that decodes for it                *)
(* (decode-context.js), and the pane that asks for frames and uploads them *)
(* to the terminal (animation.lua).                                        *)
(*                                                                         *)
(* An image is known by the hash of its bytes, its frames by that hash and *)
(* the size they are drawn at.  The source bytes are kept when a document  *)
(* is parsed; the frames are decoded when the pane asks, one decode at a   *)
(* time, thinned to a budget of pixels and then of bytes, and written to a *)
(* directory of their own.                                                 *)
(*                                                                         *)
(* The pane uploads a set of frames once and lets the terminal play it     *)
(* ("native"), or uploads each frame when it is due ("frames").            *)
(*                                                                         *)
(* One pane; another document may use the same store.  Not modelled: the   *)
(* container walk that recognises an animation, a decode cut short, the    *)
(* close of the store, the cap on remembered refusals, a restart of the    *)
(* renderer process, and the wait before the pane asks again.              *)
(***************************************************************************)
EXTENDS Recency, SequencesExt, FiniteSetsExt

CONSTANTS
    Shas,           \* the animated images
    Clip,           \* the frames of each, [bytes, gap]; none if it cannot be decoded
    SourceBytes,    \* the size of each
    Docs,           \* the documents an edit may bring, sequences of images
    Others,         \* the images of another document
    Sizes,          \* sizes an image may be drawn at
    frameBudget,    \* the frames of each size that fit the upload budget
    MaxSourceStoreBytes, MaxFrameStoreBytes, MaxPerDocument,
    MaxEdits, MaxErrors    \* bounds of the model

ASSUME ClipAssumption ==
    /\ Clip \in [Shas -> Seq([bytes : Nat \ {0}, gap : Nat \ {0}])]
    /\ SourceBytes \in [Shas -> Nat]
    /\ frameBudget \in [Sizes -> Nat]
    /\ MaxSourceStoreBytes \in Nat /\ MaxFrameStoreBytes \in Nat /\ MaxPerDocument \in Nat \ {0}
    /\ Docs \subseteq Seq(Shas) /\ Others \subseteq Shas
    /\ \A d \in Docs : Len(d) <= MaxPerDocument

VARIABLES
    sources,      \* images whose bytes are held, oldest first
    materialized, \* frame sets held, oldest first
    frameBytes,
    refused,      \* keys known not to animate
    pageRefused,  \* those of them the page refused by no fault of theirs (history)
    jobs,         \* builds under way: one decodes, the others wait for it
    disk,         \* directories of frames
    alive,        \* the browser is connected
    page,         \* the decode page is open
    strategy,     \* how the pane plays: "native" or "frames"
    doc, size,    \* the pane's document and the size it is drawn at
    asset,        \* what the pane has of each image
    asked,        \* the pane's request: its size, and the answer for each image
    edits, errors

store == <<sources, materialized, frameBytes, refused, pageRefused, jobs, disk>>
pane  == <<strategy, doc, size, asset, asked>>
vars  == <<store, alive, page, pane, edits, errors>>

Key(sha, w) == <<sha, w>>
None == [size |-> 0, got |-> <<>>]

-----------------------------------------------------------------------------
(* Thinning. *)

sum(s, field) ==
    LET upTo[i \in 0..Len(s)] == IF i = 0 THEN 0 ELSE upTo[i - 1] + s[i][field]
    IN  upTo[Len(s)]

\* Keep the frames at these places; a kept frame takes the time of those dropped after it.
thin(frames, at) ==
    LET until(k) == IF k = Len(at) THEN Len(frames) ELSE at[k + 1] - 1
    IN  [k \in DOMAIN at |-> [bytes |-> frames[at[k]].bytes,
                              gap |-> sum(SubSeq(frames, at[k], until(k)), "gap")]]

ceil(n, k) == (n + k - 1) \div k

\* A mutation of decodeInPage: the time of the dropped frames is lost.
decodeInPageForgetful(frames, budget) ==
    LET stride == ceil(Len(frames), budget)
    IN  [k \in 1..ceil(Len(frames), stride) |-> frames[1 + (k - 1) * stride]]

\* decodeInPage(): every stride-th frame, for as many as there is a budget for.
decodeInPage(frames, budget) ==
    LET stride == ceil(Len(frames), budget)
    IN  thin(frames, [k \in 1..ceil(Len(frames), stride) |-> 1 + (k - 1) * stride])

maxEntryBytes == MaxFrameStoreBytes \div MaxPerDocument

\* #thinToShare(): by the average cost of a frame, evenly spaced, never below two.
thinToShare(frames) ==
    LET n     == Len(frames)
        total == sum(frames, "bytes")
        kept  == Max({2, Min({n - 1, (n * maxEntryBytes) \div total})})
    IN  IF total <= maxEntryBytes \/ n < 2 THEN frames
        ELSE thin(frames, [k \in 1..kept |-> 1 + ((k - 1) * n) \div kept])

-----------------------------------------------------------------------------
(* The store. *)

refresh(s, x) == Append(Without(s, x), x)

drop(s, n) == SubSeq(s, n + 1, Len(s))

\* How many of the oldest go: while over the limit, and never the last one.
excess(entries, limit) ==
    LET over(n) == n < Len(entries) - 1 /\ sum(drop(entries, n), "bytes") > limit
    IN  CHOOSE n \in 0..Len(entries) : ~over(n) /\ \A i \in 0..n - 1 : over(i)

\* register(), for every animated image a parse meets.
register(held, shas) ==
    LET costs(s) == [i \in DOMAIN s |-> [bytes |-> SourceBytes[s[i]]]]
        one(s, sha) == LET r == refresh(s, sha)
                       IN  IF sha \in ToSet(s) THEN r
                           ELSE drop(r, excess(costs(r), MaxSourceStoreBytes))
    IN  FoldLeft(one, held, shas)

\* Only an entry that is there is refreshed.
touch(entries, key) ==
    LET hits == {e \in ToSet(entries) : e.key = key}
    IN  IF hits = {} THEN entries ELSE refresh(entries, CHOOSE e \in hits : TRUE)

\* The elements of s that are in S, each where it is first met: an image that is
\* there twice finds its own build or refusal the second time.
select(s, S) == LET upTo[i \in 0..Len(s)] ==
                        IF i = 0 THEN <<>>
                        ELSE IF s[i] \in S \ ToSet(upTo[i - 1]) THEN Append(upTo[i - 1], s[i])
                        ELSE upTo[i - 1]
                IN  upTo[Len(s)]

entryOf(key) == {e \in ToSet(materialized) : e.key = key}
pending(key) == \E j \in ToSet(jobs) : j.key = key

\* A mutation of directory: named by the image alone.
directoryOfImage(key) == key[1]

\* The directory is named by a hash of the whole key.
directory(key) == key

\* Where #evictMaterialized() leaves the entries, and the directories.
keep(entries) ==
    \E n \in {excess(entries, MaxFrameStoreBytes)} :
        /\ materialized' = drop(entries, n)
        /\ frameBytes' = frameBytes + Last(entries).bytes - sum(SubSeq(entries, 1, n), "bytes")
        /\ disk' = (disk \cup {directory(Last(entries).key)})
                    \ {directory(entries[i].key) : i \in 1..n}

-----------------------------------------------------------------------------
(* materialize(): answers at once, or joins or starts a build. *)

immediate(key) ==
    CASE entryOf(key) # {} -> "ok"
      [] entryOf(key) = {} /\ key \in refused -> "refused"
      [] entryOf(key) = {} /\ key \notin refused /\ pending(key) -> "?"
      [] entryOf(key) = {} /\ key \notin refused /\ ~pending(key) ->
         IF key[1] \notin ToSet(sources) THEN "unknown"
         ELSE IF frameBudget[key[2]] < 2 THEN "refused" ELSE "?"

\* A build takes the browser there is when it is asked for: "live" while that one lives.
Job(key) == [key |-> key, at |-> "queued", attempt |-> 0, live |-> alive]

\* The wanted ones of the images, in their order: each entry that is there is moved to
\* the young end, and so are the sources looked up for the rest.
materialize(shas, wanted, w) ==
    LET fresh   == {s \in wanted : /\ entryOf(Key(s, w)) = {} /\ Key(s, w) \notin refused
                                   /\ ~pending(Key(s, w)) /\ s \in ToSet(sources)}
        builds  == select(shas, {s \in fresh : frameBudget[w] >= 2})
        touched[i \in 0..Len(shas)] ==
            IF i = 0 THEN materialized
            ELSE IF shas[i] \in wanted THEN touch(touched[i - 1], Key(shas[i], w))
            ELSE touched[i - 1]
    IN  /\ materialized' = touched[Len(shas)]
        /\ sources' = FoldLeft(refresh, sources, select(shas, fresh))
        /\ refused' = refused \cup {Key(s, w) : s \in {t \in fresh : frameBudget[w] < 2}}
        /\ jobs' = jobs \o [i \in DOMAIN builds |-> Job(Key(builds[i], w))]
        /\ UNCHANGED <<frameBytes, pageRefused, disk>>

-----------------------------------------------------------------------------
(* A build: decode, thin, write, register. *)

Running == jobs # <<>> /\ jobs[1].at = "run"

\* A mutation of settle: only an asker of the size drawn now gets the outcome.
settleOwnAsker(outcome) ==
    /\ jobs' = Tail(jobs)
    /\ asked' = [asked EXCEPT !.got = [s \in DOMAIN @ |->
                    IF Key(s, size) = jobs[1].key /\ @[s] = "?" THEN outcome ELSE @[s]]]
    /\ UNCHANGED <<sources, alive, strategy, doc, size, asset, edits>>

\* A build's outcome goes to every asker of its key.
settle(outcome) ==
    /\ jobs' = Tail(jobs)
    /\ asked' = [asked EXCEPT !.got = [s \in DOMAIN @ |->
                    IF Key(s, asked.size) = jobs[1].key /\ @[s] = "?" THEN outcome ELSE @[s]]]
    /\ UNCHANGED <<sources, alive, strategy, doc, size, asset, edits>>

\* A mutation of fail: a failed build marks the key as one that does not animate.
failForGood ==
    /\ settle("error") /\ refused' = refused \cup {jobs[1].key}
    /\ UNCHANGED <<materialized, frameBytes, pageRefused, disk>>

fail == settle("error") /\ UNCHANGED <<materialized, frameBytes, refused, pageRefused, disk>>

\* #ensure() opens the page again if it is gone; a dead browser is an error, at
\* the first attempt and at the second, although another may have been launched.
StartDecode ==
    /\ jobs # <<>> /\ jobs[1].at \in {"queued", "retry"}
    /\ \/ /\ jobs[1].live
          /\ jobs' = [jobs EXCEPT ![1].at = "run"] /\ page' = TRUE
          /\ UNCHANGED <<sources, materialized, frameBytes, refused, pageRefused, disk, alive, pane, edits, errors>>
       \/ ~jobs[1].live /\ fail /\ UNCHANGED <<page, errors>>

\* A page that died under a decode is worth one more attempt.
DecodeFails ==
    /\ Running /\ ~page
    /\ \/ /\ jobs[1].attempt = 0
          /\ jobs' = [jobs EXCEPT ![1].at = "retry", ![1].attempt = 1]
          /\ UNCHANGED <<sources, materialized, frameBytes, refused, pageRefused, disk, alive, page, pane,
                         edits, errors>>
       \/ jobs[1].attempt = 1 /\ fail /\ UNCHANGED <<page, errors>>

\* A timeout, or a write that fails half way: its directory is removed.
EnvironmentFails ==
    /\ Running /\ page /\ errors < MaxErrors /\ errors' = errors + 1
    /\ fail /\ page' \in BOOLEAN

\* The page decodes and thins; what it refuses is remembered, also when the fault is
\* its own: no decoder, none for this type, or any exception of decoder or canvas.
Decoded ==
    /\ Running /\ page
    /\ LET key == jobs[1].key
       IN  \/ /\ Len(Clip[key[1]]) >= 2
              /\ \E painted \in {decodeInPage(Clip[key[1]], frameBudget[key[2]])} :
                 \E frames \in {thinToShare(painted)} :
                 \E entry \in {[key |-> key, frames |-> frames, bytes |-> sum(frames, "bytes")]} :
                 \E entries \in {Append(materialized, entry)} : keep(entries)
              /\ settle("ok") /\ UNCHANGED <<refused, pageRefused, errors>>
           \/ /\ Len(Clip[key[1]]) < 2
              /\ refused' = refused \cup {key} /\ settle("refused")
              /\ UNCHANGED <<materialized, frameBytes, pageRefused, disk, errors>>
           \/ /\ errors < MaxErrors /\ errors' = errors + 1
              /\ refused' = refused \cup {key} /\ pageRefused' = pageRefused \cup {key}
              /\ settle("refused") /\ UNCHANGED <<materialized, frameBytes, disk>>
    /\ UNCHANGED page

PageDies == /\ page /\ errors < MaxErrors /\ errors' = errors + 1 /\ page' = FALSE
            /\ UNCHANGED <<store, alive, pane, edits>>

BrowserDies == /\ alive /\ errors < MaxErrors /\ errors' = errors + 1
               /\ alive' = FALSE /\ page' = FALSE
               /\ jobs' = [i \in DOMAIN jobs |-> [jobs[i] EXCEPT !.live = FALSE]]
               /\ UNCHANGED <<sources, materialized, frameBytes, refused, pageRefused, disk, pane, edits>>

-----------------------------------------------------------------------------
(* The pane. *)

\* reconcile(): an image that is drawn at the same size keeps what it has.
reconciled(d, w) ==
    [s \in Shas |-> IF s \notin ToSet(d) THEN "none"
                    ELSE IF asset[s] # "none" /\ w = size THEN asset[s] ELSE "want"]

\* An edit is parsed, and its images registered.  Like every render it launches the
\* browser again if that is gone.
Edit ==
    /\ edits < MaxEdits /\ edits' = edits + 1
    /\ doc' \in Docs \ {doc} /\ asset' = reconciled(doc', size)
    /\ sources' = register(sources, doc') /\ alive' = TRUE
    /\ UNCHANGED <<materialized, frameBytes, refused, pageRefused, jobs, disk, page, strategy, size, asked,
                   errors>>

\* A render of unchanged text takes its markup from the cache: nothing is parsed.
Resize ==
    /\ edits < MaxEdits /\ edits' = edits + 1
    /\ size' \in Sizes \ {size} /\ asset' = reconciled(doc, size') /\ alive' = TRUE
    /\ UNCHANGED <<store, page, strategy, doc, asked, errors>>

\* Another document is parsed, and its pane asks for its images.
Elsewhere ==
    /\ edits < MaxEdits /\ edits' = edits + 1
    /\ \E sha \in Others :
          \/ /\ sources' = register(sources, <<sha>>) /\ alive' = TRUE
             /\ UNCHANGED <<materialized, frameBytes, refused, pageRefused, jobs, disk>>
          \/ \E w \in Sizes : materialize(<<sha>>, {sha}, w) /\ UNCHANGED alive
    /\ UNCHANGED <<page, pane, errors>>

\* request_frames(): one request at a time, for all that has no frames.
Request ==
    /\ asked = None
    /\ LET wanted == {s \in ToSet(doc) : asset[s] = "want"}
       IN  /\ wanted # {}
           /\ materialize(doc, wanted, size)
           /\ asked' = [size |-> size, got |-> [s \in wanted |-> immediate(Key(s, size))]]
    /\ UNCHANGED <<alive, page, strategy, doc, size, asset, edits, errors>>

\* An answer counts for the size it was asked for.
Answer ==
    /\ asked # None /\ \A s \in DOMAIN asked.got : asked.got[s] # "?"
    /\ asset' = [s \in Shas |->
            IF s \notin DOMAIN asked.got \/ asset[s] # "want" \/ asked.size # size THEN asset[s]
            ELSE CASE asked.got[s] = "ok" -> "frames"
                   [] asked.got[s] = "refused" -> "refused"
                   [] OTHER -> "want"]
    /\ asked' = None
    /\ UNCHANGED <<store, alive, page, strategy, doc, size, edits, errors>>

onDisk(s) == directory(Key(s, size)) \in disk

\* The frames are read from their files.  "native" asks again when these are gone, and
\* takes a terminal that refuses the first for the end of it; "frames" keeps trying.
Upload ==
    /\ \E s \in Shas :
          /\ asset[s] = "frames"
          /\ \/ onDisk(s) /\ asset' = [asset EXCEPT ![s] = "plays"] /\ UNCHANGED errors
             \/ /\ ~onDisk(s) /\ strategy = "native"
                /\ asset' = [asset EXCEPT ![s] = "want"] /\ UNCHANGED errors
             \/ /\ onDisk(s) /\ strategy = "native" /\ errors < MaxErrors /\ errors' = errors + 1
                /\ asset' = [asset EXCEPT ![s] = "turnedAway"]
    /\ UNCHANGED <<store, alive, page, strategy, doc, size, asked, edits>>

Init == /\ sources = <<>> /\ materialized = <<>> /\ frameBytes = 0
        /\ refused = {} /\ pageRefused = {}
        /\ jobs = <<>> /\ disk = {} /\ alive = TRUE /\ page = FALSE
        /\ strategy \in {"native", "frames"} /\ doc = <<>> /\ size \in Sizes
        /\ asset = [s \in Shas |-> "none"] /\ asked = None
        /\ edits = 0 /\ errors = 0

Decode == StartDecode \/ DecodeFails \/ Decoded
Next == \/ Decode \/ EnvironmentFails \/ PageDies \/ BrowserDies
        \/ Edit \/ Resize \/ Elsewhere \/ Request \/ Answer \/ Upload

Spec == /\ Init /\ [][Next]_vars
        /\ WF_vars(Decode) /\ WF_vars(Request) /\ WF_vars(Answer) /\ WF_vars(Upload)

-----------------------------------------------------------------------------
\* The books are the disk: every entry has its directory and every directory its
\* entry, and the bytes counted are those held, within the budget unless one
\* entry alone exceeds it (animation.js:204-206, :224-226).
BooksMatchDisk ==
    /\ disk = {directory(e.key) : e \in ToSet(materialized)}
    /\ frameBytes = sum(materialized, "bytes")
    /\ frameBytes <= MaxFrameStoreBytes \/ Len(materialized) = 1

\* However it is thinned, an animation lasts as long as its source and has two
\* frames at least (animation.js, #thinToShare).
PlaysAsLong ==
    \A e \in ToSet(materialized) : /\ Len(e.frames) >= 2
                                   /\ sum(e.frames, "gap") = sum(Clip[e.key[1]], "gap")

\* No trouble that a decode reports as an error, of the browser, the page or the
\* disk, makes an image a still one for good: what the store or the pane remembers as
\* refused is so by its bytes, by its size, or because the page itself answered that
\* it is (decode-context.js:184, :288).
TroubleIsForgotten ==
    \A k \in refused \cup {Key(s, size) : s \in {t \in Shas : asset[t] = "refused"}} :
        Len(Clip[k[1]]) < 2 \/ frameBudget[k[2]] < 2 \/ k \in pageRefused

\* What is remembered as a refusal is "the input's fault" (decode-context.js:79,
\* animation.js:150, animation.lua:381).
RefusalsAreTheInputs ==
    \A k \in refused \cup {Key(s, size) : s \in {t \in Shas : asset[t] = "refused"}} :
        Len(Clip[k[1]]) < 2 \/ frameBudget[k[2]] < 2

\* An image of the document comes to play, or is found a still one, or the terminal
\* turns it away; unless the browser stays dead, the store does not get its bytes
\* again, or, drawn frame by frame, its files were evicted before they were all
\* uploaded: these are not asked for again (animation.lua:499-511).
EveryImagePlays ==
    \A s \in Shas :
        ( /\ []<>alive /\ []<>(s \in ToSet(sources))
          /\ []<>~(strategy = "frames" /\ asset[s] = "frames" /\ ~onDisk(s)) )
        => (asset[s] = "want" ~> asset[s] \in {"none", "plays", "refused", "turnedAway"})

=============================================================================
