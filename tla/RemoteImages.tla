------------------------------ MODULE RemoteImages ------------------------------
(***************************************************************************)
(* The images a document names by https URL (remote-images.js): fetched    *)
(* beside the renders, never waited for, kept in a cache with a budget,    *)
(* their failures kept for a while.                                        *)
(*                                                                         *)
(* A render asks for every image of the document at once and takes what    *)
(* has settled (blockingMs is 0 wherever the program calls this); for the  *)
(* rest it shows a placeholder, and the preview renders again after a      *)
(* delay for as long as there is one (controller.lua, remote_image_timer). *)
(*                                                                         *)
(* Time is counted down: a fetch has ticks left until its deadline, a      *)
(* failure until it is forgotten, the preview until its next render.  The  *)
(* age of a fetch is counted apart, for the properties alone.  An image is *)
(* a number of chunks; what the network answers is a free choice,          *)
(* silence included.                                                       *)
(***************************************************************************)
EXTENDS Integers, SequencesExt

CONSTANTS
    Urls,             \* image sources
    Blocked,          \* those whose URL is refused before any connection
    Docs,             \* the documents an edit may bring, sequences of sources
    MaxBytes,         \* max_local_image_bytes, in chunks
    MaxCacheBytes, MaxCacheEntries, MaxRedirects,
    Timeout, NegativeTtl, TransientTtl, RetryDelay,   \* in ticks
    MaxEdits, MaxFetches, MaxCount   \* bounds of the model

ASSUME TimesAssumption ==
    /\ Blocked \subseteq Urls /\ Docs \subseteq Seq(Urls)
    /\ MaxBytes \in 1..MaxCacheBytes
    /\ {Timeout, NegativeTtl, TransientTtl, RetryDelay, MaxRedirects} \subseteq Nat

VARIABLES
    cache,       \* the Map, in insertion order
    cacheBytes,
    fetches,     \* fetches in flight
    doc,         \* the document's sources
    shown,       \* what its last render had for each source
    retry,       \* ticks left until the preview renders again
    edits        \* how often the document was edited

vars == <<cache, cacheBytes, fetches, doc, shown, retry, edits>>

-----------------------------------------------------------------------------
(* The cache. *)

Entry(u, k, bytes, left) == [url |-> u, k |-> k, bytes |-> bytes, left |-> left]

without(c, u) == SelectSeq(c, LAMBDA e : e.url # u)
has(c, u) == \E e \in ToSet(c) : e.url = u
get(c, u) == CHOOSE e \in ToSet(c) : e.url = u

\* Map.set: an entry that is there keeps its place.
put(c, e) == IF has(c, e.url)
             THEN [i \in DOMAIN c |-> IF c[i].url = e.url THEN e ELSE c[i]]
             ELSE Append(c, e)

bytesOf(c) == LET sum[i \in 0..Len(c)] == IF i = 0 THEN 0 ELSE sum[i - 1] + c[i].bytes
              IN  sum[Len(c)]

\* The loop of rememberPositive(), from the front while over either limit: what is
\* left of the entries when the first n are gone; an entry in flight has no bytes.
evicted(c, total) ==
    LET over(n, b) == n < Len(c) /\ (Len(c) - n > MaxCacheEntries \/ b > MaxCacheBytes)
        count[n \in 0..Len(c)] == IF n = 0 THEN total ELSE count[n - 1] - c[n].bytes
        n == CHOOSE n \in 0..Len(c) : /\ ~over(n, count[n])
                                      /\ \A i \in 0..n - 1 : over(i, count[i])
    IN  [cache |-> SubSeq(c, n + 1, Len(c)), count |-> count[n]]

\* A mutation of rememberPositive: the new bytes are not counted.
rememberPositiveFree(s, u, bytes) ==
    evicted(Append(without(s.cache, u), Entry(u, "ok", bytes, 0)), s.count) @@ s

rememberPositive(s, u, bytes) ==
    evicted(Append(without(s.cache, u), Entry(u, "ok", bytes, 0)), s.count + bytes) @@ s

ttl(why) == IF why = "transient" THEN TransientTtl ELSE NegativeTtl

\* A mutation of rememberNegative: a failure leaves its entry in flight.
rememberNothing(s, u, why) == s

rememberNegative(s, u, why) == [s EXCEPT !.cache = put(@, Entry(u, "bad", 0, ttl(why)))]

-----------------------------------------------------------------------------
(* A render. *)

startFetch(s, u) ==
    IF u \in Blocked
    THEN [rememberNegative(s, u, "blocked") EXCEPT !.shown[u] = "failed"]
    ELSE [s EXCEPT !.cache = put(@, Entry(u, "promise", 0, 0)),
                   !.fetches = Append(@, [url |-> u, hop |-> 0, at |-> "dns", total |-> 0,
                                          left |-> Timeout, age |-> 0]),
                   !.shown[u] = "loading"]

stale(e) == e.k = "bad" /\ e.left < 0

\* A positive entry is moved to the young end; an expired failure is dropped.
resolveOne(before, u) ==
    LET s == before
        e == get(s.cache, u)
    IN  CASE ~has(s.cache, u) -> startFetch(s, u)
          [] has(s.cache, u) /\ stale(e) -> startFetch([s EXCEPT !.cache = without(@, u)], u)
          [] has(s.cache, u) /\ e.k = "promise" -> [s EXCEPT !.shown[u] = "loading"]
          [] has(s.cache, u) /\ e.k = "bad" /\ ~stale(e) -> [s EXCEPT !.shown[u] = "failed"]
          [] has(s.cache, u) /\ e.k = "ok" ->
             [s EXCEPT !.cache = Append(without(@, u), e), !.shown[u] = "image"]

State == [cache |-> cache, count |-> cacheBytes, fetches |-> fetches,
          shown |-> [u \in Urls |-> "none"]]

resolveRemoteImages(sources) ==
    LET after[i \in 0..Len(sources)] ==
            IF i = 0 THEN State ELSE resolveOne(after[i - 1], sources[i])
    IN  \E s \in {after[Len(sources)]} :
            /\ cache' = s.cache /\ cacheBytes' = s.count /\ fetches' = s.fetches
            /\ shown' = s.shown /\ retry' = RetryDelay

Loading == \E u \in Urls : shown[u] = "loading"

MayRender == Len(fetches) < MaxFetches /\ cacheBytes <= MaxCount

Edit == /\ edits < MaxEdits /\ MayRender
        /\ doc' \in Docs \ {doc} /\ edits' = edits + 1
        /\ resolveRemoteImages(doc')

Retry == /\ Loading /\ retry = 0 /\ MayRender
         /\ resolveRemoteImages(doc)
         /\ UNCHANGED <<doc, edits>>

-----------------------------------------------------------------------------
(* A fetch: each hop resolves its host, sends its request and reads the     *)
(* response, and the loop starts over at a redirect.                        *)

advance(i, f) == /\ fetches' = [fetches EXCEPT ![i] = f]
                 /\ UNCHANGED <<cache, cacheBytes>>

finish(i, after) == /\ fetches' = RemoveAt(fetches, i)
                    /\ \E s \in {after} : cache' = s.cache /\ cacheBytes' = s.count

refuse(i, why) == finish(i, rememberNegative(State, fetches[i].url, why))

\* dns.lookup(): an answer, one with no public address, or an error, which is
\* taken for a passing one.
DnsAnswers(i) ==
    /\ fetches[i].at = "dns"
    /\ \/ advance(i, [fetches[i] EXCEPT !.at = "request"])
       \/ \E why \in {"blocked", "transient"} : refuse(i, why)

\* A mutation of Responds: the hop after a redirect has a deadline of its own.
RespondsRenewing(i) ==
    /\ fetches[i].at = "request"
    /\ \/ advance(i, [fetches[i] EXCEPT !.at = "body"])
       \/ /\ fetches[i].hop < MaxRedirects
          /\ advance(i, [fetches[i] EXCEPT !.at = "dns", !.hop = @ + 1, !.left = Timeout])
       \/ refuse(i, "definite")

\* A redirect goes round again, unless there were too many or its target is not
\* one to follow; a status or a declared length may refuse the image.
Responds(i) ==
    /\ fetches[i].at = "request"
    /\ \/ advance(i, [fetches[i] EXCEPT !.at = "body"])
       \/ /\ fetches[i].hop < MaxRedirects
          /\ advance(i, [fetches[i] EXCEPT !.at = "dns", !.hop = @ + 1])
       \/ refuse(i, "definite")

\* The body is cut off at the first chunk too many.
Chunk(i) ==
    /\ fetches[i].at = "body"
    /\ IF fetches[i].total = MaxBytes THEN refuse(i, "definite")
       ELSE advance(i, [fetches[i] EXCEPT !.total = @ + 1])

\* The bytes are an image or they are not.
BodyEnds(i) ==
    /\ fetches[i].at = "body"
    /\ \/ /\ fetches[i].total > 0
          /\ finish(i, rememberPositive(State, fetches[i].url, fetches[i].total))
       \/ refuse(i, "definite")

\* The deadline aborts whatever the fetch is waiting for, the resolver too
\* (raceAgainstAbort).
abortable == {"dns", "request", "body"}

due(f) == f.left <= 0 /\ f.at \in abortable

Abort(i) == due(fetches[i]) /\ refuse(i, "transient")

Network == /\ \E i \in DOMAIN fetches : DnsAnswers(i) \/ Responds(i) \/ Chunk(i) \/ BodyEnds(i)
           /\ UNCHANGED <<doc, shown, retry, edits>>

Expire == /\ \E i \in DOMAIN fetches : Abort(i)
          /\ UNCHANGED <<doc, shown, retry, edits>>

\* A tick passes once the timers that are due have run.
Tick ==
    /\ ~(\E f \in ToSet(fetches) : due(f)) /\ ~(Loading /\ retry = 0 /\ MayRender)
    /\ fetches' = [i \in DOMAIN fetches |->
                      [fetches[i] EXCEPT !.left = IF @ < 0 THEN @ ELSE @ - 1, !.age = @ + 1]]
    /\ cache' = [i \in DOMAIN cache |->
                    [cache[i] EXCEPT !.left = IF cache[i].k # "bad" \/ @ < 0 THEN @ ELSE @ - 1]]
    /\ retry' = IF retry = 0 THEN 0 ELSE retry - 1
    /\ UNCHANGED <<cacheBytes, doc, shown, edits>>

Init == /\ cache = <<>> /\ cacheBytes = 0 /\ fetches = <<>>
        /\ doc = <<>> /\ shown = [u \in Urls |-> "none"] /\ retry = 0 /\ edits = 0

Next == Edit \/ Retry \/ Network \/ Expire \/ Tick

\* The network owes nothing, but time passes.  (Between two ticks a timer runs at
\* most once, so that the three need no fairness of their own.)
Spec == Init /\ [][Next]_vars /\ WF_vars(Retry \/ Expire \/ Tick)

-----------------------------------------------------------------------------
TypeOK ==
    /\ \A e \in ToSet(cache) : /\ e.url \in Urls /\ e.k \in {"promise", "ok", "bad"}
                               /\ e.bytes \in 0..MaxBytes
    /\ \A i, j \in DOMAIN cache : cache[i].url = cache[j].url => i = j
    /\ \A f \in ToSet(fetches) : f.hop \in 0..MaxRedirects /\ f.total \in 0..MaxBytes
    /\ shown \in [Urls -> {"none", "loading", "image", "failed"}]

\* The bytes really held are within the budget: the count may run high, when an
\* entry in flight is evicted and fetched again, but never low.
HeldWithinBudget == bytesOf(cache) <= cacheBytes /\ bytesOf(cache) <= MaxCacheBytes

\* One deadline for the whole of a fetch: however often it is redirected and whatever the
\* network is silent about at each hop, it is over Timeout ticks after it began; and an
\* entry in flight always has such a fetch behind it, through evictions, edits and fetches
\* begun a second time, so that none is waited for that will not settle.
DeadlineHolds ==
    /\ \A f \in ToSet(fetches) : f.age <= Timeout
    /\ \A e \in ToSet(cache) : e.k = "promise" => \E f \in ToSet(fetches) : f.url = e.url

\* A placeholder is replaced, by the image or by its failure.  It may stay for ever
\* only when the bytes counted but not held have left no room for an image.
NoRoom == cacheBytes - bytesOf(cache) + MaxBytes > MaxCacheBytes
PlaceholdersEnd ==
    \A u \in Urls \ Blocked : shown[u] = "loading" ~> (shown[u] # "loading" \/ NoRoom)

=============================================================================
