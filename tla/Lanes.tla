-------------------------------- MODULE Lanes --------------------------------
(***************************************************************************)
(* renderer/src/lanes.js: per-document, per-lane staleness bookkeeping.    *)
(*                                                                         *)
(* Every request the renderer queues is stamped with a ticket when its     *)
(* line is read, and the ticket is compared with the registry when its     *)
(* task starts and again when its work is done.  The registry keeps, for   *)
(* each document, a content epoch, the revision last admitted to the       *)
(* content lane, the newest serial of every lane, and how many tickets of  *)
(* every lane are outstanding; it is an LRU of MaxDocuments documents.     *)
(*                                                                         *)
(* The serial is one counter of the whole registry, never reset, so it is  *)
(* also how many tickets were ever issued: MaxRequests bounds it.          *)
(***************************************************************************)
EXTENDS Naturals, Recency

CONSTANTS
  Documents,          \* document ids
  Revisions,          \* content revisions a request may name
  NoRevision,         \* "no content revision": null after normalizeRevision
  MaxDocuments,       \* how many documents the registry remembers (64)
  MaxPendingPerLane,  \* how many tickets a lane may have outstanding (64)
  MaxRequests         \* bound: how many tickets are ever issued

ASSUME LanesAssumption ==
  /\ NoRevision \notin Revisions
  /\ MaxDocuments \in Nat \ {0}
  /\ MaxPendingPerLane \in Nat \ {0}
  /\ MaxRequests \in Nat

LaneNames == {"content", "capture", "interact", "settle"}

VARIABLES
  documents,   \* document id -> its record, for the documents remembered
  order,       \* the same documents, least recently used first
  serial,      \* the last serial stamped
  outstanding  \* tickets issued and not released

vars == <<documents, order, serial, outstanding>>

Record == [contentEpoch : Nat,
           revision     : Revisions \cup {NoRevision},
           lanes        : [LaneNames -> Nat],
           pending      : [LaneNames -> Nat]]

Ticket == [documentId   : Documents,
           lane         : LaneNames,
           serial       : Nat,
           contentEpoch : Nat]

TypeOK ==
  /\ DOMAIN documents \subseteq Documents
  /\ documents \in [DOMAIN documents -> Record]
  /\ order \in Seq(Documents)
  /\ Range(order) = DOMAIN documents
  /\ serial \in Nat
  /\ outstanding \subseteq Ticket

newRecord ==
  [contentEpoch |-> 0,
   revision     |-> NoRevision,
   lanes        |-> [l \in LaneNames |-> 0],
   pending      |-> [l \in LaneNames |-> 0]]

Init ==
  /\ documents = <<>>
  /\ order = <<>>
  /\ serial = 0
  /\ outstanding = {}
-----------------------------------------------------------------------------
\* The registry after d was looked up: d has a record and is the most recently
\* used, and the least recently used document may have been evicted.
recencyAfter(d) == Touched(order, d, MaxDocuments)

ensureRecord(d) ==
  [e \in Range(recencyAfter(d)) |->
     IF e \in DOMAIN documents THEN documents[e] ELSE newRecord]

\* The documents this lookup evicts; onEvict is called on each.
evictedBy(d) == DOMAIN documents \ Range(recencyAfter(d))

saturated(record, l) == record.pending[l] >= MaxPendingPerLane

revisionMismatch(record, l, rev) ==
  /\ l # "content"
  /\ record.revision # NoRevision
  /\ rev # NoRevision
  /\ rev # record.revision

\* Mutations of stamped: no new epoch for new content; a new epoch for any request.
stampedSameEpoch(record, l, rev, s) ==
  [record EXCEPT !.revision = IF l = "content" THEN rev ELSE @,
                 !.lanes[l] = s, !.pending[l] = @ + 1]

stampedNewEpoch(record, l, rev, s) ==
  [stampedSameEpoch(record, l, rev, s) EXCEPT !.contentEpoch = @ + 1]

\* The record once a ticket with serial s is stamped into lane l.
stamped(record, l, rev, s) ==
  [contentEpoch |-> IF l = "content" THEN record.contentEpoch + 1 ELSE record.contentEpoch,
   revision     |-> IF l = "content" THEN rev ELSE record.revision,
   lanes        |-> [record.lanes EXCEPT ![l] = s],
   pending      |-> [record.pending EXCEPT ![l] = @ + 1]]

\* The ticket a request for lane l of document d receives now.
ticketFor(d, l) ==
  LET epoch == ensureRecord(d)[d].contentEpoch
  IN  [documentId   |-> d,
       lane         |-> l,
       serial       |-> serial + 1,
       contentEpoch |-> IF l = "content" THEN epoch + 1 ELSE epoch]

admit(d, l, rev) ==
  LET record == ensureRecord(d)[d]
  IN  /\ serial < MaxRequests
      /\ ~saturated(record, l)
      /\ ~revisionMismatch(record, l, rev)
      /\ serial' = serial + 1
      /\ documents' = [ensureRecord(d) EXCEPT ![d] = stamped(record, l, rev, serial + 1)]
      /\ order' = recencyAfter(d)
      /\ outstanding' = outstanding \cup {ticketFor(d, l)}

\* admit() throws: the lookup has happened, the stamp has not.
refuse(d, l, rev) ==
  LET record == ensureRecord(d)[d]
  IN  /\ saturated(record, l) \/ revisionMismatch(record, l, rev)
      /\ documents' = ensureRecord(d)
      /\ order' = recencyAfter(d)
      /\ UNCHANGED <<serial, outstanding>>

\* A mutation of decremented: a finished task keeps its slot.
notDecremented(n) == n

\* Math.max(0, n - 1)
decremented(n) == IF n = 0 THEN 0 ELSE n - 1

\* The task of ticket t has finished.  The slot is given back to whatever
\* record its document has now.
release(t) ==
  /\ t \in outstanding
  /\ outstanding' = outstanding \ {t}
  /\ documents' = IF t.documentId \in DOMAIN documents
                  THEN [documents EXCEPT ![t.documentId].pending[t.lane] = decremented(@)]
                  ELSE documents
  /\ UNCHANGED <<order, serial>>

forget(d) ==
  /\ documents' = [e \in DOMAIN documents \ {d} |-> documents[e]]
  /\ order' = Without(order, d)
  /\ UNCHANGED <<serial, outstanding>>

Next ==
  \/ \E d \in Documents, l \in LaneNames, rev \in Revisions \cup {NoRevision} :
        admit(d, l, rev) \/ refuse(d, l, rev)
  \/ \E t \in outstanding : release(t)
  \/ \E d \in Documents : forget(d)

Spec == Init /\ [][Next]_vars
-----------------------------------------------------------------------------
forgotten(t) == t.documentId \notin DOMAIN documents

superseded(t) ==
  /\ ~forgotten(t)
  /\ documents[t.documentId].lanes[t.lane] # t.serial

contentChanged(t) ==
  /\ ~forgotten(t)
  /\ documents[t.documentId].contentEpoch # t.contentEpoch

\* A mutation of isStale: the epoch alone tells.
isStaleByEpoch(t) == forgotten(t) \/ contentChanged(t)

isStale(t) == forgotten(t) \/ superseded(t) \/ contentChanged(t)
-----------------------------------------------------------------------------
(***************************************************************************)
(* Properties.                                                             *)
(***************************************************************************)

\* The registry implements the abstract rule: a ticket is stale exactly when a
\* newer request of its document and lane, a newer content request of its
\* document, or the loss of its document, came after it.  Serials and epochs
\* restart with a document's record, and yet give the order-based answer.
request(t) == [documentId |-> t.documentId, lane |-> t.lane, serial |-> t.serial]

Rule == INSTANCE LatestWins
          WITH waiting <- {request(t) : t \in outstanding},
               doomed  <- {request(t) : t \in {u \in outstanding : isStale(u)}},
               Serials <- 1 .. MaxRequests

RefinesLatestWins == Rule!Spec

\* A stale ticket never becomes current again, not even when its document is
\* forgotten and admitted anew with its epoch and its lanes restarted: the work
\* it stamped can never reach the screen late.
StaleIsFinal ==
  [][\A t \in outstanding \cap outstanding' : isStale(t) => isStale(t)']_vars

\* The tickets that will give a slot of lane l of document d back.
holders(d, l) == {t \in outstanding : t.documentId = d /\ t.lane = l}

\* The slot counter never counts a ticket that is no longer outstanding, so a
\* saturated lane always drains: admission is never refused for good.
NoSlotLeak ==
  \A d \in DOMAIN documents, l \in LaneNames :
    documents[d].pending[l] <= Cardinality(holders(d, l))

-----------------------------------------------------------------------------
(***************************************************************************)
(* The inductive invariant.  It says what a serial and an epoch are worth: *)
(* no two outstanding tickets share a serial, no stamp is ahead of the     *)
(* counter, and a record whose lane still shows a ticket's serial has an   *)
(* epoch at least as new as the ticket's.  The last conjunct is what makes *)
(* a comparison with # enough: once the epoch has moved past a ticket it   *)
(* cannot come back to it, although forgetting a document restarts it.     *)
(***************************************************************************)
OrderIsDistinct == Distinct(order)

StampsAreIssued ==
  /\ \A t \in outstanding : t.serial \in 1 .. serial
  /\ \A d \in DOMAIN documents, l \in LaneNames : documents[d].lanes[l] <= serial
  /\ serial <= MaxRequests

SerialsAreUnique ==
  \A t, u \in outstanding : t.serial = u.serial => t = u

EpochsOnlyGrow ==
  \A t \in outstanding :
    ~forgotten(t) /\ ~superseded(t)
      => documents[t.documentId].contentEpoch >= t.contentEpoch

\* The bookkeeping that makes comparing two numbers mean "nothing newer came"
\* holds in every reachable state of the registry.
IInv == TypeOK /\ OrderIsDistinct /\ StampsAreIssued /\ SerialsAreUnique /\ EpochsOnlyGrow
=============================================================================
