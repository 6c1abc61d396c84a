------------------------ MODULE RendererServiceProofs ------------------------
(***************************************************************************)
(* The service keeps its promise: its registry, queue, task and stores are *)
(* sound, it implements latest-wins, and an answer is of the document, the *)
(* revision and the frame it was asked for.                                *)
(***************************************************************************)
EXTENDS RendererService, SequenceTheorems, TLAPS

-----------------------------------------------------------------------------
(***************************************************************************)
(* The registry.  The lemmas of LanesProofs, for the registry of this      *)
(* service.                                                                *)
(***************************************************************************)
RP == INSTANCE LanesProofs

\* The constants of the service are fit for its registry.
LEMMA RegistryAssumption == RP!LanesAssumption
BY ServiceAssumption DEF RP!LanesAssumption

\* The recency orders of the service are those of its registry's proofs.
LEMMA SameOrders ==
  ASSUME NEW o, NEW k, NEW max
  PROVE  /\ RP!Distinct(o) <=> Distinct(o)
         /\ RP!Range(o) = Range(o)
         /\ RP!Without(o, k) = Without(o, k)
         /\ RP!Touched(o, k, max) = Touched(o, k, max)
BY DEF RP!Distinct, Distinct, RP!Range, Range, RP!Position, Position,
       RP!Without, Without, RP!Touched, Touched

\* The facts about them, for those of the service.
LEMMA WithoutFacts ==
  ASSUME NEW S, NEW o \in Seq(S), Distinct(o), NEW k
  PROVE  /\ Without(o, k) \in Seq(S)
         /\ Distinct(Without(o, k))
         /\ Range(Without(o, k)) = Range(o) \ {k}
<1>1. RP!Distinct(o)
  BY SameOrders
<1>2. /\ RP!Without(o, k) \in Seq(S)
      /\ RP!Distinct(RP!Without(o, k))
      /\ RP!Range(RP!Without(o, k)) = RP!Range(o) \ {k}
  BY <1>1, RP!WithoutFacts, RegistryAssumption
<1>3. QED
  BY <1>2, SameOrders, Zenon

LEMMA TouchedFacts ==
  ASSUME NEW S, NEW o \in Seq(S), Distinct(o), NEW k \in S, NEW max \in Nat \ {0}
  PROVE  /\ Touched(o, k, max) \in Seq(S)
         /\ Distinct(Touched(o, k, max))
         /\ k \in Range(Touched(o, k, max))
         /\ Range(Touched(o, k, max)) \subseteq Range(o) \cup {k}
<1>1. RP!Distinct(o)
  BY SameOrders
<1>2. /\ RP!Touched(o, k, max) \in Seq(S)
      /\ RP!Distinct(RP!Touched(o, k, max))
      /\ k \in RP!Range(RP!Touched(o, k, max))
      /\ RP!Range(RP!Touched(o, k, max)) \subseteq RP!Range(o) \cup {k}
  BY <1>1, RP!TouchedFacts, RegistryAssumption
<1>3. QED
  BY <1>2, SameOrders, Zenon

LEMMA TouchedDropsOne ==
  ASSUME NEW S, NEW o \in Seq(S), Distinct(o), NEW k \in S, NEW max \in Nat \ {0},
         NEW a \in Range(o) \ Range(Touched(o, k, max)),
         NEW b \in Range(o) \ Range(Touched(o, k, max))
  PROVE  a = b
<1>1. RP!Distinct(o)
  BY SameOrders
<1>2. /\ a \in RP!Range(o) \ RP!Range(RP!Touched(o, k, max))
      /\ b \in RP!Range(o) \ RP!Range(RP!Touched(o, k, max))
  BY SameOrders, Zenon
<1>3. QED
  BY <1>1, <1>2, RP!TouchedDropsOne, RegistryAssumption

\* A ticket is stale in the registry of the service when it is in that of the proofs.
LEMMA SameStaleness ==
  /\ \A t : Registry!isStale(t) <=> RP!isStale(t)
  /\ \A t : Registry!isStale(t)' <=> RP!isStale(t)'
BY DEF Registry!isStale, Registry!forgotten, Registry!superseded, Registry!contentChanged,
       RP!isStale, RP!forgotten, RP!superseded, RP!contentChanged

\* isStale answers yes or no.
LEMMA StaleIsBoolean == \A t : Registry!isStale(t) \in BOOLEAN
BY DEF Registry!isStale, Registry!forgotten, Registry!superseded, Registry!contentChanged

\* Both instances of Lanes read the registry alike: theirs are the same variables.
LEMMA SameLookup ==
  ASSUME NEW d
  PROVE  /\ Registry!ensureRecord(d) = RP!ensureRecord(d)
         /\ Registry!recencyAfter(d) = RP!recencyAfter(d)
         /\ Registry!evictedBy(d) = RP!evictedBy(d)
<1>1. Registry!recencyAfter(d) = RP!recencyAfter(d)
  BY DEF Registry!recencyAfter, RP!recencyAfter, Registry!Touched, RP!Touched,
         Registry!Without, RP!Without, Registry!Position, RP!Position, Registry!Range, RP!Range
<1>2. Registry!newRecord = RP!newRecord
  BY DEF Registry!newRecord, RP!newRecord, Registry!LaneNames, RP!LaneNames
<1>3. QED
  BY <1>1, <1>2 DEF Registry!ensureRecord, RP!ensureRecord, Registry!evictedBy, RP!evictedBy,
       Registry!Range, RP!Range

\* And they change it alike.
LEMMA SameOperations ==
  ASSUME NEW d, NEW l, NEW rev, NEW t
  PROVE  /\ Registry!ticketFor(d, l) = RP!ticketFor(d, l)
         /\ Registry!admit(d, l, rev) <=> RP!admit(d, l, rev)
         /\ Registry!refuse(d, l, rev) <=> RP!refuse(d, l, rev)
         /\ Registry!release(t) <=> RP!release(t)
         /\ Registry!forget(d) <=> RP!forget(d)
<1>1. Registry!ticketFor(d, l) = RP!ticketFor(d, l)
  BY SameLookup DEF Registry!ticketFor, RP!ticketFor
<1>2. Registry!admit(d, l, rev) <=> RP!admit(d, l, rev)
  BY <1>1, SameLookup
  DEF Registry!admit, RP!admit, Registry!saturated, RP!saturated,
      Registry!revisionMismatch, RP!revisionMismatch, Registry!stamped, RP!stamped
<1>3. Registry!refuse(d, l, rev) <=> RP!refuse(d, l, rev)
  BY SameLookup
  DEF Registry!refuse, RP!refuse, Registry!saturated, RP!saturated,
      Registry!revisionMismatch, RP!revisionMismatch
<1>4. Registry!release(t) <=> RP!release(t)
  BY DEF Registry!release, RP!release, Registry!decremented, RP!decremented
<1>5. Registry!forget(d) <=> RP!forget(d)
  BY DEF Registry!forget, RP!forget, Registry!Without, RP!Without,
         Registry!Position, RP!Position, Registry!Range, RP!Range
<1>6. QED
  BY <1>1, <1>2, <1>3, <1>4, <1>5

RegistrySound == RP!IInv /\ RP!Traceable

\* The ticket an admitted request receives.
LEMMA AdmitTicket ==
  ASSUME RegistrySound, NEW d \in Documents, NEW l \in Registry!LaneNames,
         NEW rev \in Revisions, Registry!admit(d, l, rev),
         NEW n \in {Registry!ticketFor(d, l)}
  PROVE  /\ RegistrySound'
         /\ n \in Registry!Ticket
         /\ n.documentId = d /\ n.lane = l /\ n.serial = serial + 1
         /\ n \notin outstanding
         /\ outstanding' = outstanding \cup {n}
         /\ serial' = serial + 1
         /\ ~Registry!isStale(n)'
<1>1. RP!admit(d, l, rev) /\ l \in RP!LaneNames /\ rev \in Revisions \cup {NoRevision}
  BY SameOperations DEF Registry!LaneNames, RP!LaneNames
<1>2. RegistrySound'
  BY <1>1, RegistryAssumption, RP!AdmitIInv, RP!AdmitTraceable DEF RegistrySound
<1>3. /\ n \in RP!Ticket
      /\ n.documentId = d /\ n.lane = l /\ n.serial = serial + 1
      /\ n \notin outstanding
      /\ outstanding' = outstanding \cup {n}
      /\ ~Registry!isStale(n)'
  <2>1. /\ serial \in Nat
        /\ \A t \in outstanding : t.serial \in 1 .. serial
        /\ \A t \in outstanding' : t \in RP!Ticket
    BY <1>2 DEF RegistrySound, RP!IInv, RP!TypeOK, RP!StampsAreIssued
  <2>2. /\ n.documentId = d /\ n.lane = l /\ n.serial = serial + 1
        /\ outstanding' = outstanding \cup {n}
    <3>1. n = RP!ticketFor(d, l)
      BY SameOperations
    <3>2. outstanding' = outstanding \cup {n}
      BY <1>1, <3>1 DEF RP!admit
    <3>3. QED
      BY <3>1, <3>2 DEF RP!ticketFor
  <2>3. ~Registry!isStale(n)'
    <3>1. n \in {RP!ticketFor(d, l)}
      BY SameOperations
    <3>2. ~RP!isStale(n)'
      BY <1>1, <3>1, RegistryAssumption, RP!AdmitStaleness DEF RegistrySound
    <3>3. QED
      BY <3>2, SameStaleness
  <2>4. n \notin outstanding
    BY <2>1, <2>2
  <2>5. QED
    BY <2>1, <2>2, <2>3, <2>4
<1>4. RP!Ticket = Registry!Ticket
  BY DEF RP!Ticket, Registry!Ticket, RP!LaneNames, Registry!LaneNames
<1>5. serial' = serial + 1
  BY <1>1 DEF RP!admit
<1>6. QED
  BY <1>2, <1>3, <1>4, <1>5

\* What admitting it does to the other tickets, and to the records.
LEMMA AdmitEffect ==
  ASSUME RegistrySound, NEW d \in Documents, NEW l \in Registry!LaneNames,
         NEW rev \in Revisions, Registry!admit(d, l, rev)
  PROVE  /\ \A t \in outstanding :
              Registry!isStale(t)' <=> \/ Registry!isStale(t)
                                       \/ t.documentId = d /\ (t.lane = l \/ l = "content")
                                       \/ t.documentId \in Registry!evictedBy(d)
         /\ d \notin Registry!evictedBy(d)
         /\ DOMAIN documents' = (DOMAIN documents \ Registry!evictedBy(d)) \cup {d}
         /\ \A e \in DOMAIN documents' \ {d} : e \in DOMAIN documents /\ documents'[e] = documents[e]
         /\ documents'[d].revision =
              IF l = "content" THEN rev
              ELSE IF d \in DOMAIN documents THEN documents[d].revision ELSE NoRevision
         /\ l # "content" => documents'[d].revision \in {NoRevision, rev}
<1>1. RP!admit(d, l, rev) /\ l \in RP!LaneNames /\ rev \in Revisions \cup {NoRevision}
  BY SameOperations DEF Registry!LaneNames, RP!LaneNames
<1>2. /\ DOMAIN documents' = Range(RP!recencyAfter(d))
      /\ d \in Range(RP!recencyAfter(d))
      /\ Range(RP!recencyAfter(d)) \subseteq DOMAIN documents \cup {d}
      /\ Registry!evictedBy(d) = DOMAIN documents \ Range(RP!recencyAfter(d))
  BY <1>1, RegistryAssumption, SameLookup, RP!AdmitFacts, RP!LookupFacts DEF RegistrySound, RP!evictedBy, Range, RP!Range
<1>3. \A e \in DOMAIN documents' \ {d} : e \in DOMAIN documents /\ documents'[e] = documents[e]
  BY <1>1, RegistryAssumption, RP!AdmitFacts DEF RegistrySound
<1>4. \A t \in outstanding :
        Registry!isStale(t)' <=> \/ Registry!isStale(t)
                                 \/ t.documentId = d /\ (t.lane = l \/ l = "content")
                                 \/ t.documentId \in Registry!evictedBy(d)
  BY <1>1, RegistryAssumption, SameStaleness, SameLookup, RP!AdmitStaleness DEF RegistrySound
<1>5. documents'[d].revision =
        IF l = "content" THEN rev
        ELSE IF d \in DOMAIN documents THEN documents[d].revision ELSE NoRevision
  <2> DEFINE rec == RP!ensureRecord(d)[d]
  <2>1. documents'[d].revision = IF l = "content" THEN rev ELSE rec.revision
    BY <1>1, RegistryAssumption, RP!AdmitRecord DEF RegistrySound
  <2>2. rec = IF d \in DOMAIN documents THEN documents[d] ELSE RP!newRecord
    BY <1>1, RegistryAssumption, RP!LookupFacts DEF RegistrySound, RP!Range, Range
  <2>3. QED
    BY <2>1, <2>2 DEF RP!newRecord
<1>6. l # "content" => documents'[d].revision \in {NoRevision, rev}
  <2>1. ~RP!revisionMismatch(RP!ensureRecord(d)[d], l, rev)
    BY <1>1 DEF RP!admit
  <2>2. l # "content" => documents'[d].revision = RP!ensureRecord(d)[d].revision
    BY <1>1, RegistryAssumption, RP!AdmitRecord DEF RegistrySound
  <2>3. rev # NoRevision
    BY ServiceAssumption
  <2>4. QED
    BY <2>1, <2>2, <2>3 DEF RP!revisionMismatch
<1>7. DOMAIN documents' = (DOMAIN documents \ Registry!evictedBy(d)) \cup {d} /\ d \notin Registry!evictedBy(d)
  BY <1>2
<1>8. QED
  BY <1>3, <1>4, <1>5, <1>6, <1>7

\* A refusal changes no counter; only the documents evicted for it grow stale.
LEMMA RefuseEffect ==
  ASSUME RegistrySound, NEW d \in Documents, NEW l \in Registry!LaneNames,
         NEW rev \in Revisions, Registry!refuse(d, l, rev)
  PROVE  /\ RegistrySound'
         /\ UNCHANGED <<serial, outstanding>>
         /\ \A t \in outstanding :
              Registry!isStale(t)' <=> \/ Registry!isStale(t)
                                       \/ t.documentId \in Registry!evictedBy(d)
         /\ d \notin Registry!evictedBy(d)
         /\ DOMAIN documents' = (DOMAIN documents \ Registry!evictedBy(d)) \cup {d}
         /\ \A e \in DOMAIN documents' :
              \/ e \in DOMAIN documents /\ documents'[e] = documents[e]
              \/ e = d /\ d \notin DOMAIN documents
<1>1. RP!refuse(d, l, rev) /\ l \in RP!LaneNames /\ rev \in Revisions \cup {NoRevision}
  BY SameOperations DEF Registry!LaneNames, RP!LaneNames
<1>2. RegistrySound'
  BY <1>1, RegistryAssumption, RP!RefuseIInv, RP!RefuseTraceable DEF RegistrySound
<1>3. /\ DOMAIN documents' = Range(RP!recencyAfter(d))
      /\ d \in Range(RP!recencyAfter(d))
      /\ Range(RP!recencyAfter(d)) \subseteq DOMAIN documents \cup {d}
      /\ Registry!evictedBy(d) = DOMAIN documents \ Range(RP!recencyAfter(d))
      /\ \A e \in DOMAIN documents' :
           \/ e \in DOMAIN documents /\ documents'[e] = documents[e]
           \/ e = d /\ d \notin DOMAIN documents
      /\ UNCHANGED <<serial, outstanding>>
  <2>1. /\ documents' = RP!ensureRecord(d)
        /\ UNCHANGED <<serial, outstanding>>
    BY <1>1 DEF RP!refuse
  <2>2. /\ d \in Range(RP!recencyAfter(d))
        /\ Range(RP!recencyAfter(d)) \subseteq DOMAIN documents \cup {d}
        /\ DOMAIN RP!ensureRecord(d) = Range(RP!recencyAfter(d))
        /\ \A e \in Range(RP!recencyAfter(d)) :
             RP!ensureRecord(d)[e] = IF e \in DOMAIN documents THEN documents[e] ELSE RP!newRecord
    BY RegistryAssumption, RP!LookupFacts DEF RegistrySound, Range, RP!Range
  <2>3. Registry!evictedBy(d) = DOMAIN documents \ Range(RP!recencyAfter(d))
    BY SameLookup DEF RP!evictedBy, Range, RP!Range
  <2>4. QED
    BY <2>1, <2>2, <2>3
<1>4. \A t \in outstanding :
        Registry!isStale(t)' <=> \/ Registry!isStale(t)
                                 \/ t.documentId \in Registry!evictedBy(d)
  BY <1>1, RegistryAssumption, SameStaleness, SameLookup, RP!RefuseStaleness DEF RegistrySound
<1>5. DOMAIN documents' = (DOMAIN documents \ Registry!evictedBy(d)) \cup {d} /\ d \notin Registry!evictedBy(d)
  BY <1>3
<1>6. QED
  BY <1>2, <1>3, <1>4, <1>5

\* A release takes its ticket out and makes no other one stale.
LEMMA ReleaseEffect ==
  ASSUME RegistrySound, NEW t \in outstanding, Registry!release(t)
  PROVE  /\ RegistrySound'
         /\ outstanding' = outstanding \ {t}
         /\ UNCHANGED serial
         /\ \A u \in outstanding : Registry!isStale(u)' <=> Registry!isStale(u)
         /\ DOMAIN documents' = DOMAIN documents
         /\ \A e \in DOMAIN documents :
              /\ documents'[e].revision = documents[e].revision
              /\ documents'[e].lanes = documents[e].lanes
<1>1. RP!release(t)
  BY SameOperations
<1>2. RegistrySound'
  BY <1>1, RegistryAssumption, RP!ReleaseIInv, RP!ReleaseTraceable DEF RegistrySound
<1>3. \A u \in outstanding : Registry!isStale(u)' <=> Registry!isStale(u)
  BY <1>1, RegistryAssumption, SameStaleness, RP!ReleaseStaleness DEF RegistrySound
<1>4. outstanding' = outstanding \ {t} /\ UNCHANGED serial
  BY <1>1 DEF RP!release
<1>5. /\ DOMAIN documents' = DOMAIN documents
      /\ \A e \in DOMAIN documents :
           /\ documents'[e].revision = documents[e].revision
           /\ documents'[e].lanes = documents[e].lanes
  BY <1>1, RegistryAssumption, RP!ReleaseFacts DEF RegistrySound
<1>6. QED
  BY <1>2, <1>3, <1>4, <1>5

\* Forgetting makes the tickets of the document stale, and no other.
LEMMA ForgetEffect ==
  ASSUME RegistrySound, NEW d \in Documents, Registry!forget(d)
  PROVE  /\ RegistrySound'
         /\ UNCHANGED <<serial, outstanding>>
         /\ \A t \in outstanding :
              Registry!isStale(t)' <=> Registry!isStale(t) \/ t.documentId = d
         /\ DOMAIN documents' = DOMAIN documents \ {d}
         /\ \A e \in DOMAIN documents' : documents'[e] = documents[e]
<1>1. RP!forget(d)
  BY SameOperations
<1>2. RegistrySound'
  BY <1>1, RegistryAssumption, RP!ForgetIInv, RP!ForgetTraceable DEF RegistrySound
<1>3. \A t \in outstanding : Registry!isStale(t)' <=> Registry!isStale(t) \/ t.documentId = d
  BY <1>1, RegistryAssumption, SameStaleness, RP!ForgetStaleness DEF RegistrySound
<1>4. QED
  BY <1>1, <1>2, <1>3 DEF RP!forget

\* While the registry is left alone nothing it says changes.
LEMMA RegistryUnchanged ==
  ASSUME UNCHANGED registry
  PROVE  /\ UNCHANGED <<documents, order, serial, outstanding>>
         /\ RegistrySound => RegistrySound'
         /\ \A t : Registry!isStale(t)' <=> Registry!isStale(t)
BY DEF registry, RegistrySound, RP!IInv, RP!Traceable, RP!TypeOK, RP!OrderIsDistinct,
       RP!StampsAreIssued, RP!SerialsAreUnique, RP!EpochsOnlyGrow, RP!OvertakenIsStale,
       RP!LanesShowTickets, RP!EpochMovedByContent, RP!forgotten, RP!superseded,
       RP!contentChanged, RP!isStale, Registry!isStale, Registry!forgotten,
       Registry!superseded, Registry!contentChanged, RP!overtakes
-----------------------------------------------------------------------------
(***************************************************************************)
(* The jobs in flight: the one that is running, then the queue.            *)
(***************************************************************************)
Task == [job : Job, phase : {"parse", "ensure", "load", "capture", "evaluate", "finish"},
         markup : Markup \cup {NoMarkup}, frame : Frame \cup {NoPage}]

Jobs == {queue[i] : i \in DOMAIN queue} \cup (IF task = NoTask THEN {} ELSE {task.job})

WorkTyped ==
  /\ queue \in Seq(Job)
  /\ task \in Task \cup {NoTask}
  /\ \A j \in Jobs : j.ticket.lane \in laneOf(j.method)

\* The serials in flight are consecutive and end with the last one issued.
FirstInFirstOut ==
  /\ \A i \in DOMAIN queue : queue[i].ticket.serial + Len(queue) = serial + i
  /\ task # NoTask => task.job.ticket.serial + Len(queue) = serial

WorkSound == RegistrySound /\ WorkTyped /\ FirstInFirstOut /\ inFlight = outstanding

of(j) == j.ticket.documentId
stale(j) == Registry!isStale(j.ticket)
earlier(j, k) == j.ticket.serial < k.ticket.serial

\* Where a job stands, told from its serial.
LEMMA Placed ==
  ASSUME WorkSound, NEW j \in Jobs
  PROVE  \/ \E i \in 1 .. Len(queue) : j = queue[i] /\ j.ticket.serial = serial + i - Len(queue)
         \/ task # NoTask /\ j = task.job /\ j.ticket.serial = serial - Len(queue)
<1>1. DOMAIN queue = 1 .. Len(queue) /\ Len(queue) \in Nat
  BY DEF WorkSound, WorkTyped
<1>2. j.ticket \in outstanding /\ serial \in Nat /\ \A s \in outstanding : s.serial \in 1 .. serial
  BY DEF Jobs, inFlight, WorkSound, RegistrySound, RP!IInv, RP!TypeOK, RP!StampsAreIssued
<1>3. j.ticket.serial \in Nat
  BY <1>2
<1>4. CASE task # NoTask /\ j = task.job
  <2>1. j.ticket.serial + Len(queue) = serial
    BY <1>4 DEF WorkSound, FirstInFirstOut
  <2>2. QED
    BY <1>1, <1>2, <1>3, <1>4, <2>1
<1>5. CASE \E i \in 1 .. Len(queue) : j = queue[i]
  <2>1. PICK i \in 1 .. Len(queue) : j = queue[i]
    BY <1>5
  <2>2. j.ticket.serial + Len(queue) = serial + i
    BY <1>1, <2>1 DEF WorkSound, FirstInFirstOut
  <2>3. QED
    BY <1>1, <1>2, <1>3, <2>1, <2>2
<1>6. QED
  BY <1>1, <1>4, <1>5 DEF Jobs

\* What is known of a job: its ticket is outstanding, and its serial is its own.
LEMMA JobFacts ==
  ASSUME WorkSound
  PROVE  /\ \A j \in Jobs : /\ j \in Job
                            /\ j.ticket \in outstanding
                            /\ j.ticket \in Registry!Ticket
                            /\ of(j) \in Documents
                            /\ j.ticket.serial \in 1 .. serial
                            /\ j.revision \in Revisions
         /\ serial \in Nat
         /\ inFlight = {j.ticket : j \in Jobs}
         /\ \A j, k \in Jobs : j.ticket.serial = k.ticket.serial => j = k
         /\ \A s \in outstanding : \E j \in Jobs : j.ticket = s
<1>1. inFlight = {j.ticket : j \in Jobs}
  BY DEF inFlight, Jobs
<1>2. \A j \in Jobs : j \in Job
  BY DEF Jobs, WorkSound, WorkTyped, Task
<1>3. serial \in Nat /\ \A s \in outstanding : s.serial \in 1 .. serial
  BY DEF WorkSound, RegistrySound, RP!IInv, RP!TypeOK, RP!StampsAreIssued
<1>4. \A j \in Jobs : /\ j.ticket \in outstanding
                     /\ j.ticket \in Registry!Ticket
                     /\ j.revision \in Revisions
  BY <1>1, <1>2 DEF WorkSound, Job
<1>5. \A j \in Jobs : of(j) \in Documents
  BY <1>4 DEF of, Registry!Ticket
<1>6. ASSUME NEW j \in Jobs, NEW k \in Jobs, j.ticket.serial = k.ticket.serial
      PROVE  j = k
  <2>1. Len(queue) \in Nat
    BY DEF WorkSound, WorkTyped
  <2>2. \/ \E a \in 1 .. Len(queue) : j = queue[a] /\ j.ticket.serial = serial + a - Len(queue)
        \/ j = task.job /\ j.ticket.serial = serial - Len(queue)
    BY Placed
  <2>3. \/ \E b \in 1 .. Len(queue) : k = queue[b] /\ k.ticket.serial = serial + b - Len(queue)
        \/ k = task.job /\ k.ticket.serial = serial - Len(queue)
    BY Placed
  <2>4. CASE \E a \in 1 .. Len(queue) : j = queue[a] /\ j.ticket.serial = serial + a - Len(queue)
    <3>1. PICK a \in 1 .. Len(queue) : j = queue[a] /\ j.ticket.serial = serial + a - Len(queue)
      BY <2>4
    <3>2. QED
      BY <1>3, <1>6, <2>1, <2>3, <3>1
  <2>5. CASE j = task.job /\ j.ticket.serial = serial - Len(queue)
    BY <1>3, <1>6, <2>1, <2>3, <2>5
  <2>6. QED
    BY <2>2, <2>4, <2>5
<1>7. QED
  BY <1>1, <1>2, <1>3, <1>4, <1>5, <1>6 DEF WorkSound

\* The job that is served next is the oldest in flight.
LEMMA OldestFirst ==
  ASSUME WorkSound
  PROVE  /\ task = NoTask /\ queue # <<>> =>
              head \in Jobs /\ \A k \in Jobs : k = head \/ earlier(head, k)
         /\ task # NoTask =>
              task.job \in Jobs /\ \A k \in Jobs : k = task.job \/ earlier(task.job, k)
<1>1. DOMAIN queue = 1 .. Len(queue) /\ Len(queue) \in Nat /\ serial \in Nat
  BY JobFacts DEF WorkSound, WorkTyped
<1>2. \A k \in Jobs : k.ticket.serial \in Nat
  BY JobFacts
<1>3. \A i \in 1 .. Len(queue) : queue[i] \in Jobs
  BY <1>1 DEF Jobs
<1>4. task # NoTask => task.job \in Jobs
  BY DEF Jobs
<1>5. \A k \in Jobs :
        \/ \E i \in 1 .. Len(queue) : k = queue[i] /\ k.ticket.serial = serial + i - Len(queue)
        \/ task # NoTask /\ k = task.job /\ k.ticket.serial = serial - Len(queue)
  BY Placed
<1>6. ASSUME task = NoTask, queue # <<>>
      PROVE  head \in Jobs /\ \A k \in Jobs : k = head \/ earlier(head, k)
  <2>1. head = queue[1] /\ 1 \in 1 .. Len(queue)
    BY <1>6 DEF head, WorkSound, WorkTyped
  <2>2. queue[1].ticket.serial = serial + 1 - Len(queue)
    BY <1>1, <1>2, <1>3, <2>1 DEF WorkSound, FirstInFirstOut
  <2>3. QED
    BY <1>1, <1>2, <1>3, <1>5, <1>6, <2>1, <2>2 DEF earlier
<1>7. ASSUME task # NoTask
      PROVE  task.job \in Jobs /\ \A k \in Jobs : k = task.job \/ earlier(task.job, k)
  <2>1. task.job.ticket.serial = serial - Len(queue)
    BY <1>1, <1>2, <1>4, <1>7 DEF WorkSound, FirstInFirstOut
  <2>2. QED
    BY <1>1, <1>2, <1>4, <1>5, <1>7, <2>1 DEF earlier
<1>8. QED
  BY <1>6, <1>7

\* The four things a step does to the jobs, and the one it may do to none.
Arrives(j) ==
  /\ j \in Job /\ j.ticket.lane \in laneOf(j.method)
  /\ j.ticket = Registry!ticketFor(of(j), j.ticket.lane)
  /\ Registry!admit(of(j), j.ticket.lane, j.revision)
  /\ queue' = Append(queue, j) /\ task' = task

Starting ==
  /\ task = NoTask /\ queue # <<>>
  /\ queue' = Tail(queue)
  /\ task' \in Task /\ task'.job = head
  /\ UNCHANGED registry

Going ==
  /\ task # NoTask /\ queue' = queue
  /\ task' \in Task /\ task'.job = task.job
  /\ UNCHANGED registry

Answered(j) ==
  /\ \/ task = NoTask /\ queue # <<>> /\ j = head /\ queue' = Tail(queue)
     \/ task # NoTask /\ j = task.job /\ queue' = queue
  /\ task' = NoTask
  /\ Registry!release(j.ticket)
\* A job that arrives is later than all others.
LEMMA ArrivesFacts ==
  ASSUME WorkSound, NEW j, Arrives(j)
  PROVE  /\ WorkSound'
         /\ Jobs' = Jobs \cup {j}
         /\ \A k \in Jobs : earlier(k, j)
<1> DEFINE d == of(j)
           l == j.ticket.lane
           rev == j.revision
<1>1. /\ d \in Documents /\ l \in Registry!LaneNames /\ rev \in Revisions
      /\ j.ticket \in {Registry!ticketFor(d, l)} /\ Registry!admit(d, l, rev)
  BY DEF Arrives, Job, Registry!Ticket, of
<1>2. /\ RegistrySound'
      /\ outstanding' = outstanding \cup {j.ticket}
      /\ serial' = serial + 1 /\ j.ticket.serial = serial + 1
  <2> HIDE DEF d, l, rev
  <2>1. RegistrySound
    BY DEF WorkSound
  <2>2. QED
    BY <1>1, <2>1, AdmitTicket
<1>3. /\ queue \in Seq(Job) /\ queue' = Append(queue, j) /\ task' = task
      /\ j \in Job /\ serial \in Nat
  BY JobFacts DEF Arrives, WorkSound, WorkTyped
<1>a. serial \in Nat /\ task' = task
  BY <1>3
<1>4. /\ queue' \in Seq(Job)
      /\ DOMAIN queue' = 1 .. Len(queue) + 1 /\ Len(queue') = Len(queue) + 1
      /\ queue'[Len(queue) + 1] = j
      /\ DOMAIN queue = 1 .. Len(queue) /\ Len(queue) \in Nat
      /\ \A i \in 1 .. Len(queue) : queue'[i] = queue[i]
  BY <1>3
<1>5. {queue'[i] : i \in DOMAIN queue'} = {queue[i] : i \in DOMAIN queue} \cup {j}
  <2>1. \A i \in DOMAIN queue' : i \in DOMAIN queue \/ i = Len(queue) + 1
    BY <1>4
  <2>2. Len(queue) + 1 \in DOMAIN queue' /\ \A i \in DOMAIN queue : i \in DOMAIN queue'
    BY <1>4
  <2>3. QED
    BY <1>4, <2>1, <2>2
<1>6. Jobs' = Jobs \cup {j}
  BY <1>3, <1>5 DEF Jobs
<1>7. WorkTyped'
  BY <1>3, <1>4, <1>6 DEF WorkTyped, WorkSound, Arrives
<1>8. FirstInFirstOut'
  <2>1. ASSUME NEW i \in DOMAIN queue'
        PROVE  queue'[i].ticket.serial + Len(queue') = serial' + i
    <3>1. CASE i = Len(queue) + 1
      BY <1>2, <1>3, <1>4, <3>1
    <3>2. CASE i \in 1 .. Len(queue)
      <4>1. queue[i].ticket.serial + Len(queue) = serial + i
        BY <1>4, <3>2 DEF WorkSound, FirstInFirstOut
      <4>2. queue[i].ticket.serial \in Nat
        BY <1>4, <3>2, JobFacts DEF Jobs
      <4>3. queue'[i] = queue[i] /\ i \in Nat /\ Len(queue') = Len(queue) + 1 /\ Len(queue) \in Nat
        BY <1>4, <3>2
      <4> DEFINE a == queue[i].ticket.serial
      <4>4. serial' = serial + 1 /\ serial \in Nat /\ Len(queue') = Len(queue) + 1 /\ Len(queue) \in Nat
        BY <1>2, <1>a, <4>3
      <4>5. a + Len(queue) = serial + i /\ a \in Nat /\ i \in Nat
        BY <4>1, <4>2, <4>3
      <4> HIDE DEF a
      <4>6. a + Len(queue') = serial' + i
        BY <4>4, <4>5
      <4>7. QED
        BY <4>3, <4>6 DEF a
    <3>3. QED
      BY <1>4, <3>1, <3>2
  <2>2. ASSUME task' # NoTask
        PROVE  task'.job.ticket.serial + Len(queue') = serial'
    <3>1. task.job.ticket.serial + Len(queue) = serial
      BY <1>3, <2>2 DEF WorkSound, FirstInFirstOut
    <3>2. task.job.ticket.serial \in Nat
      BY <1>3, <2>2, JobFacts DEF Jobs
    <3>3. Len(queue') = Len(queue) + 1 /\ Len(queue) \in Nat
      BY <1>4
    <3>4. QED
      BY <1>2, <1>a, <3>1, <3>2, <3>3
  <2>3. QED
    BY <2>1, <2>2 DEF FirstInFirstOut
<1>9. (inFlight = outstanding)'
  <2>1. inFlight' = {k.ticket : k \in Jobs'} /\ inFlight = {k.ticket : k \in Jobs}
    BY DEF inFlight, Jobs
  <2>2. QED
    BY <1>2, <1>6, <2>1 DEF WorkSound
<1>10. \A k \in Jobs : earlier(k, j)
  BY <1>2, JobFacts DEF earlier
<1>11. QED
  BY <1>2, <1>6, <1>7, <1>8, <1>9, <1>10 DEF WorkSound

\* Taking the first job from the queue changes no set of jobs.
LEMMA StartingFacts ==
  ASSUME WorkSound, Starting
  PROVE  WorkSound' /\ Jobs' = Jobs
<1>1. /\ queue \in Seq(Job) /\ queue # <<>> /\ queue' = Tail(queue)
      /\ task = NoTask /\ task' \in Task /\ task'.job = head
      /\ serial \in Nat
  BY JobFacts DEF Starting, WorkSound, WorkTyped
<1>2. UNCHANGED <<serial, outstanding>> /\ RegistrySound'
  BY RegistryUnchanged DEF Starting, WorkSound
<1>3. task' # NoTask
  BY <1>1 DEF Task, NoTask
<1>4. /\ queue' \in Seq(Job)
      /\ DOMAIN queue = 1 .. Len(queue) /\ Len(queue) \in Nat \ {0}
      /\ Len(queue') = Len(queue) - 1 /\ DOMAIN queue' = 1 .. Len(queue) - 1
      /\ \A i \in 1 .. Len(queue) - 1 : queue'[i] = queue[i + 1]
      /\ head = queue[1]
  BY <1>1 DEF head
<1>5. {queue[i] : i \in DOMAIN queue} = {queue'[i] : i \in DOMAIN queue'} \cup {head}
  <2> DEFINE old == {queue[i] : i \in DOMAIN queue}
             new == {queue'[i] : i \in DOMAIN queue'}
  <2>1. ASSUME NEW i \in 1 .. Len(queue)
        PROVE  queue[i] \in new \cup {head}
    <3>1. CASE i = 1
      BY <1>4, <3>1
    <3>2. CASE i # 1
      <4>1. i - 1 \in 1 .. Len(queue) - 1 /\ (i - 1) + 1 = i
        BY <1>4, <3>2
      <4>2. queue'[i - 1] = queue[i] /\ i - 1 \in DOMAIN queue'
        BY <1>4, <4>1
      <4>3. QED
        BY <4>2
    <3>3. QED
      BY <3>1, <3>2
  <2>2. ASSUME NEW i \in 1 .. Len(queue) - 1
        PROVE  queue'[i] \in old
    <3>1. i + 1 \in DOMAIN queue /\ queue'[i] = queue[i + 1]
      BY <1>4
    <3>2. QED
      BY <3>1
  <2>3. head \in old
    <3>1. 1 \in DOMAIN queue
      BY <1>4
    <3>2. QED
      BY <1>4, <3>1
  <2>4. old \subseteq new \cup {head} /\ new \subseteq old
    BY <1>4, <2>1, <2>2
  <2>5. QED
    BY <2>3, <2>4
<1>6. Jobs' = Jobs
  BY <1>1, <1>3, <1>5 DEF Jobs
<1>7. WorkTyped'
  BY <1>1, <1>4, <1>6 DEF WorkTyped, WorkSound
<1>8. FirstInFirstOut'
  <2>1. ASSUME NEW i \in 1 .. Len(queue)
        PROVE  queue[i].ticket.serial + Len(queue) = serial + i /\ queue[i].ticket.serial \in Nat
    <3>1. queue[i].ticket.serial \in 1 .. serial
      BY <1>4, JobFacts DEF Jobs
    <3>2. queue[i].ticket.serial + Len(queue) = serial + i
      BY <1>4 DEF WorkSound, FirstInFirstOut
    <3>3. QED
      BY <1>1, <3>1, <3>2
  <2>2. task'.job.ticket.serial + Len(queue') = serial'
    <3>1. queue[1].ticket.serial + Len(queue) = serial + 1 /\ queue[1].ticket.serial \in Nat
      BY <1>4, <2>1
    <3>2. QED
      BY <1>1, <1>2, <1>4, <3>1
  <2>3. ASSUME NEW i \in DOMAIN queue'
        PROVE  queue'[i].ticket.serial + Len(queue') = serial' + i
    <3>1. i + 1 \in 1 .. Len(queue) /\ queue'[i] = queue[i + 1] /\ i \in Nat
      BY <1>4
    <3>2. queue[i + 1].ticket.serial + Len(queue) = serial + (i + 1) /\ queue[i + 1].ticket.serial \in Nat
      BY <2>1, <3>1
    <3>3. QED
      BY <1>1, <1>2, <1>4, <3>1, <3>2
  <2>4. QED
    BY <2>2, <2>3 DEF FirstInFirstOut
<1>9. (inFlight = outstanding)'
  <2>1. inFlight' = {k.ticket : k \in Jobs'} /\ inFlight = {k.ticket : k \in Jobs}
    BY DEF inFlight, Jobs
  <2>2. QED
    BY <1>2, <1>6, <2>1 DEF WorkSound
<1>10. QED
  BY <1>2, <1>6, <1>7, <1>8, <1>9 DEF WorkSound

\* Nor does a step of the task within.
LEMMA GoingFacts ==
  ASSUME WorkSound, Going
  PROVE  WorkSound' /\ Jobs' = Jobs
<1>1. /\ queue' = queue /\ task # NoTask /\ task' \in Task /\ task'.job = task.job
      /\ UNCHANGED <<serial, outstanding>> /\ RegistrySound'
  BY RegistryUnchanged DEF Going, WorkSound
<1>2. task' # NoTask
  BY <1>1 DEF Task, NoTask
<1>3. Jobs' = Jobs /\ inFlight' = inFlight
  BY <1>1, <1>2 DEF Jobs, inFlight
<1>4. WorkTyped' /\ FirstInFirstOut'
  BY <1>1, <1>2, <1>3 DEF WorkSound, WorkTyped, FirstInFirstOut
<1>5. QED
  BY <1>1, <1>3, <1>4 DEF WorkSound
\* The job answered is the earliest.
LEMMA AnsweredFacts ==
  ASSUME WorkSound, NEW j, Answered(j)
  PROVE  /\ WorkSound'
         /\ j \in Jobs /\ Jobs' = Jobs \ {j}
         /\ \A k \in Jobs' : earlier(j, k)
<1>1. /\ queue \in Seq(Job) /\ task' = NoTask /\ serial \in Nat
      /\ j \in Jobs /\ j.ticket \in outstanding
      /\ \A k \in Jobs : k = j \/ earlier(j, k)
  BY JobFacts, OldestFirst DEF Answered, WorkSound, WorkTyped
<1>2. j.ticket.serial \in Nat /\ \A k \in Jobs : k.ticket.serial \in Nat
  BY <1>1, JobFacts
<1>3. RegistrySound'
  BY <1>1, ReleaseEffect DEF WorkSound, Answered
<1>4. outstanding' = outstanding \ {j.ticket}
  BY <1>1, ReleaseEffect DEF WorkSound, Answered
<1>5. serial' = serial
  BY <1>1, ReleaseEffect DEF WorkSound, Answered
<1>6. \A k \in Jobs : k.ticket = j.ticket => k = j
  BY <1>1, JobFacts
<1>7. ASSUME task # NoTask, j = task.job, queue' = queue
      PROVE  Jobs' = Jobs \ {j} /\ WorkTyped' /\ FirstInFirstOut'
  <2>1. Jobs' = {queue[i] : i \in DOMAIN queue}
    BY <1>1, <1>7 DEF Jobs
  <2>2. \A i \in DOMAIN queue : queue[i] # j
    <3>1. DOMAIN queue = 1 .. Len(queue) /\ Len(queue) \in Nat
      BY <1>1
    <3>2. SUFFICES ASSUME NEW i \in 1 .. Len(queue), queue[i] = j
                   PROVE  FALSE
      BY <3>1
    <3>3. j.ticket.serial + Len(queue) = serial + i
      BY <3>1, <3>2 DEF WorkSound, FirstInFirstOut
    <3>4. j.ticket.serial + Len(queue) = serial
      BY <1>7 DEF WorkSound, FirstInFirstOut
    <3>5. QED
      BY <1>1, <3>2, <3>3, <3>4
  <2>3. Jobs' = Jobs \ {j}
    BY <1>7, <2>1, <2>2 DEF Jobs
  <2>4. WorkTyped' /\ FirstInFirstOut'
    BY <1>1, <1>5, <1>7, <2>3 DEF WorkSound, WorkTyped, FirstInFirstOut
  <2>5. QED
    BY <2>3, <2>4
<1>8. ASSUME task = NoTask, queue # <<>>, j = head, queue' = Tail(queue)
      PROVE  Jobs' = Jobs \ {j} /\ WorkTyped' /\ FirstInFirstOut'
  <2>1. /\ queue' \in Seq(Job)
        /\ DOMAIN queue = 1 .. Len(queue) /\ Len(queue) \in Nat \ {0}
        /\ Len(queue') = Len(queue) - 1 /\ DOMAIN queue' = 1 .. Len(queue) - 1
        /\ \A i \in 1 .. Len(queue) - 1 : queue'[i] = queue[i + 1]
        /\ j = queue[1]
    BY <1>1, <1>8 DEF head
  <2>2. ASSUME NEW i \in 1 .. Len(queue)
        PROVE  queue[i].ticket.serial + Len(queue) = serial + i /\ queue[i].ticket.serial \in Nat
    <3>1. queue[i].ticket.serial \in Nat
      BY <1>2, <2>1 DEF Jobs
    <3>2. queue[i].ticket.serial + Len(queue) = serial + i
      BY <2>1 DEF WorkSound, FirstInFirstOut
    <3>3. QED
      BY <3>1, <3>2
  <2>3. ASSUME NEW i \in DOMAIN queue'
        PROVE  /\ queue'[i].ticket.serial + Len(queue') = serial' + i
               /\ queue'[i] \in Jobs \ {j}
    <3>1. i + 1 \in 1 .. Len(queue) /\ queue'[i] = queue[i + 1] /\ i \in 1 .. Len(queue) - 1
      BY <2>1
    <3>2. queue[i + 1].ticket.serial + Len(queue) = serial + (i + 1) /\ queue[i + 1].ticket.serial \in Nat
      BY <2>2, <3>1
    <3>3. queue[1].ticket.serial + Len(queue) = serial + 1 /\ 1 \in 1 .. Len(queue)
      BY <2>1, <2>2
    <3>4. queue'[i].ticket.serial + Len(queue') = serial' + i
      <4> DEFINE a == queue[i + 1].ticket.serial
      <4>1. a + Len(queue) = serial + (i + 1) /\ a \in Nat /\ i \in Nat
        BY <3>1, <3>2
      <4>2. Len(queue) = Len(queue') + 1 /\ Len(queue') \in Nat
        BY <2>1
      <4>3. serial' = serial /\ serial \in Nat
        BY <1>1, <1>5
      <4> HIDE DEF a
      <4>4. a + Len(queue') = serial' + i
        BY <4>1, <4>2, <4>3
      <4>5. QED
        BY <3>1, <4>4 DEF a
    <3>5. queue[i + 1] # queue[1]
      BY <1>1, <2>1, <3>1, <3>2, <3>3
    <3>6. QED
      BY <2>1, <3>1, <3>4, <3>5 DEF Jobs
  <2>4. Jobs' = {queue'[i] : i \in DOMAIN queue'}
    BY <1>1 DEF Jobs
  <2>5. ASSUME NEW k \in Jobs, k # j
        PROVE  k \in Jobs'
    <3>1. PICK i \in 1 .. Len(queue) : k = queue[i]
      BY <1>8, <2>1 DEF Jobs
    <3>2. i - 1 \in 1 .. Len(queue) - 1 /\ (i - 1) + 1 = i
      BY <2>1, <2>5, <3>1
    <3>3. queue'[i - 1] = k /\ i - 1 \in DOMAIN queue'
      BY <2>1, <3>1, <3>2
    <3>4. QED
      BY <2>4, <3>3
  <2>6. Jobs' = Jobs \ {j}
    BY <2>3, <2>4, <2>5
  <2>7. WorkTyped' /\ FirstInFirstOut'
    BY <1>1, <2>1, <2>3, <2>6 DEF WorkSound, WorkTyped, FirstInFirstOut
  <2>8. QED
    BY <2>6, <2>7
<1>9. Jobs' = Jobs \ {j} /\ WorkTyped' /\ FirstInFirstOut'
  BY <1>7, <1>8 DEF Answered
<1>10. (inFlight = outstanding)'
  <2>1. inFlight' = {k.ticket : k \in Jobs'} /\ inFlight = {k.ticket : k \in Jobs}
    BY DEF inFlight, Jobs
  <2>2. QED
    BY <1>1, <1>4, <1>6, <1>9, <2>1 DEF WorkSound
<1>11. QED
  BY <1>1, <1>3, <1>9, <1>10 DEF WorkSound
-----------------------------------------------------------------------------
(***************************************************************************)
(* The stores.                                                             *)
(***************************************************************************)
Page == [documentId : Documents, contentRevision : Revisions, key : Revisions]
Remembered == [contentRevision : Revisions, selection : Markup \cup {NoMarkup},
               find : Markup \cup {NoMarkup}]

StoresTyped ==
  /\ cacheOrder \in Seq(Documents) /\ Distinct(cacheOrder)
  /\ Range(cacheOrder) = DOMAIN markdownCache
  /\ \A d \in DOMAIN markdownCache : markdownCache[d] \in Markup /\ markdownCache[d].documentId = d
  /\ frameOrder \in Seq(Documents) /\ Distinct(frameOrder)
  /\ Range(frameOrder) = DOMAIN frames
  /\ \A d \in DOMAIN frames : frames[d] \in Frame
  /\ DOMAIN interactionState \subseteq Documents
  /\ \A d \in DOMAIN interactionState : interactionState[d] \in Remembered
  /\ active \in Page \cup {NoPage}
  /\ dom \in Markup \cup {NoMarkup}

\* Dropping a key from a recency order, for a set of at most one key.
LEMMA DroppedFacts ==
  ASSUME NEW o \in Seq(Documents), Distinct(o), NEW D, \A a, b \in D : a = b
  PROVE  /\ DroppedOrder(o, D) \in Seq(Documents)
         /\ Distinct(DroppedOrder(o, D))
         /\ Range(DroppedOrder(o, D)) = Range(o) \ D
<1>1. CASE D = {}
  BY <1>1 DEF DroppedOrder
<1>2. CASE D # {}
  <2>1. PICK k \in D : TRUE
    BY <1>2
  <2>d. D = {k}
    BY <2>1
  <2>2. (CHOOSE x \in D : TRUE) = k
    BY <2>d
  <2>3. DroppedOrder(o, D) = Without(o, k)
    BY <1>2, <2>2 DEF DroppedOrder
  <2>4. /\ Without(o, k) \in Seq(Documents)
        /\ Distinct(Without(o, k))
        /\ Range(Without(o, k)) = Range(o) \ {k}
    BY WithoutFacts
  <2>5. QED
    BY <2>d, <2>3, <2>4
<1>3. QED
  BY <1>1, <1>2

\* What losing one document, or none, does to the stores.
LEMMA LossEffect ==
  ASSUME StoresTyped, NEW D, \A a, b \in D : a = b, forgetDocument(D)
  PROVE  /\ StoresTyped'
         /\ DOMAIN markdownCache' = DOMAIN markdownCache \ D
         /\ \A d \in DOMAIN markdownCache' : markdownCache'[d] = markdownCache[d]
         /\ DOMAIN frames' = DOMAIN frames \ D
         /\ \A d \in DOMAIN frames' : frames'[d] = frames[d]
         /\ DOMAIN interactionState' = DOMAIN interactionState \ D
         /\ \A d \in DOMAIN interactionState' : interactionState'[d] = interactionState[d]
         /\ active' \in {active, NoPage}
         /\ dom' = dom
<1>1. /\ DOMAIN markdownCache' = DOMAIN markdownCache \ D
      /\ \A d \in DOMAIN markdownCache' : markdownCache'[d] = markdownCache[d]
      /\ DOMAIN interactionState' = DOMAIN interactionState \ D
      /\ \A d \in DOMAIN interactionState' : interactionState'[d] = interactionState[d]
      /\ cacheOrder' = DroppedOrder(cacheOrder, D)
  BY DEF forgetDocument, Dropped, Restrict
<1>2. /\ DOMAIN frames' = DOMAIN frames \ D
      /\ \A d \in DOMAIN frames' : frames'[d] = frames[d]
      /\ active' \in {active, NoPage}
      /\ dom' = dom
      /\ frameOrder' = DroppedOrder(frameOrder, D)
  BY DEF forgetDocument, browserForget, Dropped, Restrict
<1>3. /\ cacheOrder' \in Seq(Documents) /\ Distinct(cacheOrder')
      /\ Range(cacheOrder') = Range(cacheOrder) \ D
  BY <1>1, DroppedFacts DEF StoresTyped
<1>4. /\ frameOrder' \in Seq(Documents) /\ Distinct(frameOrder')
      /\ Range(frameOrder') = Range(frameOrder) \ D
  BY <1>2, DroppedFacts DEF StoresTyped
<1>5. StoresTyped'
  BY <1>1, <1>2, <1>3, <1>4 DEF StoresTyped
<1>6. QED
  BY <1>1, <1>2, <1>5

\* What caching a markup does to the stores.
LEMMA RememberEffect ==
  ASSUME StoresTyped, NEW d \in Documents, NEW m \in Markup, m.documentId = d,
         NEW reused \in BOOLEAN, rememberMarkdown(d, m, reused)
  PROVE  /\ StoresTyped'
         /\ d \in DOMAIN markdownCache' /\ markdownCache'[d] = m
         /\ \A e \in DOMAIN markdownCache' \ {d} :
              e \in DOMAIN markdownCache /\ markdownCache'[e] = markdownCache[e]
         /\ \A e \in DOMAIN frames' : e \in DOMAIN frames /\ frames'[e] = frames[e]
         /\ \A e \in DOMAIN interactionState' :
              /\ e \in DOMAIN interactionState /\ interactionState'[e] = interactionState[e]
              /\ e \in DOMAIN markdownCache => e \in DOMAIN markdownCache'
              /\ reused \/ e # d
         /\ active' \in {active, NoPage}
         /\ dom' = dom
<1> DEFINE kept == Touched(cacheOrder, d, MaxCachedDocuments)
           evicted == DOMAIN markdownCache \ Range(kept)
<1>1. /\ kept \in Seq(Documents) /\ Distinct(kept) /\ d \in Range(kept)
      /\ Range(kept) \subseteq Range(cacheOrder) \cup {d}
  BY ServiceAssumption, TouchedFacts DEF StoresTyped
<1>2. \A a, b \in evicted : a = b
  BY ServiceAssumption, TouchedDropsOne DEF StoresTyped
<1>3. /\ cacheOrder' = kept
      /\ markdownCache' = [e \in Range(kept) |-> IF e = d THEN m ELSE markdownCache[e]]
      /\ interactionState' = Dropped(interactionState, evicted \cup (IF reused THEN {} ELSE {d}))
      /\ browserForget(evicted)
  BY DEF rememberMarkdown
<1>4. evicted = DOMAIN markdownCache \ DOMAIN markdownCache'
  BY <1>3
<1> HIDE DEF kept, evicted
<1>5. /\ DOMAIN frames' = DOMAIN frames \ evicted
      /\ \A e \in DOMAIN frames' : frames'[e] = frames[e]
      /\ active' \in {active, NoPage}
      /\ dom' = dom
      /\ frameOrder' = DroppedOrder(frameOrder, evicted)
  BY <1>3 DEF browserForget, Dropped, Restrict
<1>6. /\ frameOrder' \in Seq(Documents) /\ Distinct(frameOrder')
      /\ Range(frameOrder') = Range(frameOrder) \ evicted
  BY <1>2, <1>5, DroppedFacts DEF StoresTyped
<1>7. /\ DOMAIN interactionState' = DOMAIN interactionState \ (evicted \cup (IF reused THEN {} ELSE {d}))
      /\ \A e \in DOMAIN interactionState' : interactionState'[e] = interactionState[e]
  BY <1>3 DEF Dropped, Restrict
<1>8. /\ d \in DOMAIN markdownCache' /\ markdownCache'[d] = m
      /\ DOMAIN markdownCache' = Range(kept)
      /\ \A e \in DOMAIN markdownCache' \ {d} :
           e \in DOMAIN markdownCache /\ markdownCache'[e] = markdownCache[e]
  BY <1>1, <1>3 DEF StoresTyped
<1>9. StoresTyped'
  BY <1>1, <1>3, <1>5, <1>6, <1>7, <1>8 DEF StoresTyped
<1>10. QED
  BY <1>4, <1>5, <1>7, <1>8, <1>9

\* What writing a frame's record does to the stores.
LEMMA RecordEffect ==
  ASSUME StoresTyped, NEW d \in Documents, NEW f \in Frame, rememberDocument(d, f),
         UNCHANGED <<caches, active, dom>>
  PROVE  /\ StoresTyped'
         /\ d \in DOMAIN frames' /\ frames'[d] = f
         /\ \A e \in DOMAIN frames' \ {d} : e \in DOMAIN frames /\ frames'[e] = frames[e]
<1> DEFINE kept == Touched(frameOrder, d, MaxDocumentFrames)
<1>1. /\ kept \in Seq(Documents) /\ Distinct(kept) /\ d \in Range(kept)
      /\ Range(kept) \subseteq Range(frameOrder) \cup {d}
  BY ServiceAssumption, TouchedFacts DEF StoresTyped
<1>2. /\ frameOrder' = kept
      /\ frames' = [e \in Range(kept) |-> IF e = d THEN f ELSE frames[e]]
  BY DEF rememberDocument
<1> HIDE DEF kept
<1>3. QED
  BY <1>1, <1>2 DEF StoresTyped, caches
-----------------------------------------------------------------------------
(***************************************************************************)
(* Types, and how far each kind of task has come in each phase.            *)
(***************************************************************************)
ClientTyped ==
  /\ revision \in [Documents -> Revisions]
  /\ rendererRevision \in [Documents -> Revisions \cup {NoRevision}]
  /\ imagesArrived \in BOOLEAN

TaskReady ==
  task # NoTask =>
    /\ task.phase = "parse" => job.method \in {"render", "prepare"}
    /\ task.phase # "parse" =>
         /\ job.method # "prepare"
         /\ job.method = "interact" => task.frame \in Frame
         /\ task.phase # "finish" => task.markup \in Markup /\ task.markup.documentId = doc
    /\ task.phase = "capture" => job.method # "interact"
    /\ task.phase \in {"evaluate", "finish"} => job.method = "interact"

Sound == WorkSound /\ StoresTyped /\ ClientTyped /\ TaskReady

\* Making room evicts at most one document.
LEMMA EvictsOne ==
  ASSUME RegistrySound, NEW d \in Documents
  PROVE  \A a, b \in Registry!evictedBy(d) : a = b
<1>1. /\ order \in Seq(Documents) /\ Distinct(order) /\ Range(order) = DOMAIN documents
  BY DEF RegistrySound, RP!IInv, RP!TypeOK, RP!OrderIsDistinct, RP!Distinct, Distinct, RP!Range, Range
<1>2. Registry!evictedBy(d) = Range(order) \ Range(Touched(order, d, MaxDocuments))
  BY <1>1 DEF Registry!evictedBy, Registry!recencyAfter, Registry!Touched, Touched,
     Registry!Without, Without, Registry!Position, Position, Registry!Range, Range
<1>3. QED
  BY <1>1, <1>2, TouchedDropsOne, ServiceAssumption

\* A job is admitted: its lookup may evict one document from every store.
Admitted(j) ==
  /\ Arrives(j)
  /\ forgetDocument(Registry!evictedBy(of(j)))
  /\ j.placeholder = (RemoteImages /\ ~imagesArrived)
  /\ UNCHANGED <<client, imagesArrived>>
  /\ reply' = NoReply

Refused(d) ==
  /\ \E l \in Registry!LaneNames, rev \in Revisions : Registry!refuse(d, l, rev)
  /\ forgetDocument(Registry!evictedBy(d))
  /\ UNCHANGED <<client, imagesArrived, queue, task>>
  /\ reply'.status = "refused"

\* An admitted request is one more job.
LEMMA AdmittedFacts ==
  ASSUME Sound, NEW j, Admitted(j)
  PROVE  Sound' /\ Jobs' = Jobs \cup {j}
<1>1. of(j) \in Documents
  BY DEF Admitted, Arrives, Job, Registry!Ticket, of
<1>2. WorkSound' /\ Jobs' = Jobs \cup {j}
  BY ArrivesFacts DEF Sound, Admitted
<1>3. StoresTyped'
  BY <1>1, EvictsOne, LossEffect DEF Sound, WorkSound, Admitted
<1>4. ClientTyped' /\ task' = task
  BY DEF Sound, ClientTyped, Admitted, Arrives, client
<1>5. TaskReady'
  BY <1>4 DEF Sound, TaskReady, job, doc
<1>6. QED
  BY <1>2, <1>3, <1>4, <1>5 DEF Sound

\* What leaves queue, task and tickets alone keeps the work sound.
LEMMA StillWork ==
  ASSUME WorkSound, RegistrySound', UNCHANGED <<queue, task, serial, outstanding>>
  PROVE  WorkSound' /\ Jobs' = Jobs
BY DEF WorkSound, WorkTyped, FirstInFirstOut, Jobs, inFlight

\* A refused request leaves the jobs as they are.
LEMMA RefusedFacts ==
  ASSUME Sound, NEW d \in Documents, Refused(d)
  PROVE  Sound' /\ Jobs' = Jobs
<1>1. RegistrySound' /\ UNCHANGED <<serial, outstanding>>
  BY RefuseEffect DEF Sound, WorkSound, Refused
<1>2. WorkSound' /\ Jobs' = Jobs
  BY <1>1, StillWork DEF Sound, Refused
<1>3. StoresTyped'
  BY EvictsOne, LossEffect DEF Sound, WorkSound, Refused
<1>4. ClientTyped' /\ TaskReady'
  BY DEF Sound, ClientTyped, TaskReady, Refused, client, job, doc
<1>5. QED
  BY <1>2, <1>3, <1>4 DEF Sound

\* So does forget, which does not wait for the queue.
LEMMA ForgetFacts ==
  ASSUME Sound, NEW d \in Documents, Forget(d)
  PROVE  Sound' /\ Jobs' = Jobs
<1>1. RegistrySound' /\ UNCHANGED <<serial, outstanding>>
  BY ForgetEffect DEF Sound, WorkSound, Forget
<1>2. WorkSound' /\ Jobs' = Jobs
  BY <1>1, StillWork DEF Sound, Forget
<1>3. StoresTyped'
  BY LossEffect DEF Sound, Forget
<1>4. ClientTyped' /\ TaskReady'
  BY DEF Sound, ClientTyped, TaskReady, Forget, job, doc
<1>5. QED
  BY <1>2, <1>3, <1>4 DEF Sound

\* Typing, and a new image, touch no job and no store.
LEMMA QuietFacts ==
  ASSUME Sound, UNCHANGED <<registry, queue, task, caches, page>>, ClientTyped'
  PROVE  Sound' /\ Jobs' = Jobs
<1>1. RegistrySound' /\ UNCHANGED <<serial, outstanding>>
  BY RegistryUnchanged DEF Sound, WorkSound
<1>2. WorkSound' /\ Jobs' = Jobs
  BY <1>1, StillWork DEF Sound
<1>3. StoresTyped' /\ TaskReady'
  BY DEF Sound, StoresTyped, TaskReady, caches, page, job, doc
<1>4. QED
  BY <1>2, <1>3 DEF Sound

\* So does an edit.
LEMMA EditFacts ==
  ASSUME Sound, NEW d \in Documents, Edit(d)
  PROVE  Sound' /\ Jobs' = Jobs
<1>1. ClientTyped'
  <2>1. revision \in [Documents -> Revisions] /\ revision[d] < MaxRevision /\ MaxRevision \in Nat
    BY ServiceAssumption DEF Sound, ClientTyped, Edit
  <2>2. revision[d] + 1 \in Revisions
    BY <2>1 DEF Revisions
  <2>3. QED
    BY <2>1, <2>2 DEF Sound, ClientTyped, Edit
<1>2. QED
  BY <1>1, QuietFacts DEF Edit

\* So does the arrival of remote images.
LEMMA ImagesFacts ==
  ASSUME Sound, ImagesArrive
  PROVE  Sound' /\ Jobs' = Jobs
<1>1. ClientTyped'
  BY DEF Sound, ClientTyped, ImagesArrive, client
<1>2. QED
  BY <1>1, QuietFacts DEF ImagesArrive
\* A request either is admitted, as a job that names what its sender had in
\* view, or is refused.
LEMMA DispatchCases ==
  ASSUME Sound, NEW d \in Documents, NEW method \in Methods,
         NEW action \in Actions \cup {"none"}, NEW rev \in Revisions,
         dispatch(d, method, action, rev)
  PROVE  \/ Refused(d)
         \/ \E j : /\ Admitted(j)
                   /\ of(j) = d /\ j.method = method /\ j.revision = rev
                   /\ j.ticket.lane \in laneOf(method)
<1>1. PICK lane \in laneOf(method) :
        /\ \/ /\ Registry!admit(d, lane, rev)
              /\ queue' = enqueued(
                   [ticket |-> Registry!ticketFor(d, lane), method |-> method,
                    revision |-> rev, action |-> action,
                    placeholder |-> RemoteImages /\ ~imagesArrived])
              /\ reply' = NoReply
           \/ /\ Registry!refuse(d, lane, rev)
              /\ reply' = [status |-> "refused", documentId |-> d, lane |-> lane]
              /\ UNCHANGED queue
        /\ onEvict(Registry!evictedBy(d))
        /\ UNCHANGED <<client, imagesArrived, task>>
  BY DEF dispatch
<1>2. lane \in Registry!LaneNames
  BY ServiceAssumption DEF laneOf, Registry!LaneNames
<1>3. CASE Registry!refuse(d, lane, rev)
           /\ reply' = [status |-> "refused", documentId |-> d, lane |-> lane]
           /\ UNCHANGED queue
  BY <1>1, <1>2, <1>3 DEF Refused, onEvict
<1>4. ASSUME Registry!admit(d, lane, rev), reply' = NoReply,
             queue' = enqueued(
                   [ticket |-> Registry!ticketFor(d, lane), method |-> method,
                    revision |-> rev, action |-> action,
                    placeholder |-> RemoteImages /\ ~imagesArrived])
      PROVE  \E j : /\ Admitted(j)
                   /\ of(j) = d /\ j.method = method /\ j.revision = rev
                   /\ j.ticket.lane \in laneOf(method)
  <2>1. PICK t \in {Registry!ticketFor(d, lane)} : TRUE
    OBVIOUS
  <2>2. t \in Registry!Ticket /\ t.documentId = d /\ t.lane = lane
    BY <1>2, <1>4, AdmitTicket DEF Sound, WorkSound
  <2>3. PICK p \in BOOLEAN : p = (RemoteImages /\ ~imagesArrived)
    OBVIOUS
  <2> DEFINE j == [ticket |-> t, method |-> method, revision |-> rev,
                   action |-> action, placeholder |-> p]
  <2>4. j \in Job /\ of(j) = d /\ j.method = method /\ j.revision = rev /\ j.ticket = t
    BY <2>2 DEF Job, of
  <2>5. queue' = Append(queue, j)
    BY <1>4, <2>3 DEF enqueued
  <2>6. j.placeholder = (RemoteImages /\ ~imagesArrived)
    BY <2>3
  <2> HIDE DEF j
  <2>7. Arrives(j)
    BY <1>1, <1>4, <2>2, <2>4, <2>5 DEF Arrives
  <2>8. Admitted(j)
    BY <1>1, <1>4, <2>4, <2>6, <2>7 DEF Admitted, onEvict
  <2>9. QED
    BY <2>2, <2>4, <2>8
<1>5. QED
  BY <1>1, <1>3, <1>4

\* The three requests of a session, with what each names.
LEMMA RequestCases ==
  ASSUME Sound, NEW d \in Documents
  PROVE  /\ Render(d) => \/ Refused(d)
                         \/ \E j : /\ Admitted(j) /\ of(j) = d
                                   /\ j.method \in {"render", "render_prepared", "prepare"}
                                   /\ j.revision = revision[d]
         /\ Capture(d) => \/ Refused(d)
                          \/ \E j : /\ Admitted(j) /\ of(j) = d
                                    /\ j.method = "capture"
                                    /\ j.revision = revision[d]
                                    /\ rendererRevision[d] = j.revision
         /\ Interact(d) => \/ Refused(d)
                           \/ \E j : /\ Admitted(j) /\ of(j) = d
                                     /\ j.method = "interact"
                                     /\ rendererRevision[d] = j.revision
<1>1. /\ revision[d] \in Revisions
      /\ rendererRevision[d] # NoRevision => rendererRevision[d] \in Revisions
  BY DEF Sound, ClientTyped
<1>2. ASSUME Render(d)
      PROVE  \/ Refused(d)
             \/ \E j : /\ Admitted(j) /\ of(j) = d
                       /\ j.method \in {"render", "render_prepared", "prepare"}
                       /\ j.revision = revision[d]
  <2>1. PICK method \in Methods \cap {"render", "render_prepared", "prepare"} :
               dispatch(d, method, "none", revision[d])
    BY <1>2 DEF Render
  <2>2. QED
    BY <1>1, <2>1, DispatchCases
<1>3. ASSUME Capture(d)
      PROVE  \/ Refused(d)
             \/ \E j : /\ Admitted(j) /\ of(j) = d
                       /\ j.method = "capture"
                       /\ j.revision = revision[d]
                       /\ rendererRevision[d] = j.revision
  <2>1. "capture" \in Methods /\ dispatch(d, "capture", "none", revision[d])
        /\ rendererRevision[d] = revision[d]
    BY <1>3 DEF Capture
  <2>2. \/ Refused(d)
        \/ \E j : Admitted(j) /\ of(j) = d /\ j.method = "capture" /\ j.revision = revision[d]
    BY <1>1, <2>1, DispatchCases
  <2>3. QED
    BY <2>1, <2>2
<1>4. ASSUME Interact(d)
      PROVE  \/ Refused(d)
             \/ \E j : /\ Admitted(j) /\ of(j) = d
                       /\ j.method = "interact"
                       /\ rendererRevision[d] = j.revision
  <2>1. PICK action \in Actions : dispatch(d, "interact", action, rendererRevision[d])
    BY <1>4 DEF Interact
  <2>2. "interact" \in Methods /\ rendererRevision[d] \in Revisions
    BY <1>1, <1>4 DEF Interact
  <2>3. \/ Refused(d)
        \/ \E j : Admitted(j) /\ of(j) = d /\ j.method = "interact" /\ j.revision = rendererRevision[d]
    BY <2>1, <2>2, DispatchCases
  <2>4. QED
    BY <2>3
<1>5. QED
  BY <1>2, <1>3, <1>4

-----------------------------------------------------------------------------
\* A job starts whose first stretch caches markup m, or caches nothing.
StartsWith(m, reused) ==
  /\ Starts
  /\ m \in Markup /\ m.documentId = of(head)
  /\ head.method \in {"render", "render_prepared", "capture"}
  /\ rememberMarkdown(of(head), m, reused)
  /\ awaits("ensure", m, NoPage)

\* What is known of the first job of the queue.
LEMMA HeadFacts ==
  ASSUME Sound, task = NoTask, queue # <<>>
  PROVE  /\ head \in Jobs /\ head \in Job /\ of(head) \in Documents
         /\ head.ticket \in outstanding
         /\ head.revision \in Revisions /\ head.placeholder \in BOOLEAN
         /\ head.method \in {"render", "render_prepared", "prepare", "capture", "interact"}
         /\ isContent(head) <=> head.method \in {"render", "render_prepared", "prepare"}
         /\ head.ticket.lane = "interact" <=> head.method = "interact"
<1>1. head \in Jobs
  BY OldestFirst DEF Sound
<1>2. head \in Job /\ of(head) \in Documents /\ head.ticket \in outstanding /\ head.revision \in Revisions
  BY <1>1, JobFacts DEF Sound
<1>3. head.method \in Methods /\ head.placeholder \in BOOLEAN
  BY <1>2 DEF Job
<1>4. head.ticket.lane \in laneOf(head.method)
  BY <1>1 DEF Sound, WorkSound, WorkTyped
<1>5. QED
  BY <1>1, <1>2, <1>3, <1>4, ServiceAssumption DEF laneOf, isContent

\* A task that starts with a markup holds the first job of the queue.
LEMMA StartsWithFacts ==
  ASSUME Sound, NEW m, NEW reused \in BOOLEAN, StartsWith(m, reused)
  PROVE  Sound' /\ Starting /\ Jobs' = Jobs
<1>1. /\ task = NoTask /\ queue # <<>> /\ m \in Markup /\ m.documentId = of(head)
      /\ task' = [job |-> head, phase |-> "ensure", markup |-> m, frame |-> NoPage]
      /\ queue' = Tail(queue) /\ UNCHANGED <<registry, client, imagesArrived>>
  BY DEF StartsWith, Starts, awaits
<1>2. head \in Job /\ of(head) \in Documents
  BY <1>1, HeadFacts
<1>3. task' \in Task
  BY <1>1, <1>2 DEF Task
<1>4. Starting
  BY <1>1, <1>3 DEF Starting
<1>5. WorkSound' /\ Jobs' = Jobs
  BY <1>4, StartingFacts DEF Sound
<1>6. StoresTyped'
  BY <1>1, <1>2, RememberEffect DEF StartsWith, Sound
<1>7. ClientTyped'
  BY <1>1 DEF Sound, ClientTyped, client
<1>8. TaskReady'
  BY <1>1 DEF TaskReady, job, doc, of, StartsWith
<1>9. QED
  BY <1>4, <1>5, <1>6, <1>7, <1>8 DEF Sound

\* The starts that cache markup: which markup, for which job.
LEMMA StoringStarts ==
  ASSUME Sound
  PROVE  /\ StartReused => /\ StartsWith(cachedMarkup, TRUE)
                           /\ of(head) \in DOMAIN markdownCache
                           /\ cachedMarkup = markdownCache[of(head)]
                           /\ cachedMarkup.revision = head.revision
                           /\ ~cachedMarkup.placeholder
                           /\ isContent(head)
         /\ StartPrepared =>
              /\ isContent(head) /\ head.method = "render_prepared"
              /\ \E m : /\ StartsWith(m, FALSE)
                        /\ m.revision = head.revision
                        /\ m.placeholder = head.placeholder
         /\ StartCapture => /\ StartsWith(cachedMarkup, TRUE)
                            /\ of(head) \in DOMAIN markdownCache
                            /\ cachedMarkup = markdownCache[of(head)]
                            /\ head.method = "capture"
<1>1. of(head) \in DOMAIN markdownCache =>
        cachedMarkup \in Markup /\ cachedMarkup.documentId = of(head)
  BY DEF Sound, StoresTyped, cachedMarkup, of
<1>2. ASSUME StartReused
      PROVE  /\ StartsWith(cachedMarkup, TRUE)
             /\ of(head) \in DOMAIN markdownCache
             /\ cachedMarkup = markdownCache[of(head)]
             /\ cachedMarkup.revision = head.revision
             /\ ~cachedMarkup.placeholder
             /\ isContent(head)
  <2>1. isContent(head)
    BY <1>2, HeadFacts DEF StartReused, Starts
  <2>2. QED
    BY <1>1, <1>2, <2>1 DEF StartReused, StartsWith, reusable, cached, cachedMarkup, of
<1>3. ASSUME StartCapture
      PROVE  /\ StartsWith(cachedMarkup, TRUE)
             /\ of(head) \in DOMAIN markdownCache
             /\ cachedMarkup = markdownCache[of(head)]
             /\ head.method = "capture"
  BY <1>1, <1>3 DEF StartCapture, StartsWith, cached, cachedMarkup, of
<1>4. ASSUME StartPrepared
      PROVE  /\ isContent(head) /\ head.method = "render_prepared"
             /\ \E m : /\ StartsWith(m, FALSE)
                       /\ m.revision = head.revision
                       /\ m.placeholder = head.placeholder
  <2> DEFINE m == [documentId |-> of(head), revision |-> head.revision,
                   placeholder |-> head.placeholder]
  <2>1. /\ isContent(head) /\ head.method = "render_prepared"
        /\ of(head) \in Documents /\ head.revision \in Revisions /\ head.placeholder \in BOOLEAN
    BY <1>4, HeadFacts DEF StartPrepared, Starts
  <2>2. m \in Markup /\ m.documentId = of(head) /\ m.revision = head.revision
        /\ m.placeholder = head.placeholder
    BY <2>1 DEF Markup
  <2>3. rememberMarkdown(of(head), m, FALSE) /\ awaits("ensure", m, NoPage) /\ Starts
    BY <1>4 DEF StartPrepared, of
  <2> HIDE DEF m
  <2>4. StartsWith(m, FALSE)
    BY <2>1, <2>2, <2>3 DEF StartsWith
  <2>5. QED
    BY <2>1, <2>2, <2>4
<1>5. QED
  BY <1>2, <1>3, <1>4

\* The starts that leave every store alone.
LEMMA PlainStarts ==
  ASSUME Sound, StartParse \/ StartInteract
  PROVE  /\ Sound' /\ Starting /\ Jobs' = Jobs
         /\ UNCHANGED <<client, imagesArrived, caches, page>>
         /\ reply' = NoReply
<1>1. /\ task = NoTask /\ queue # <<>>
      /\ queue' = Tail(queue) /\ UNCHANGED <<registry, client, imagesArrived, caches, page>>
      /\ reply' = NoReply
  BY DEF StartParse, StartInteract, Starts, awaits
<1>2. head \in Job /\ of(head) \in Documents /\ doc' = task'.job.ticket.documentId /\ job' = task'.job
  BY <1>1, HeadFacts DEF doc, job
<1>3. /\ task' \in Task /\ task'.job = head
      /\ TaskReady'
  <2>1. CASE StartParse
    <3>1. task' = [job |-> head, phase |-> "parse", markup |-> NoMarkup, frame |-> NoPage]
      BY <2>1 DEF StartParse, awaits
    <3>2. QED
      BY <1>2, <2>1, <3>1 DEF Task, TaskReady, StartParse
  <2>2. CASE StartInteract
    <3>1. /\ task' = [job |-> head, phase |-> "ensure", markup |-> cachedMarkup,
                      frame |-> frames[of(head)]]
          /\ of(head) \in DOMAIN frames /\ of(head) \in DOMAIN markdownCache
          /\ head.method = "interact"
      BY <2>2 DEF StartInteract, awaits, frameMatches, cached, of
    <3>2. cachedMarkup \in Markup /\ cachedMarkup.documentId = of(head) /\ frames[of(head)] \in Frame
      BY <3>1 DEF Sound, StoresTyped, cachedMarkup, of
    <3>3. QED
      BY <1>2, <3>1, <3>2 DEF Task, TaskReady, of
  <2>3. QED
    BY <2>1, <2>2
<1>4. Starting
  BY <1>1, <1>3 DEF Starting
<1>5. WorkSound' /\ Jobs' = Jobs
  BY <1>4, StartingFacts DEF Sound
<1>6. StoresTyped' /\ ClientTyped'
  BY <1>1 DEF Sound, StoresTyped, ClientTyped, caches, page, client
<1>7. QED
  BY <1>1, <1>3, <1>4, <1>5, <1>6 DEF Sound
-----------------------------------------------------------------------------
\* What is known of the job of the running task.
LEMMA RunningFacts ==
  ASSUME Sound, task # NoTask
  PROVE  /\ job \in Jobs /\ job \in Job /\ job = task.job
         /\ doc = of(job) /\ doc \in Documents
         /\ job.ticket \in outstanding
         /\ job.revision \in Revisions
         /\ task \in Task
         /\ job.method \in {"render", "render_prepared", "prepare", "capture", "interact"}
         /\ isContent(job) <=> job.method \in {"render", "render_prepared", "prepare"}
         /\ job.ticket.lane = "interact" <=> job.method = "interact"
<1>1. job \in Jobs /\ job = task.job /\ task \in Task
  BY DEF Jobs, job, Sound, WorkSound, WorkTyped
<1>2. job \in Job /\ of(job) \in Documents /\ job.ticket \in outstanding /\ job.revision \in Revisions
  BY <1>1, JobFacts DEF Sound
<1>3. job.method \in Methods
  BY <1>2 DEF Job
<1>4. job.ticket.lane \in laneOf(job.method)
  BY <1>1 DEF Sound, WorkSound, WorkTyped
<1>5. QED
  BY <1>1, <1>2, <1>3, <1>4, ServiceAssumption DEF laneOf, isContent, doc, of

\* The stretches after which the task goes on.
Continues == ParseRendered \/ UseLayout \/ LoadDocument \/ Loaded \/ Evaluated

\* What the parser returns is of the job's document and revision.
LEMMA ParsedFacts ==
  ASSUME Sound, task # NoTask
  PROVE  parsed \in Markup /\ parsed.documentId = doc /\ parsed.revision = job.revision
         /\ parsed.placeholder = (RemoteImages /\ ~imagesArrived)
<1>1. (RemoteImages /\ ~imagesArrived) \in BOOLEAN
  OBVIOUS
<1>2. QED
  BY <1>1, RunningFacts DEF parsed, Markup

\* A task past its parse has the key of a revision.
LEMMA KeyFacts ==
  ASSUME Sound, task # NoTask, task.phase \notin {"parse", "finish"}
  PROVE  taskKey \in Revisions
BY DEF Sound, TaskReady, taskKey, Markup, Frame

\* A task that goes on to its next await keeps its job.
LEMMA GoesOn ==
  ASSUME Sound, task # NoTask, UNCHANGED <<queue, registry>>,
         NEW p \in {"ensure", "load", "capture", "evaluate", "finish"},
         NEW m \in Markup \cup {NoMarkup},
         task' = [task EXCEPT !.phase = p, !.markup = m]
  PROVE  /\ Going /\ WorkSound' /\ Jobs' = Jobs /\ job' = job /\ doc' = doc
         /\ task' # NoTask /\ task'.phase = p /\ task'.markup = m /\ task'.frame = task.frame
<1>1. task \in Task
  BY RunningFacts
<1>2. /\ task' \in Task /\ task'.job = task.job
      /\ task'.phase = p /\ task'.markup = m /\ task'.frame = task.frame
  BY <1>1 DEF Task
<1>3. Going /\ task' # NoTask
  BY <1>2 DEF Going, Task, NoTask
<1>4. QED
  BY <1>2, <1>3, GoingFacts DEF Sound, job, doc

\* Every step within a task is such a one.
LEMMA ContinuesFacts ==
  ASSUME Sound, Continues
  PROVE  /\ Sound' /\ Going /\ Jobs' = Jobs /\ job' = job /\ doc' = doc
         /\ task # NoTask /\ task' # NoTask
         /\ UNCHANGED <<client, imagesArrived>>
         /\ reply' = NoReply
<1>1. /\ task # NoTask
      /\ UNCHANGED <<queue, registry, client, imagesArrived>>
      /\ reply' = NoReply
  BY DEF Continues, ParseRendered, UseLayout, LoadDocument, Loaded, Evaluated, Runs, goesOn, client
<1>2. ClientTyped'
  BY <1>1 DEF Sound, ClientTyped, client
<1>3. /\ task \in Task /\ doc \in Documents /\ job = task.job
      /\ job.revision \in Revisions
  BY <1>1, RunningFacts
<1>4. SUFFICES Going /\ WorkSound' /\ StoresTyped' /\ TaskReady' /\ Jobs' = Jobs
               /\ job' = job /\ doc' = doc /\ task' # NoTask
  BY <1>1, <1>2 DEF Sound
<1>5. CASE ParseRendered
  <2>1. /\ parsed \in Markup /\ parsed.documentId = doc
        /\ task' = [task EXCEPT !.phase = "ensure", !.markup = parsed]
        /\ job.method = "render"
    BY <1>1, <1>5, ParsedFacts DEF ParseRendered
  <2> DEFINE m == parsed
  <2>2. rememberMarkdown(doc, m, FALSE)
    BY <1>5 DEF ParseRendered
  <2>3. StoresTyped'
    BY <1>3, <2>1, <2>2, RememberEffect DEF Sound
  <2>4. PICK n \in Markup : n = parsed
    BY <2>1
  <2>5. /\ Going /\ WorkSound' /\ Jobs' = Jobs /\ job' = job /\ doc' = doc
        /\ task' # NoTask /\ task'.phase = "ensure" /\ task'.markup = n
    BY <1>1, <2>1, <2>4, GoesOn
  <2>6. TaskReady'
    BY <2>1, <2>4, <2>5 DEF TaskReady
  <2>7. QED
    BY <2>3, <2>5, <2>6
<1>6. ASSUME NEW p \in {"load", "capture", "evaluate"}, goesOn(p),
             task.phase \notin {"parse", "finish"},
             p = "capture" => job.method # "interact",
             p = "evaluate" => job.method = "interact"
      PROVE  Going /\ WorkSound' /\ TaskReady' /\ Jobs' = Jobs
             /\ job' = job /\ doc' = doc /\ task' # NoTask
  <2>1. PICK m \in Markup \cup {NoMarkup} : m = task.markup
    BY <1>3 DEF Task
  <2>2. task' = [task EXCEPT !.phase = p, !.markup = m]
    BY <1>3, <1>6, <2>1 DEF goesOn, Task
  <2>3. /\ Going /\ WorkSound' /\ Jobs' = Jobs /\ job' = job /\ doc' = doc
        /\ task' # NoTask /\ task'.phase = p /\ task'.markup = m /\ task'.frame = task.frame
    BY <1>1, <2>2, GoesOn
  <2>4. TaskReady'
    BY <1>1, <1>6, <2>1, <2>3 DEF Sound, TaskReady
  <2>5. QED
    BY <2>3, <2>4
<1>7. CASE UseLayout
  <2>1. /\ goesOn(IF job.method = "interact" THEN "evaluate" ELSE "capture")
        /\ task.phase = "ensure" /\ UNCHANGED <<caches, page>>
    BY <1>7 DEF UseLayout, Runs
  <2>2. StoresTyped'
    BY <2>1 DEF Sound, StoresTyped, caches, page
  <2>3. QED
    BY <1>6, <2>1, <2>2
<1>8. CASE LoadDocument
  <2>1. /\ goesOn("load") /\ task.phase = "ensure" /\ active' = NoPage
        /\ UNCHANGED <<caches, frames, frameOrder, dom>>
    BY <1>8 DEF LoadDocument, Runs
  <2>2. StoresTyped'
    BY <2>1 DEF Sound, StoresTyped, caches
  <2>3. QED
    BY <1>6, <2>1, <2>2
<1>9. CASE Loaded
  <2>1. /\ goesOn(IF job.method = "interact" THEN "evaluate" ELSE "capture")
        /\ task.phase = "load"
        /\ active' = [documentId |-> doc, contentRevision |-> job.revision, key |-> taskKey]
        /\ dom' = task.markup
        /\ UNCHANGED <<caches, frames, frameOrder>>
    BY <1>9 DEF Loaded, Runs
  <2>2. active' \in Page
    BY <1>1, <1>3, <2>1, KeyFacts DEF Page
  <2>3. dom' \in Markup \cup {NoMarkup}
    BY <1>3, <2>1 DEF Task
  <2>4. StoresTyped'
    BY <2>1, <2>2, <2>3 DEF Sound, StoresTyped, caches
  <2>5. QED
    BY <1>6, <2>1, <2>4
<1>10. CASE Evaluated
  <2>1. /\ task' = [task EXCEPT !.phase = "finish", !.markup = dom]
        /\ task.phase = "evaluate" /\ active # NoPage
        /\ UNCHANGED <<caches, page>>
    BY <1>10 DEF Evaluated, Runs
  <2>2. StoresTyped'
    BY <2>1 DEF Sound, StoresTyped, caches, page
  <2>3. PICK m \in Markup \cup {NoMarkup} : m = dom
    BY DEF Sound, StoresTyped
  <2>4. /\ Going /\ WorkSound' /\ Jobs' = Jobs /\ job' = job /\ doc' = doc
        /\ task' # NoTask /\ task'.phase = "finish" /\ task'.markup = m /\ task'.frame = task.frame
    BY <1>1, <2>1, <2>3, GoesOn
  <2>5. TaskReady'
    BY <1>1, <2>1, <2>4 DEF Sound, TaskReady
  <2>6. QED
    BY <2>2, <2>4, <2>5
<1>11. QED
  BY <1>5, <1>7, <1>8, <1>9, <1>10 DEF Continues
\* The last stretches, which answer the job.
Finishes == \/ DropStale \/ CaptureCacheMiss \/ InteractCacheMiss
            \/ ParsePrepared \/ Captured \/ InteractDone \/ InteractStale
            \/ LoadRejects \/ AwaitRejects

\* The answer of j is ok only if j is current, and stale only if it is not.
Tells(j) ==
  /\ reply'.job = j
  /\ reply'.status = "ok" => ~stale(j)
  /\ reply'.status = "stale" => stale(j)

\* A task that ends answers its job and tells whether it was overtaken.
LEMMA FinishesFacts ==
  ASSUME Sound, Finishes
  PROVE  /\ Sound'
         /\ task' = NoTask
         /\ UNCHANGED <<revision, imagesArrived>>
         /\ \E j : Answered(j) /\ Tells(j)
<1>1. UNCHANGED <<revision, imagesArrived>>
  BY DEF Finishes, DropStale, CaptureCacheMiss, InteractCacheMiss, ParsePrepared, Captured,
         InteractDone, InteractStale, LoadRejects, AwaitRejects, Runs, Starts, client
<1>2. ASSUME NEW j, NEW status, NEW m, answer(j, status, m),
             \/ task = NoTask /\ queue # <<>> /\ j = head /\ queue' = Tail(queue)
             \/ task # NoTask /\ j = task.job /\ queue' = queue,
             status = "ok" => ~stale(j), status = "stale" => stale(j)
      PROVE  WorkSound' /\ TaskReady' /\ task' = NoTask /\ \E k : Answered(k) /\ Tells(k)
  <2>1. Answered(j) /\ Tells(j) /\ task' = NoTask
    BY <1>2 DEF Answered, answer, Tells
  <2>2. QED
    BY <2>1, AnsweredFacts DEF Sound, TaskReady
<1>3. ASSUME UNCHANGED <<client, caches, page>>
      PROVE  StoresTyped' /\ ClientTyped'
  BY <1>1, <1>3 DEF Sound, StoresTyped, ClientTyped, caches, page, client
<1>4. SUFFICES WorkSound' /\ TaskReady' /\ StoresTyped' /\ ClientTyped' /\ task' = NoTask
               /\ \E j : Answered(j) /\ Tells(j)
  BY <1>1 DEF Sound
<1>o. /\ outcome = "ok" => ~stale(job)
      /\ outcome = "stale" => stale(job)
      /\ outcome \in {"ok", "stale"}
  BY DEF outcome, stale
<1>5. CASE DropStale
  <2>1. stale(head)
    BY <1>5, StaleIsBoolean DEF DropStale, current, stale
  <2>2. QED
    BY <1>2, <1>3, <1>5, <2>1 DEF DropStale
<1>6. CASE CaptureCacheMiss
  BY <1>2, <1>3, <1>6 DEF CaptureCacheMiss, Starts
<1>7. CASE InteractCacheMiss
  BY <1>2, <1>3, <1>7 DEF InteractCacheMiss, Starts
<1>8. CASE ParsePrepared
  <2>1. answer(job, outcome, parsed) /\ task # NoTask /\ queue' = queue /\ job = task.job
        /\ UNCHANGED <<client, caches, page>>
    BY <1>8 DEF ParsePrepared, Runs, job, client
  <2>2. QED
    BY <1>2, <1>3, <1>o, <2>1
<1>9. CASE Captured
  <2>1. /\ answer(job, outcome, task.markup) /\ task # NoTask /\ queue' = queue /\ job = task.job
        /\ rememberDocument(doc, [contentRevision |-> job.revision, key |-> taskKey])
        /\ UNCHANGED <<caches, active, dom>>
        /\ task.phase = "capture"
        /\ IF outcome = "ok" THEN sees(job) ELSE UNCHANGED rendererRevision
    BY <1>9 DEF Captured, Runs, job
  <2>2. /\ job.revision \in Revisions /\ doc \in Documents /\ taskKey \in Revisions
        /\ job.ticket.documentId \in Documents
    BY <2>1, RunningFacts, KeyFacts DEF of
  <2> DEFINE f == [contentRevision |-> job.revision, key |-> taskKey]
  <2>3. f \in Frame
    BY <2>2 DEF Frame
  <2>4. PICK g \in Frame : g = f
    BY <2>3
  <2>5. rememberDocument(doc, g)
    BY <2>1, <2>4
  <2>6. StoresTyped'
    BY <2>1, <2>2, <2>5, RecordEffect DEF Sound
  <2>7. ClientTyped'
    BY <1>1, <2>1, <2>2 DEF Sound, ClientTyped, sees
  <2>8. QED
    BY <1>2, <1>o, <2>1, <2>6, <2>7
<1>10. CASE InteractDone
  <2>1. /\ answer(job, "ok", task.markup) /\ task # NoTask /\ queue' = queue /\ job = task.job
        /\ outcome = "ok"
        /\ UNCHANGED <<client, markdownCache, cacheOrder, page>>
    BY <1>10 DEF InteractDone, Runs, job, client
  <2> DEFINE state == interactionStateFor(doc, job.revision)
             next == CASE job.action = "selection" -> [state EXCEPT !.selection = task.markup]
                       [] job.action = "find"      -> [state EXCEPT !.find = task.markup]
                       [] OTHER                    -> state
  <2>2. interactionState' = [e \in DOMAIN interactionState \cup {doc} |->
                               IF e = doc THEN next ELSE interactionState[e]]
    BY <1>10 DEF InteractDone
  <2>3. doc \in Documents /\ job.revision \in Revisions /\ task.markup \in Markup \cup {NoMarkup}
    BY <2>1, RunningFacts DEF Task
  <2>4. state \in Remembered
    BY <2>3 DEF interactionStateFor, Remembered, Sound, StoresTyped
  <2>5. next \in Remembered
    <3> HIDE DEF state
    <3>1. QED
      BY <2>3, <2>4 DEF Remembered
  <2> HIDE DEF next, state
  <2>6. StoresTyped'
    BY <2>1, <2>2, <2>3, <2>5 DEF Sound, StoresTyped, page
  <2>7. ClientTyped'
    BY <1>1, <2>1 DEF Sound, ClientTyped, client
  <2>8. QED
    BY <1>2, <1>o, <2>1, <2>6, <2>7
<1>11. CASE InteractStale
  <2>1. answer(job, "stale", task.markup) /\ task # NoTask /\ queue' = queue /\ job = task.job
        /\ outcome = "stale"
        /\ UNCHANGED <<client, caches, page>>
    BY <1>11 DEF InteractStale, Runs, job, client
  <2>2. QED
    BY <1>2, <1>3, <1>o, <2>1
<1>12. CASE LoadRejects
  <2>1. /\ answer(job, "error", NoMarkup) /\ task # NoTask /\ queue' = queue /\ job = task.job
        /\ dom' \in {dom, task.markup}
        /\ UNCHANGED <<client, caches, frames, frameOrder, active>>
    BY <1>12 DEF LoadRejects, Runs, job, client
  <2>2. dom' \in Markup \cup {NoMarkup}
    BY <2>1, RunningFacts DEF Sound, StoresTyped, Task
  <2>3. StoresTyped' /\ ClientTyped'
    BY <1>1, <2>1, <2>2 DEF Sound, StoresTyped, ClientTyped, caches, client
  <2>4. QED
    BY <1>2, <2>1, <2>3
<1>13. CASE AwaitRejects
  <2>1. answer(job, "error", NoMarkup) /\ task # NoTask /\ queue' = queue /\ job = task.job
        /\ UNCHANGED <<client, caches, page>>
    BY <1>13 DEF AwaitRejects, Runs, job, client
  <2>2. QED
    BY <1>2, <1>3, <2>1
<1>14. QED
  BY <1>5, <1>6, <1>7, <1>8, <1>9, <1>10, <1>11, <1>12, <1>13 DEF Finishes

\* Every step is one of these.
LEMMA StepCases ==
  ASSUME Sound, Next
  PROVE  \/ \E d \in Documents : Refused(d) \/ Forget(d) \/ Edit(d)
         \/ \E d \in Documents : \E j :
              /\ Admitted(j) /\ of(j) = d
              /\ \/ j.method \in {"render", "render_prepared", "prepare"} /\ j.revision = revision[d]
                 \/ j.method = "capture" /\ j.revision = revision[d] /\ rendererRevision[d] = j.revision
                 \/ j.method = "interact" /\ rendererRevision[d] = j.revision
         \/ ImagesArrive
         \/ StartReused \/ StartPrepared \/ StartCapture
         \/ StartParse \/ StartInteract
         \/ Continues
         \/ Finishes
<1>1. CASE \E d \in Documents : Render(d) \/ Capture(d) \/ Interact(d)
  BY <1>1, RequestCases
<1>2. CASE ~ \E d \in Documents : Render(d) \/ Capture(d) \/ Interact(d)
  BY <1>2 DEF Next, Client, Start, Continue, Continues, Finishes
<1>3. QED
  BY <1>1, <1>2

\* The service starts sound.
LEMMA InitSound == Init => Sound
<1>1. SUFFICES ASSUME Init PROVE Sound
  OBVIOUS
<1>2. RP!Init
  BY <1>1 DEF Init, Registry!Init, RP!Init
<1>3. RegistrySound
  BY <1>2, RegistryAssumption, RP!InitIInv, RP!InitTraceable DEF RegistrySound
<1>4. /\ DOMAIN queue = {} /\ DOMAIN cacheOrder = {} /\ DOMAIN frameOrder = {}
      /\ DOMAIN markdownCache = {} /\ DOMAIN frames = {} /\ DOMAIN interactionState = {}
      /\ queue \in Seq(Job) /\ cacheOrder \in Seq(Documents) /\ frameOrder \in Seq(Documents)
      /\ task = NoTask /\ outstanding = {}
  BY <1>1 DEF Init, Registry!Init
<1>5. WorkSound
  BY <1>3, <1>4 DEF WorkSound, WorkTyped, FirstInFirstOut, inFlight, Jobs
<1>6. StoresTyped
  BY <1>1, <1>4 DEF StoresTyped, Init, Range, Distinct
<1>7. ClientTyped /\ TaskReady
  <2>1. 1 \in Revisions
    BY ServiceAssumption DEF Revisions
  <2>2. QED
    BY <1>1, <1>4, <2>1 DEF Init, ClientTyped, TaskReady
<1>8. QED
  BY <1>5, <1>6, <1>7 DEF Sound

\* Every step keeps it sound.
LEMMA NextSound == Sound /\ [Next]_vars => Sound'
<1>1. SUFFICES ASSUME Sound, [Next]_vars PROVE Sound'
  OBVIOUS
<1>2. CASE UNCHANGED vars
  <2>1. UNCHANGED <<registry, queue, task, caches, page>> /\ ClientTyped'
    BY <1>1, <1>2 DEF vars, Sound, ClientTyped, client
  <2>2. QED
    BY <1>1, <2>1, QuietFacts
<1>3. ASSUME NEW d \in Documents, Refused(d) \/ Forget(d) \/ Edit(d)
      PROVE  Sound'
  BY <1>1, <1>3, RefusedFacts, ForgetFacts, EditFacts
<1>4. ASSUME StartReused \/ StartPrepared \/ StartCapture
      PROVE  Sound'
  <2>1. PICK m : \E reused \in BOOLEAN : StartsWith(m, reused)
    BY <1>1, <1>4, StoringStarts
  <2>2. QED
    BY <1>1, <2>1, StartsWithFacts
<1>5. CASE Next
  BY <1>1, <1>3, <1>4, <1>5, StepCases, AdmittedFacts, ImagesFacts, PlainStarts, ContinuesFacts, FinishesFacts
<1>6. QED
  BY <1>1, <1>2, <1>5

\* Registry, queue, task and stores are sound in every reachable state: tickets
\* outstanding are those of the jobs waiting or running, in the order of their serials,
\* and every store holds what its key says (service.js admit, enqueue, stores).
THEOREM SpecSound == Spec => []Sound
BY InitSound, NextSound, PTL DEF Spec
-----------------------------------------------------------------------------
(***************************************************************************)
(* The service keeps the promise of the lanes.                             *)
(***************************************************************************)

\* What is in flight in the service is what is outstanding in the registry.
SamePromise ==
  /\ {Registry!request(t) : t \in inFlight} = {RP!request(t) : t \in outstanding}
  /\ {Registry!request(t) : t \in {u \in inFlight : Registry!isStale(u)}}
       = {RP!request(t) : t \in {u \in outstanding : RP!isStale(u)}}

\* It is, and so the promise's variables are read alike in both.
LEMMA SoundSame == Sound => SamePromise
<1> SUFFICES ASSUME Sound PROVE SamePromise
  OBVIOUS
<1>1. \A t : Registry!request(t) = RP!request(t)
  BY DEF Registry!request, RP!request
<1>2. inFlight = outstanding
  BY DEF Sound, WorkSound
<1>3. QED
  BY <1>1, <1>2, SameStaleness DEF SamePromise

\* A step of the service is one of its registry, or leaves it alone.
LEMMA RegistryStep ==
  ASSUME Sound, [Next]_vars
  PROVE  [RP!Next]_(RP!vars)
<1>1. /\ Registry!LaneNames = RP!LaneNames
      /\ \A d \in Documents, l \in RP!LaneNames, rev \in Revisions :
           RP!admit(d, l, rev) \/ RP!refuse(d, l, rev) => RP!Next
      /\ \A t \in outstanding : RP!release(t) => RP!Next
      /\ \A d \in Documents : RP!forget(d) => RP!Next
  BY DEF RP!Next, Registry!LaneNames, RP!LaneNames
<1>2. UNCHANGED registry => UNCHANGED RP!vars
  BY DEF registry, RP!vars
<1>3. CASE UNCHANGED vars
  BY <1>2, <1>3 DEF vars
<1>4. ASSUME NEW j, Admitted(j)
      PROVE  RP!Next
  <2>1. /\ of(j) \in Documents /\ j.ticket.lane \in Registry!LaneNames /\ j.revision \in Revisions
        /\ Registry!admit(of(j), j.ticket.lane, j.revision)
    BY <1>4 DEF Admitted, Arrives, Job, Registry!Ticket, of
  <2>2. RP!admit(of(j), j.ticket.lane, j.revision)
    BY <2>1, SameOperations
  <2>3. QED
    BY <1>1, <2>1, <2>2
<1>5. ASSUME NEW d \in Documents, Refused(d)
      PROVE  RP!Next
  <2>1. PICK l \in Registry!LaneNames, rev \in Revisions : Registry!refuse(d, l, rev)
    BY <1>5 DEF Refused
  <2>2. RP!refuse(d, l, rev)
    BY <2>1, SameOperations
  <2>3. QED
    BY <1>1, <2>1, <2>2
<1>6. ASSUME NEW d \in Documents, Forget(d)
      PROVE  RP!Next
  <2>1. RP!forget(d)
    BY <1>6, SameOperations DEF Forget
  <2>2. QED
    BY <1>1, <2>1
<1>7. ASSUME NEW j, Answered(j)
      PROVE  RP!Next
  <2>1. j.ticket \in outstanding
    BY <1>7, AnsweredFacts, JobFacts DEF Sound
  <2>2. RP!release(j.ticket)
    BY <1>7, SameOperations DEF Answered
  <2>3. QED
    BY <1>1, <2>1, <2>2
<1>8. (\E d \in Documents : Edit(d)) \/ ImagesArrive => UNCHANGED registry
  BY DEF Edit, ImagesArrive
<1>9. StartReused \/ StartPrepared \/ StartCapture \/ StartParse \/ StartInteract => UNCHANGED registry
  BY DEF StartReused, StartPrepared, StartCapture, StartParse, StartInteract, awaits
<1>10. Continues => UNCHANGED registry
  BY ContinuesFacts DEF Going
<1>11. Finishes => RP!Next
  BY <1>7, FinishesFacts
<1>12. CASE Next
  BY <1>2, <1>4, <1>5, <1>6, <1>8, <1>9, <1>10, <1>11, <1>12, StepCases
<1>13. QED
  BY <1>3, <1>12

\* The first state maps to a first state of the promise.
LEMMA InitPromise == Init => Promise!Init
BY DEF Init, Promise!Init, inFlight, Registry!Init

\* Every step maps to a step of the promise or to a stutter.
LEMMA NextPromise == Sound /\ Sound' /\ [Next]_vars => [Promise!Next]_(Promise!vars)
<1>1. SUFFICES ASSUME Sound, Sound', [Next]_vars
               PROVE  [Promise!Next]_(Promise!vars)
  OBVIOUS
<1>2. [RP!Rule!Next]_(RP!Rule!vars)
  <2>1. RP!IInv /\ RP!IInv'
    BY <1>1 DEF Sound, WorkSound, RegistrySound
  <2>2. QED
    BY <1>1, <2>1, RegistryStep, RegistryAssumption, RP!NextRefines
<1>3. SamePromise
  BY <1>1, SoundSame
<1>4. SamePromise'
  BY <1>1, SoundSame, PTL
<1>5. QED
  BY <1>2, <1>3, <1>4, ZenonT(60)
  DEF SamePromise, Promise!Next, Promise!vars, Promise!Arrive, Promise!Lose, Promise!Leave,
      Promise!CancelledBy, Promise!OfDocuments, Promise!Request, Promise!LaneNames,
      RP!Rule!Next, RP!Rule!vars, RP!Rule!Arrive, RP!Rule!Lose, RP!Rule!Leave,
      RP!Rule!CancelledBy, RP!Rule!OfDocuments, RP!Rule!Request, RP!Rule!LaneNames

\* The service as a whole implements latest-wins: what was overtaken while it waited
\* is answered stale and nothing else is, for any documents, limits and evictions
\* (service.js enqueue, admitted; lanes.js).
THEOREM ServiceKeepsThePromise == Spec => KeepsThePromise
BY SpecSound, InitPromise, NextPromise, PTL DEF Spec, KeepsThePromise, Promise!Spec
-----------------------------------------------------------------------------
(***************************************************************************)
(* A request is refused as stale exactly if it was overtaken.              *)
(***************************************************************************)

\* Whatever was issued after the job that is served is still in flight.
LEMMA LaterInFlight ==
  ASSUME Sound, NEW j, Answered(j), NEW n \in j.ticket.serial + 1 .. serial
  PROVE  \E u \in outstanding' : u.serial = n
<1>1. /\ queue \in Seq(Job) /\ serial \in Nat /\ j \in Jobs
      /\ Jobs' = Jobs \ {j} /\ outstanding' = outstanding \ {j.ticket}
  <2>1. queue \in Seq(Job) /\ serial \in Nat /\ j \in Jobs /\ Jobs' = Jobs \ {j}
    BY AnsweredFacts, JobFacts DEF Sound, WorkSound, WorkTyped
  <2>2. Registry!release(j.ticket)
    BY DEF Answered
  <2>3. outstanding' = outstanding \ {j.ticket}
    BY <2>2 DEF Registry!release
  <2>4. QED
    BY <2>1, <2>3
<1>2. DOMAIN queue = 1 .. Len(queue) /\ Len(queue) \in Nat
  BY <1>1
<1>3. /\ \A k \in Jobs : k.ticket \in outstanding /\ k.ticket.serial \in Nat
      /\ \A i \in 1 .. Len(queue) : queue[i] \in Jobs /\ queue[i].ticket.serial + Len(queue) = serial + i
      /\ task # NoTask => task.job.ticket.serial + Len(queue) = serial
  BY <1>2, JobFacts DEF Jobs, Sound, WorkSound, FirstInFirstOut
<1>4. PICK base \in {0, 1} : j.ticket.serial + Len(queue) = serial + base
  <2>1. CASE task # NoTask /\ j = task.job
    <3>1. j.ticket.serial + Len(queue) = serial + 0
      BY <1>1, <1>3, <2>1
    <3>2. QED
      BY <3>1
  <2>2. CASE queue # <<>> /\ j = head
    <3>1. j = queue[1] /\ 1 \in 1 .. Len(queue)
      BY <1>1, <1>2, <2>2 DEF head
    <3>2. QED
      BY <1>3, <3>1
  <2>3. QED
    BY <2>1, <2>2 DEF Answered
<1>5. j.ticket.serial \in Nat
  BY <1>1, <1>3
<1> DEFINE i == n + Len(queue) - serial
<1>6. i \in 1 .. Len(queue)
  BY <1>1, <1>2, <1>4, <1>5, SMTT(30)
<1>7. queue[i].ticket.serial = n
  <2>1. queue[i].ticket.serial + Len(queue) = serial + i /\ queue[i].ticket.serial \in Nat
    BY <1>3, <1>6
  <2>2. n \in Nat
    BY <1>1, <1>5
  <2>3. i + serial = n + Len(queue) /\ i \in Nat
    BY <1>1, <1>2, <1>6, <2>2
  <2> HIDE DEF i
  <2>4. QED
    BY <1>1, <1>2, <2>1, <2>2, <2>3
<1> HIDE DEF i
<1>8. queue[i].ticket # j.ticket
  BY <1>1, <1>5, <1>7
<1>9. queue[i].ticket \in outstanding
  BY <1>3, <1>6
<1>10. QED
  BY <1>1, <1>7, <1>8, <1>9

\* An answer says stale exactly if something overtook its request.
LEMMA FinishesStaleness ==
  ASSUME Sound, Finishes
  PROVE  StaleExactlyIfOvertaken'
<1>1. PICK j : Answered(j) /\ Tells(j)
  BY FinishesFacts
<1>2. /\ RegistrySound /\ j.ticket \in outstanding /\ serial \in Nat
      /\ Registry!release(j.ticket) /\ reply'.job = j
  BY <1>1, AnsweredFacts, JobFacts DEF Sound, WorkSound, Answered, Tells
<1>3. /\ outstanding' = outstanding \ {j.ticket}
      /\ DOMAIN documents' = DOMAIN documents
      /\ \A e \in DOMAIN documents : documents'[e].lanes = documents[e].lanes
  BY <1>2, ReleaseEffect
<1>4. OkIsNewest'
  <2>1. SUFFICES ASSUME reply'.status = "ok", NEW u \in outstanding',
                        u.documentId = j.ticket.documentId, u.serial > j.ticket.serial,
                        u.lane \in {j.ticket.lane, "content"}
                 PROVE  FALSE
    BY <1>2 DEF OkIsNewest
  <2>2. ~stale(j)
    BY <1>1, <2>1 DEF Tells
  <2>3. RP!isStale(j.ticket)
    BY <1>2, <1>3, <2>1 DEF RegistrySound, RP!Traceable, RP!OvertakenIsStale, RP!overtakes
  <2>4. QED
    BY <2>2, <2>3, SameStaleness DEF stale
<1>5. StaleOnlyIfCancelled'
  <2> DEFINE t == j.ticket
  <2>1. SUFFICES ASSUME reply'.status = "stale",
                        t.documentId \in DOMAIN documents,
                        ~(documents[t.documentId].lanes[t.lane] < t.serial)
                 PROVE  \E u \in outstanding' : /\ u.documentId = t.documentId
                                                /\ u.serial > t.serial
                                                /\ u.lane \in {t.lane, "content"}
    BY <1>2, <1>3 DEF StaleOnlyIfCancelled
  <2>2. RP!isStale(t)
    BY <1>1, <2>1, SameStaleness DEF Tells, stale
  <2>3. PICK l \in {t.lane, "content"} :
               documents[t.documentId].lanes[l] \in t.serial + 1 .. serial
    BY <1>2, <2>1, <2>2, RegistryAssumption, RP!StaleHasCause DEF RegistrySound
  <2>4. PICK u \in outstanding' : u.serial = documents[t.documentId].lanes[l]
    BY <1>1, <2>3, LaterInFlight
  <2>5. u \in outstanding /\ l \in RP!LaneNames
    BY <1>2, <1>3, <2>3, <2>4 DEF RegistrySound, RP!IInv, RP!TypeOK, RP!Ticket, RP!LaneNames
  <2>6. u.documentId = t.documentId /\ u.lane = l
    BY <1>2, <2>1, <2>4, <2>5 DEF RegistrySound, RP!Traceable, RP!LanesShowTickets
  <2>7. u.serial > t.serial
    <3>1. t.serial \in Nat
      BY <1>2 DEF RegistrySound, RP!IInv, RP!TypeOK, RP!Ticket
    <3>2. QED
      BY <1>2, <2>3, <2>4, <3>1
  <2>8. QED
    BY <2>3, <2>6, <2>7
<1>6. QED
  BY <1>4, <1>5 DEF StaleExactlyIfOvertaken

\* Only a step that finishes a task answers ok or stale.
LEMMA OnlyFinishesAnswer ==
  ASSUME Sound, Next, ~Finishes
  PROVE  reply'.status \notin {"ok", "stale"}
<1>1. reply' = NoReply => reply'.status \notin {"ok", "stale"}
  BY DEF NoReply
<1>2. \A d \in Documents : Refused(d) => reply'.status \notin {"ok", "stale"}
  BY DEF Refused
<1>3. \A d \in Documents : Forget(d) \/ Edit(d) => reply' = NoReply
  BY DEF Forget, Edit
<1>4. \A j : Admitted(j) => reply' = NoReply
  BY DEF Admitted
<1>5. ImagesArrive \/ StartReused \/ StartPrepared \/ StartCapture => reply' = NoReply
  BY DEF ImagesArrive, StartReused, StartPrepared, StartCapture, awaits
<1>6. QED
  BY <1>1, <1>2, <1>3, <1>4, <1>5, StepCases, PlainStarts, ContinuesFacts

\* For every number of documents and requests: an answer is refused as stale only
\* if its request was overtaken by one still to be answered or lost its document,
\* and none is given as ok once its request was overtaken.
THEOREM StaleExactlyIfOvertakenHolds == Spec => []StaleExactlyIfOvertaken
<1>1. Init => StaleExactlyIfOvertaken
  BY DEF Init, NoReply, StaleExactlyIfOvertaken, OkIsNewest, StaleOnlyIfCancelled
<1>2. Sound /\ StaleExactlyIfOvertaken /\ [Next]_vars => StaleExactlyIfOvertaken'
  <2>1. SUFFICES ASSUME Sound, StaleExactlyIfOvertaken, [Next]_vars
                 PROVE  StaleExactlyIfOvertaken'
    OBVIOUS
  <2>2. CASE UNCHANGED vars
    BY <2>1, <2>2 DEF vars, registry, StaleExactlyIfOvertaken, OkIsNewest, StaleOnlyIfCancelled
  <2>3. CASE Next /\ Finishes
    BY <2>1, <2>3, FinishesStaleness
  <2>4. CASE Next /\ ~Finishes
    BY <2>1, <2>4, OnlyFinishesAnswer DEF StaleExactlyIfOvertaken, OkIsNewest, StaleOnlyIfCancelled
  <2>5. QED
    BY <2>1, <2>2, <2>3, <2>4
<1>3. QED
  BY <1>1, <1>2, SpecSound, PTL DEF Spec

-----------------------------------------------------------------------------
(***************************************************************************)
(* Revisions.  The sessions ask in the order of their buffers' revisions,  *)
(* the queue serves in that order, and so every store is behind whatever   *)
(* is still waiting: what a task finds cached is of its own revision or    *)
(* makes it miss.                                                          *)
(***************************************************************************)
draws(j) == j.method # "interact"

\* The requests that draw name revisions that never go back, the buffer's the last.
AskedInOrder ==
  \A j \in Jobs : draws(j) =>
    /\ j.revision <= revision[of(j)]
    /\ \A k \in Jobs : draws(k) /\ of(k) = of(j) /\ earlier(j, k) => j.revision <= k.revision

\* Nothing kept of document d is of a later revision than r.
Behind(d, r) ==
  /\ d \in DOMAIN markdownCache => markdownCache[d].revision <= r
  /\ d \in DOMAIN frames => frames[d].contentRevision <= r
  /\ rendererRevision[d] # NoRevision => rendererRevision[d] <= r

StoresBehind ==
  /\ \A d \in Documents : Behind(d, revision[d])
  /\ \A j \in Jobs : draws(j) => Behind(of(j), j.revision)

\* The registry has let a content request of revision r, or of a later one, in.
overtaken(d, r) ==
  /\ d \in DOMAIN documents
  /\ documents[d].revision # NoRevision
  /\ documents[d].revision >= r

\* The session saw nothing newer than the markup, and a frame older than the
\* markup is on its way to be replaced.
Coherent(d) ==
  /\ d \in DOMAIN markdownCache /\ rendererRevision[d] # NoRevision =>
       rendererRevision[d] <= markdownCache[d].revision
  /\ d \in DOMAIN frames => frames[d].key = frames[d].contentRevision
  /\ d \in DOMAIN frames /\ d \in DOMAIN markdownCache =>
       /\ frames[d].contentRevision <= markdownCache[d].revision
       /\ \/ frames[d].contentRevision = markdownCache[d].revision
          \/ overtaken(d, markdownCache[d].revision)

StoresCoherent == \A d \in Documents : Coherent(d)

\* A request that is not stale names the revision the registry holds.
Current ==
  \A j \in Jobs : ~stale(j) =>
    /\ isContent(j) => documents[of(j)].revision = j.revision
    /\ ~isContent(j) => documents[of(j)].revision \in {NoRevision, j.revision}
    /\ j.method = "capture" => rendererRevision[of(j)] = j.revision

own(m, j) == m \in Markup /\ m.documentId = of(j) /\ m.revision = j.revision

\* A task that is past its parse works on markup of its own revision.
TaskOwn ==
  task # NoTask =>
    /\ task.phase = "parse" /\ doc \in DOMAIN frames => overtaken(doc, job.revision)
    /\ task.phase # "parse" =>
         /\ own(task.markup, job)
         /\ draws(job) /\ doc \in DOMAIN markdownCache => markdownCache[doc].revision = job.revision
         /\ ~draws(job) =>
              /\ task.frame.contentRevision = job.revision /\ task.frame.key = job.revision
              /\ stale(job) \/ (doc \in DOMAIN markdownCache /\ markdownCache[doc].revision = job.revision)
    /\ task.phase = "load" => active = NoPage
    /\ task.phase \in {"capture", "evaluate"} /\ active # NoPage =>
         active.documentId = doc /\ active.key = job.revision

\* The page holds the markup its layout was measured from.
PageIsActive ==
  active # NoPage =>
    /\ dom.documentId = active.documentId
    /\ dom.revision = active.key
    /\ dom \in Markup

RevisionsSound ==
  AskedInOrder /\ StoresBehind /\ StoresCoherent /\ Current /\ TaskOwn /\ PageIsActive

\* Revisions are numbers, and the absence of one is none of them.
LEMMA RevisionFacts ==
  /\ Revisions \subseteq Nat
  /\ NoRevision \notin Revisions
BY ServiceAssumption DEF Revisions

\* The registry's records name revisions too.
LEMMA RecordRevision ==
  ASSUME RegistrySound, NEW d \in DOMAIN documents
  PROVE  documents[d].revision \in Revisions \cup {NoRevision}
<1>1. documents[d] \in RP!Record
  BY DEF RegistrySound, RP!IInv, RP!TypeOK
<1>2. QED
  BY <1>1 DEF RP!Record

\* Revisions of what the stores hold.
LEMMA StoredRevisions ==
  ASSUME Sound
  PROVE  /\ \A d \in DOMAIN markdownCache : markdownCache[d].revision \in Revisions
         /\ \A d \in DOMAIN frames : frames[d].contentRevision \in Revisions
         /\ \A d \in Documents : /\ revision[d] \in Revisions
                                 /\ rendererRevision[d] # NoRevision => rendererRevision[d] \in Revisions
<1>1. \A d \in DOMAIN markdownCache : markdownCache[d].revision \in Revisions
  BY DEF Sound, StoresTyped, Markup
<1>2. \A d \in DOMAIN frames : frames[d].contentRevision \in Revisions
  BY DEF Sound, StoresTyped, Frame
<1>3. QED
  BY <1>1, <1>2 DEF Sound, ClientTyped

\* What is behind a revision is behind any later one.
LEMMA BehindGrows ==
  ASSUME Sound, NEW d \in Documents, NEW r \in Revisions, NEW s \in Revisions,
         Behind(d, r), r <= s
  PROVE  Behind(d, s)
<1>1. r \in Nat /\ s \in Nat
  BY RevisionFacts
<1>2. d \in DOMAIN markdownCache => markdownCache[d].revision \in Nat
  BY StoredRevisions, RevisionFacts
<1>3. d \in DOMAIN frames => frames[d].contentRevision \in Nat
  BY StoredRevisions, RevisionFacts
<1>4. rendererRevision[d] # NoRevision => rendererRevision[d] \in Nat
  BY StoredRevisions, RevisionFacts
<1>5. QED
  BY <1>1, <1>2, <1>3, <1>4 DEF Behind

\* What a step may lose of the stores, and of what the session has seen.
Shrinks ==
  /\ \A e \in DOMAIN markdownCache' : e \in DOMAIN markdownCache /\ markdownCache'[e] = markdownCache[e]
  /\ \A e \in DOMAIN frames' : e \in DOMAIN frames /\ frames'[e] = frames[e]
  /\ \A e \in Documents : rendererRevision'[e] \in {rendererRevision[e], NoRevision}
  /\ active' \in {active, NoPage} /\ dom' = dom

\* What loses entries stays behind the revisions it was behind.
LEMMA ShrunkBehind ==
  ASSUME Shrinks, NEW d \in Documents, NEW r, Behind(d, r)
  PROVE  Behind(d, r)'
BY DEF Shrinks, Behind

\* And leave a document coherent.
LEMMA ShrunkCoherent ==
  ASSUME Shrinks, NEW d \in Documents, Coherent(d),
         d \in DOMAIN markdownCache' =>
           \A r : r = markdownCache[d].revision /\ overtaken(d, r) => overtaken(d, r)'
  PROVE  Coherent(d)'
<1>1. d \in DOMAIN markdownCache' => markdownCache'[d].revision = markdownCache[d].revision
  BY DEF Shrinks
<1>2. d \in DOMAIN frames' => frames'[d] = frames[d] /\ d \in DOMAIN frames
  BY DEF Shrinks
<1>3. d \in DOMAIN markdownCache' => d \in DOMAIN markdownCache
  BY DEF Shrinks
<1>4. d \in DOMAIN markdownCache' /\ overtaken(d, markdownCache[d].revision)
        => overtaken(d, markdownCache[d].revision)'
  BY <1>1, <1>3 DEF overtaken
<1>5. rendererRevision'[d] # NoRevision => rendererRevision'[d] = rendererRevision[d]
  BY DEF Shrinks
<1>6. QED
  BY <1>1, <1>2, <1>3, <1>4, <1>5 DEF Coherent

\* A refusal, forget or admission only takes entries from the stores.
LEMMA LossShrinks ==
  ASSUME Sound
  PROVE  /\ \A d \in Documents : Refused(d) \/ Forget(d) => Shrinks
         /\ \A j : Admitted(j) => Shrinks
<1>1. ASSUME NEW D, \A a, b \in D : a = b, forgetDocument(D),
             \A e \in Documents : rendererRevision'[e] \in {rendererRevision[e], NoRevision}
      PROVE  Shrinks
  BY <1>1, LossEffect DEF Sound, Shrinks
<1>2. ASSUME NEW d \in Documents, Refused(d)
      PROVE  Shrinks
  BY <1>1, <1>2, EvictsOne DEF Refused, client, Sound, WorkSound
<1>3. ASSUME NEW d \in Documents, Forget(d)
      PROVE  Shrinks
  <2>1. \A e \in Documents : rendererRevision'[e] \in {rendererRevision[e], NoRevision}
    BY <1>3 DEF Forget, Sound, ClientTyped
  <2>2. QED
    BY <1>1, <1>3, <2>1 DEF Forget
<1>4. ASSUME NEW j, Admitted(j)
      PROVE  Shrinks
  <2>1. of(j) \in Documents
    BY <1>4 DEF Admitted, Arrives, Job, Registry!Ticket, of
  <2>2. QED
    BY <1>1, <1>4, <2>1, EvictsOne DEF Admitted, client, Sound, WorkSound
<1>5. QED
  BY <1>2, <1>3, <1>4

\* What a job that is not stale knows of its record.
LEMMA FreshFacts ==
  ASSUME NEW j, ~stale(j)
  PROVE  of(j) \in DOMAIN documents
BY DEF stale, of, Registry!isStale, Registry!forgotten

\* What becomes of the records, and of the staleness of the jobs in flight, when a
\* request is refused, admitted, or a document forgotten.
Recorded(d) ==
  /\ \A k \in Jobs : stale(k) => stale(k)'
  /\ \A k \in Jobs : ~stale(k)' => of(k) \in DOMAIN documents'
  /\ \A k \in Jobs : ~stale(k)' /\ of(k) \in DOMAIN markdownCache => of(k) \in DOMAIN markdownCache'
  /\ \A e \in DOMAIN documents \ {d} :
       \/ e \in DOMAIN documents' /\ documents'[e] = documents[e]
       \/ e \notin DOMAIN documents' \cup DOMAIN markdownCache' \cup DOMAIN frames'
  /\ \A e \in DOMAIN documents' \ {d} : e \in DOMAIN documents

\* And this is what each leaves of its own document.
LEMMA LossRecords ==
  ASSUME Sound
  PROVE  /\ \A d \in Documents : Refused(d) => /\ Recorded(d)
                                               /\ d \in DOMAIN documents => d \in DOMAIN documents' /\ documents'[d] = documents[d]
         /\ \A d \in Documents : Forget(d) => Recorded(d) /\ d \notin DOMAIN documents' \cup DOMAIN markdownCache' \cup DOMAIN frames'
         /\ \A j : Admitted(j) =>
              /\ Recorded(of(j))
              /\ of(j) \in DOMAIN documents'
              /\ documents'[of(j)].revision =
                   IF isContent(j) THEN j.revision
                   ELSE IF of(j) \in DOMAIN documents THEN documents[of(j)].revision ELSE NoRevision
              /\ ~isContent(j) => documents'[of(j)].revision \in {NoRevision, j.revision}
              /\ \A k \in Jobs : of(k) = of(j) /\ isContent(j) => stale(k)'
<1>j. \A k \in Jobs : k.ticket \in outstanding /\ of(k) = k.ticket.documentId
  BY JobFacts DEF Sound, of
<1>f. \A k \in Jobs : ~stale(k)' => of(k) \in DOMAIN documents'
  BY DEF stale, of, Registry!isStale, Registry!forgotten
<1>1. ASSUME NEW d \in Documents, Refused(d)
      PROVE  /\ Recorded(d)
             /\ d \in DOMAIN documents => d \in DOMAIN documents' /\ documents'[d] = documents[d]
  <2>1. PICK l \in Registry!LaneNames, rev \in Revisions : Registry!refuse(d, l, rev)
    BY <1>1 DEF Refused
  <2>2. /\ \A t \in outstanding :
             Registry!isStale(t) \/ t.documentId \in Registry!evictedBy(d) => Registry!isStale(t)'
        /\ d \notin Registry!evictedBy(d)
        /\ DOMAIN documents' = (DOMAIN documents \ Registry!evictedBy(d)) \cup {d}
        /\ \A e \in DOMAIN documents' :
             \/ e \in DOMAIN documents /\ documents'[e] = documents[e]
             \/ e = d /\ d \notin DOMAIN documents
    BY <2>1, RefuseEffect DEF Sound, WorkSound
  <2>3. forgetDocument(Registry!evictedBy(d))
    BY <1>1 DEF Refused
  <2>4. /\ DOMAIN markdownCache' = DOMAIN markdownCache \ Registry!evictedBy(d)
        /\ DOMAIN frames' = DOMAIN frames \ Registry!evictedBy(d)
    BY <2>3, EvictsOne, LossEffect DEF Sound, WorkSound
  <2>5. \A k \in Jobs : stale(k) \/ of(k) \in Registry!evictedBy(d) => stale(k)'
    BY <1>j, <2>2 DEF stale
  <2>6. QED
    BY <1>f, <2>2, <2>4, <2>5 DEF Recorded
<1>2. ASSUME NEW d \in Documents, Forget(d)
      PROVE  Recorded(d) /\ d \notin DOMAIN documents' \cup DOMAIN markdownCache' \cup DOMAIN frames'
  <2>1. Registry!forget(d) /\ forgetDocument({d})
    BY <1>2 DEF Forget
  <2>2. /\ \A t \in outstanding : Registry!isStale(t) \/ t.documentId = d => Registry!isStale(t)'
        /\ DOMAIN documents' = DOMAIN documents \ {d}
        /\ \A e \in DOMAIN documents' : documents'[e] = documents[e]
    BY <2>1, ForgetEffect DEF Sound, WorkSound
  <2>3. /\ DOMAIN markdownCache' = DOMAIN markdownCache \ {d}
        /\ DOMAIN frames' = DOMAIN frames \ {d}
    BY <2>1, LossEffect DEF Sound
  <2>5. \A k \in Jobs : stale(k) \/ of(k) = d => stale(k)'
    BY <1>j, <2>2 DEF stale
  <2>6. QED
    BY <1>f, <2>2, <2>3, <2>5 DEF Recorded
<1>3. ASSUME NEW j, Admitted(j)
      PROVE  /\ Recorded(of(j))
             /\ of(j) \in DOMAIN documents'
             /\ documents'[of(j)].revision =
                  IF isContent(j) THEN j.revision
                  ELSE IF of(j) \in DOMAIN documents THEN documents[of(j)].revision ELSE NoRevision
             /\ ~isContent(j) => documents'[of(j)].revision \in {NoRevision, j.revision}
             /\ \A k \in Jobs : of(k) = of(j) /\ isContent(j) => stale(k)'
  <2> DEFINE d == of(j)
             D == Registry!evictedBy(d)
  <2>1. /\ d \in Documents /\ j.ticket.lane \in Registry!LaneNames /\ j.revision \in Revisions
        /\ Registry!admit(d, j.ticket.lane, j.revision)
        /\ forgetDocument(D)
    BY <1>3 DEF Admitted, Arrives, Job, Registry!Ticket, of
  <2>2. /\ \A t \in outstanding :
             Registry!isStale(t)' <=> \/ Registry!isStale(t)
                                      \/ t.documentId = d /\ (t.lane = j.ticket.lane \/ j.ticket.lane = "content")
                                      \/ t.documentId \in D
        /\ d \notin D
        /\ DOMAIN documents' = (DOMAIN documents \ D) \cup {d}
        /\ \A e \in DOMAIN documents' \ {d} : e \in DOMAIN documents /\ documents'[e] = documents[e]
        /\ documents'[d].revision =
             IF j.ticket.lane = "content" THEN j.revision
             ELSE IF d \in DOMAIN documents THEN documents[d].revision ELSE NoRevision
        /\ j.ticket.lane # "content" => documents'[d].revision \in {NoRevision, j.revision}
    <3> HIDE DEF d
    <3>1. QED
      BY <2>1, AdmitEffect DEF Sound, WorkSound
  <2>3. /\ DOMAIN markdownCache' = DOMAIN markdownCache \ D
        /\ DOMAIN frames' = DOMAIN frames \ D
    BY <2>1, EvictsOne, LossEffect DEF Sound, WorkSound
  <2> HIDE DEF D
  <2>4. \A k \in Jobs : stale(k) \/ of(k) \in D => stale(k)'
    BY <1>j, <2>2 DEF stale
  <2>5. Recorded(d)
    BY <1>f, <2>2, <2>3, <2>4 DEF Recorded
  <2>6. \A k \in Jobs : of(k) = d /\ isContent(j) => stale(k)'
    BY <1>j, <2>2 DEF stale, isContent
  <2>7. QED
    BY <2>2, <2>5, <2>6 DEF isContent
<1>4. QED
  BY <1>1, <1>2, <1>3

\* overtaken survives what is not lost.
LEMMA OvertakenStays ==
  ASSUME Sound, StoresBehind, NEW d \in Documents, Recorded(d), NEW e \in Documents,
         NEW r \in Revisions, overtaken(e, r),
         e \in DOMAIN markdownCache' \cup DOMAIN frames',
         e = d => /\ d \in DOMAIN documents'
                  /\ \/ documents'[d].revision = documents[d].revision
                     \/ documents'[d].revision \in Revisions /\ documents'[d].revision >= r
  PROVE  overtaken(e, r)'
<1>1. r \in Nat /\ Revisions \subseteq Nat /\ NoRevision \notin Revisions
  BY RevisionFacts
<1>2. e \in DOMAIN documents /\ documents[e].revision # NoRevision /\ documents[e].revision >= r
  BY DEF overtaken
<1>3. CASE e # d
  <2>1. e \in DOMAIN documents' /\ documents'[e] = documents[e]
    BY <1>2, <1>3 DEF Recorded
  <2>2. QED
    BY <1>2, <2>1 DEF overtaken
<1>4. CASE e = d
  BY <1>1, <1>2, <1>4 DEF overtaken
<1>5. QED
  BY <1>3, <1>4

\* Steps that take no job and change no revision.
LEMMA OrderStays ==
  ASSUME Sound, AskedInOrder, Jobs' \subseteq Jobs,
         \A d \in Documents : revision'[d] \in Nat /\ revision'[d] >= revision[d]
  PROVE  AskedInOrder'
<1>1. \A j \in Jobs : j.revision \in Nat /\ of(j) \in Documents
  BY JobFacts, RevisionFacts DEF Sound
<1>2. \A d \in Documents : revision[d] \in Nat
  BY StoredRevisions, RevisionFacts
<1>3. \A j \in Jobs' : draws(j) => j.revision <= revision'[of(j)]
  BY <1>1, <1>2 DEF AskedInOrder
<1>4. QED
  BY <1>3 DEF AskedInOrder, draws, of, earlier

\* Jobs that go or grow stale leave the others as current as they were.
LEMMA CurrentStays ==
  ASSUME Sound, Current, Jobs' \subseteq Jobs,
         \A k \in Jobs' : stale(k) => stale(k)',
         \A k \in Jobs' : ~stale(k)' =>
           /\ documents'[of(k)].revision = documents[of(k)].revision
           /\ rendererRevision'[of(k)] = rendererRevision[of(k)] \/ k.method # "capture"
  PROVE  Current'
<1>1. SUFFICES ASSUME NEW k \in Jobs', ~stale(k)'
               PROVE  /\ isContent(k) => documents'[of(k)].revision = k.revision
                      /\ ~isContent(k) => documents'[of(k)].revision \in {NoRevision, k.revision}
                      /\ k.method = "capture" => rendererRevision'[of(k)] = k.revision
  BY DEF Current, isContent, of, stale
<1>2. ~stale(k) /\ k \in Jobs
  BY <1>1
<1>3. QED
  BY <1>1, <1>2 DEF Current

\* A task that waits while a step is taken elsewhere.
LEMMA TaskStays ==
  ASSUME Sound, TaskOwn, Shrinks, task' = task,
         task # NoTask /\ stale(job) => stale(job)',
         task # NoTask /\ ~stale(job)' /\ doc \in DOMAIN markdownCache => doc \in DOMAIN markdownCache',
         task # NoTask /\ task.phase = "parse" /\ doc \in DOMAIN frames' /\ overtaken(doc, job.revision)
           => overtaken(doc, job.revision)'
  PROVE  TaskOwn'
<1>1. SUFFICES ASSUME task # NoTask PROVE TaskOwn'
  BY DEF TaskOwn
<1>2. job' = job /\ doc' = doc
  BY DEF job, doc
<1>3. task.phase = "parse" /\ doc \in DOMAIN frames' => overtaken(doc, job.revision)'
  BY <1>1 DEF TaskOwn, Shrinks
<1>4. task.phase = "load" => active' = NoPage
  BY <1>1 DEF TaskOwn, Shrinks
<1>5. task.phase \in {"capture", "evaluate"} /\ active' # NoPage =>
        active'.documentId = doc /\ active'.key = job.revision
  BY <1>1 DEF TaskOwn, Shrinks
<1>6. task.phase # "parse" =>
         /\ own(task.markup, job)
         /\ draws(job) /\ doc \in DOMAIN markdownCache' => markdownCache'[doc].revision = job.revision
  BY <1>1 DEF TaskOwn, Shrinks
<1>7. task.phase # "parse" /\ ~draws(job) =>
              /\ task.frame.contentRevision = job.revision /\ task.frame.key = job.revision
              /\ stale(job)' \/ (doc \in DOMAIN markdownCache' /\ markdownCache'[doc].revision = job.revision)
  BY <1>1 DEF TaskOwn, Shrinks
<1>8. own(task.markup, job)' <=> own(task.markup, job)
  BY <1>2 DEF own, of
<1>9. overtaken(doc, job.revision)' <=> /\ doc \in DOMAIN documents'
                                        /\ documents'[doc].revision # NoRevision
                                        /\ documents'[doc].revision >= job.revision
  BY <1>2 DEF overtaken
<1>10. QED
  BY <1>2, <1>3, <1>4, <1>5, <1>6, <1>7, <1>8 DEF TaskOwn, draws

\* A page that loses its document shows none.
LEMMA PageStays ==
  ASSUME PageIsActive, active' \in {active, NoPage}, dom' = dom
  PROVE  PageIsActive'
BY DEF PageIsActive

\* The documents a request or a `forget` loses, or one it lets in.
LEMMA LossSound ==
  ASSUME Sound, RevisionsSound, Sound', NEW d \in Documents, Recorded(d), Shrinks,
         task' = task, UNCHANGED revision,
         d \in DOMAIN markdownCache' \cup DOMAIN frames' /\ d \in DOMAIN documents =>
           /\ d \in DOMAIN documents'
           /\ \/ documents'[d].revision = documents[d].revision
              \/ documents'[d].revision = revision[d]
  PROVE  /\ \A e \in Documents : Behind(e, revision[e])'
         /\ \A j \in Jobs : draws(j) => Behind(of(j), j.revision)'
         /\ StoresCoherent' /\ TaskOwn' /\ PageIsActive'
<1>r. Revisions \subseteq Nat /\ NoRevision \notin Revisions
  BY RevisionFacts
<1>1. ASSUME NEW e \in Documents, NEW r \in Revisions, overtaken(e, r),
             r <= revision[e], e \in DOMAIN markdownCache' \cup DOMAIN frames'
      PROVE  overtaken(e, r)'
  <2>1. revision[e] \in Revisions
    BY StoredRevisions
  <2>2. e \in DOMAIN documents
    BY <1>1 DEF overtaken
  <2>3. e = d => /\ d \in DOMAIN documents'
                 /\ \/ documents'[d].revision = documents[d].revision
                    \/ documents'[d].revision \in Revisions /\ documents'[d].revision >= r
    BY <1>1, <1>r, <2>1, <2>2
  <2>4. QED
    BY <1>1, <2>3, OvertakenStays DEF RevisionsSound
<1>2. \A e \in Documents : Behind(e, revision[e])'
  <2>1. SUFFICES ASSUME NEW e \in Documents PROVE Behind(e, revision[e])'
    OBVIOUS
  <2>2. PICK r : r = revision[e]
    OBVIOUS
  <2>3. Behind(e, r)'
    BY <2>2, ShrunkBehind DEF RevisionsSound, StoresBehind
  <2>4. QED
    BY <2>2, <2>3 DEF Behind
<1>3. \A j \in Jobs : draws(j) => Behind(of(j), j.revision)'
  <2>1. SUFFICES ASSUME NEW j \in Jobs, draws(j) PROVE Behind(of(j), j.revision)'
    OBVIOUS
  <2>2. of(j) \in Documents /\ Behind(of(j), j.revision)
    BY <2>1, JobFacts DEF Sound, RevisionsSound, StoresBehind
  <2>3. QED
    BY <2>2, ShrunkBehind
<1>4. StoresCoherent'
  <2>1. SUFFICES ASSUME NEW e \in Documents PROVE Coherent(e)'
    BY DEF StoresCoherent
  <2>2. ASSUME NEW r, e \in DOMAIN markdownCache', r = markdownCache[e].revision, overtaken(e, r)
        PROVE  overtaken(e, r)'
    <3>1. e \in DOMAIN markdownCache /\ r \in Revisions /\ r <= revision[e]
      BY <2>2, StoredRevisions DEF Shrinks, RevisionsSound, StoresBehind, Behind
    <3>2. QED
      BY <1>1, <2>2, <3>1
  <2>3. QED
    BY <2>2, ShrunkCoherent DEF RevisionsSound, StoresCoherent
<1>5. TaskOwn'
  <2>1. ASSUME task # NoTask
        PROVE  job \in Jobs /\ doc = of(job) /\ doc \in Documents /\ job.revision \in Revisions
    BY <2>1, RunningFacts
  <2>2. task # NoTask /\ stale(job) => stale(job)'
    <3>1. ASSUME task # NoTask PROVE stale(job) => stale(job)'
      <4>1. PICK j \in Jobs : j = job
        BY <2>1, <3>1
      <4>2. job' = j
        BY <4>1 DEF job
      <4>3. stale(j) => stale(j)'
        BY DEF Recorded
      <4>4. QED
        BY <4>1, <4>2, <4>3 DEF stale
    <3>2. QED
      BY <3>1
  <2>3. task # NoTask /\ ~stale(job)' /\ doc \in DOMAIN markdownCache => doc \in DOMAIN markdownCache'
    <3>1. ASSUME task # NoTask, ~stale(job)', doc \in DOMAIN markdownCache
          PROVE  doc \in DOMAIN markdownCache'
      <4>1. PICK j \in Jobs : j = job
        BY <2>1, <3>1
      <4>2. job' = j
        BY <4>1 DEF job
      <4>3. ~stale(j)'
        BY <3>1, <4>2 DEF stale
      <4>4. QED
        BY <2>1, <3>1, <4>1, <4>3 DEF Recorded
    <3>2. QED
      BY <3>1
  <2>4. task # NoTask /\ task.phase = "parse" /\ doc \in DOMAIN frames' /\ overtaken(doc, job.revision)
           => overtaken(doc, job.revision)'
    <3>1. ASSUME task # NoTask, task.phase = "parse", doc \in DOMAIN frames', overtaken(doc, job.revision)
          PROVE  overtaken(doc, job.revision)'
      <4>1. PICK e \in Documents, r \in Revisions : e = doc /\ r = job.revision
        BY <2>1, <3>1
      <4>2. doc' = e /\ job'.revision = r
        BY <4>1 DEF job, doc
      <4>3. draws(job)
        BY <3>1 DEF Sound, TaskReady, draws
      <4>4. r <= revision[e]
        BY <2>1, <3>1, <4>1, <4>3 DEF RevisionsSound, AskedInOrder
      <4>5. overtaken(e, r)'
        BY <1>1, <3>1, <4>1, <4>4
      <4>6. QED
        BY <4>2, <4>5 DEF overtaken
    <3>2. QED
      BY <3>1
  <2>5. QED
    BY <2>2, <2>3, <2>4, TaskStays DEF RevisionsSound
<1>6. PageIsActive'
  BY PageStays DEF RevisionsSound, Shrinks
<1>7. QED
  BY <1>2, <1>3, <1>4, <1>5, <1>6

\* A refusal keeps revisions sound.
LEMMA RefusedSound ==
  ASSUME Sound, RevisionsSound, NEW d \in Documents, Refused(d)
  PROVE  RevisionsSound'
<1>1. /\ Sound' /\ Jobs' = Jobs /\ Shrinks /\ Recorded(d)
      /\ d \in DOMAIN documents => d \in DOMAIN documents' /\ documents'[d] = documents[d]
      /\ task' = task /\ UNCHANGED <<revision, rendererRevision>>
  BY RefusedFacts, LossShrinks, LossRecords DEF Refused, client
<1>2. \A e \in Documents : revision'[e] \in Nat /\ revision'[e] >= revision[e]
  <2>1. \A e \in Documents : revision[e] \in Nat
    BY StoredRevisions, RevisionFacts
  <2>2. QED
    BY <1>1, <2>1
<1>3. AskedInOrder'
  BY <1>1, <1>2, OrderStays DEF RevisionsSound
<1>4. \A k \in Jobs' : stale(k) => stale(k)'
  BY <1>1 DEF Recorded
<1>5. \A k \in Jobs' : ~stale(k)' => documents'[of(k)].revision = documents[of(k)].revision
  <2>1. SUFFICES ASSUME NEW k \in Jobs', ~stale(k)'
                 PROVE  documents'[of(k)].revision = documents[of(k)].revision
    OBVIOUS
  <2>2. of(k) \in DOMAIN documents' /\ of(k) \in DOMAIN documents
    BY <1>1, <1>4, <2>1, FreshFacts DEF Recorded
  <2>3. QED
    BY <1>1, <2>2 DEF Recorded
<1>6. Current'
  BY <1>1, <1>4, <1>5, CurrentStays DEF RevisionsSound
<1>7. /\ \A e \in Documents : Behind(e, revision[e])'
      /\ \A j \in Jobs : draws(j) => Behind(of(j), j.revision)'
      /\ StoresCoherent' /\ TaskOwn' /\ PageIsActive'
  BY <1>1, LossSound
<1>8. StoresBehind'
  BY <1>1, <1>7 DEF StoresBehind, Behind, draws, of
<1>9. QED
  BY <1>3, <1>6, <1>7, <1>8 DEF RevisionsSound

\* So does forget.
LEMMA ForgetSound ==
  ASSUME Sound, RevisionsSound, NEW d \in Documents, Forget(d)
  PROVE  RevisionsSound'
<1>1. /\ Sound' /\ Jobs' = Jobs /\ Shrinks /\ Recorded(d)
      /\ d \notin DOMAIN documents' \cup DOMAIN markdownCache' \cup DOMAIN frames'
      /\ task' = task /\ UNCHANGED revision
      /\ \A e \in Documents \ {d} : rendererRevision'[e] = rendererRevision[e]
  <2>1. /\ Sound' /\ Jobs' = Jobs /\ Shrinks /\ Recorded(d)
        /\ d \notin DOMAIN documents' \cup DOMAIN markdownCache' \cup DOMAIN frames'
    BY ForgetFacts, LossShrinks, LossRecords
  <2>2. QED
    BY <2>1 DEF Forget, Sound, ClientTyped
<1>2. \A e \in Documents : revision'[e] \in Nat /\ revision'[e] >= revision[e]
  <2>1. \A e \in Documents : revision[e] \in Nat
    BY StoredRevisions, RevisionFacts
  <2>2. QED
    BY <1>1, <2>1
<1>3. AskedInOrder'
  BY <1>1, <1>2, OrderStays DEF RevisionsSound
<1>4. \A k \in Jobs' : stale(k) => stale(k)'
  BY <1>1 DEF Recorded
<1>5. \A k \in Jobs' : ~stale(k)' => /\ documents'[of(k)].revision = documents[of(k)].revision
                                    /\ rendererRevision'[of(k)] = rendererRevision[of(k)]
  <2>1. SUFFICES ASSUME NEW k \in Jobs', ~stale(k)'
                 PROVE  /\ documents'[of(k)].revision = documents[of(k)].revision
                        /\ rendererRevision'[of(k)] = rendererRevision[of(k)]
    OBVIOUS
  <2>2. of(k) \in DOMAIN documents' /\ of(k) \in DOMAIN documents /\ of(k) # d /\ of(k) \in Documents
    BY <1>1, <1>4, <2>1, FreshFacts, JobFacts DEF Recorded, Sound
  <2>3. QED
    BY <1>1, <2>2 DEF Recorded
<1>6. Current'
  BY <1>1, <1>4, <1>5, CurrentStays DEF RevisionsSound
<1>7. /\ \A e \in Documents : Behind(e, revision[e])'
      /\ \A j \in Jobs : draws(j) => Behind(of(j), j.revision)'
      /\ StoresCoherent' /\ TaskOwn' /\ PageIsActive'
  BY <1>1, LossSound
<1>8. StoresBehind'
  BY <1>1, <1>7 DEF StoresBehind, Behind, draws, of
<1>9. QED
  BY <1>3, <1>6, <1>7, <1>8 DEF RevisionsSound

\* So does an admission of a request that the client can send.
LEMMA AdmittedSound ==
  ASSUME Sound, RevisionsSound, NEW j, Admitted(j),
         draws(j) => j.revision = revision[of(j)],
         draws(j) \/ ~isContent(j),
         j.method = "capture" => rendererRevision[of(j)] = j.revision
  PROVE  RevisionsSound'
<1> DEFINE d == of(j)
<1>d. d \in Documents /\ j.revision \in Revisions
  BY DEF Admitted, Arrives, Job, Registry!Ticket, of
<1>1. /\ Sound' /\ Jobs' = Jobs \cup {j} /\ Shrinks /\ Recorded(d)
      /\ d \in DOMAIN documents'
      /\ documents'[d].revision =
           IF isContent(j) THEN j.revision
           ELSE IF d \in DOMAIN documents THEN documents[d].revision ELSE NoRevision
      /\ ~isContent(j) => documents'[d].revision \in {NoRevision, j.revision}
      /\ \A k \in Jobs : of(k) = d /\ isContent(j) => stale(k)'
      /\ task' = task /\ UNCHANGED <<revision, rendererRevision>>
  <2>1. /\ Sound' /\ Jobs' = Jobs \cup {j} /\ Shrinks
    BY AdmittedFacts, LossShrinks
  <2>2. task' = task /\ UNCHANGED <<revision, rendererRevision>>
    BY DEF Admitted, Arrives, client
  <2>3. QED
    BY <2>1, <2>2, LossRecords
<1>k. \A k \in Jobs : earlier(k, j) /\ k.ticket.serial \in Nat
  BY ArrivesFacts, JobFacts DEF Admitted, Sound
<1>k2. j.ticket.serial \in Nat
  BY DEF Admitted, Arrives, Job, Registry!Ticket
<1> HIDE DEF d
<1>2. ~earlier(j, j) /\ \A k \in Jobs : ~earlier(j, k)
  BY <1>k, <1>k2 DEF earlier
<1>3. AskedInOrder'
  <2>1. ASSUME NEW k \in Jobs', draws(k)
        PROVE  /\ k.revision <= revision[of(k)]
               /\ \A l \in Jobs' : draws(l) /\ of(l) = of(k) /\ earlier(k, l) => k.revision <= l.revision
    <3>1. CASE k \in Jobs
      BY <1>1, <2>1, <3>1 DEF RevisionsSound, AskedInOrder, d
    <3>2. CASE k = j
      <4>1. j.revision <= revision[of(j)]
        <5>1. j.revision \in Nat /\ j.revision = revision[of(j)]
          BY <1>d, <2>1, <3>2, RevisionFacts
        <5>2. QED
          BY <5>1
      <4>2. QED
        BY <1>1, <1>2, <3>2, <4>1
    <3>3. QED
      BY <1>1, <2>1, <3>1, <3>2
  <2>2. QED
    BY <1>1, <2>1 DEF AskedInOrder, draws, of, earlier
<1>4. \A k \in Jobs : stale(k) => stale(k)'
  BY <1>1 DEF Recorded
<1>5. Current'
  <2>1. SUFFICES ASSUME NEW k \in Jobs', ~stale(k)'
                 PROVE  /\ isContent(k) => documents'[of(k)].revision = k.revision
                        /\ ~isContent(k) => documents'[of(k)].revision \in {NoRevision, k.revision}
                        /\ k.method = "capture" => rendererRevision'[of(k)] = k.revision
    BY DEF Current, isContent, of, stale
  <2>2. CASE k = j
    BY <1>1, <2>2 DEF d
  <2>3. CASE k \in Jobs
    <3>1. ~stale(k) /\ of(k) \in DOMAIN documents /\ of(k) \in DOMAIN documents'
      BY <1>1, <1>4, <2>1, <2>3, FreshFacts DEF Recorded
    <3>2. documents'[of(k)].revision = documents[of(k)].revision
      <4>1. CASE of(k) = d
        BY <1>1, <2>1, <2>3, <3>1, <4>1
      <4>2. CASE of(k) # d
        BY <1>1, <3>1, <4>2 DEF Recorded
      <4>3. QED
        BY <4>1, <4>2
    <3>3. QED
      BY <1>1, <2>3, <3>1, <3>2 DEF RevisionsSound, Current
  <2>4. QED
    BY <1>1, <2>1, <2>2, <2>3
<1>6. isContent(j) => documents'[d].revision = revision[d]
  BY <1>1 DEF d
<1>7. /\ \A e \in Documents : Behind(e, revision[e])'
      /\ \A k \in Jobs : draws(k) => Behind(of(k), k.revision)'
      /\ StoresCoherent' /\ TaskOwn' /\ PageIsActive'
  BY <1>1, <1>6, <1>d, LossSound
<1>8. StoresBehind'
  <2>1. draws(j) => Behind(of(j), j.revision)'
    <3>1. ASSUME draws(j) PROVE Behind(of(j), j.revision)'
      <4>1. PICK r : r = j.revision
        OBVIOUS
      <4>2. Behind(d, revision[d])'
        BY <1>7, <1>d
      <4>3. revision'[d] = r
        BY <1>1, <3>1, <4>1 DEF d
      <4>4. QED
        BY <4>1, <4>2, <4>3 DEF Behind, d, of
    <3>2. QED
      BY <3>1
  <2>2. QED
    BY <1>1, <1>7, <2>1 DEF StoresBehind, Behind, draws, of
<1>9. QED
  BY <1>3, <1>5, <1>7, <1>8 DEF RevisionsSound

\* Typing, and a new image.
LEMMA QuietSound ==
  ASSUME Sound, RevisionsSound, Jobs' = Jobs, Sound',
         UNCHANGED <<registry, rendererRevision, task, caches, page>>,
         \A d \in Documents : revision'[d] >= revision[d]
  PROVE  RevisionsSound'
<1>1. /\ UNCHANGED <<documents, rendererRevision, task, markdownCache, frames, active, dom>>
      /\ \A t : Registry!isStale(t)' <=> Registry!isStale(t)
  BY RegistryUnchanged DEF caches, page
<1>2. \A e \in Documents : revision'[e] \in Revisions /\ revision'[e] \in Nat /\ revision[e] \in Revisions
  BY StoredRevisions, RevisionFacts DEF Sound, ClientTyped
<1>3. AskedInOrder'
  BY <1>2, OrderStays DEF RevisionsSound
<1>4. Current'
  BY <1>1, CurrentStays DEF RevisionsSound, stale
<1>5. StoresBehind'
  <2>1. \A d \in Documents : Behind(d, revision'[d])
    BY <1>2, BehindGrows DEF RevisionsSound, StoresBehind
  <2>2. \A d \in Documents : Behind(d, revision[d])'
    BY <1>1, <2>1 DEF Behind
  <2>3. \A j \in Jobs : draws(j) => Behind(of(j), j.revision)'
    BY <1>1 DEF RevisionsSound, StoresBehind, Behind
  <2>4. QED
    BY <2>2, <2>3 DEF StoresBehind, Behind, draws, of
<1>6. StoresCoherent' /\ PageIsActive'
  BY <1>1 DEF RevisionsSound, StoresCoherent, Coherent, overtaken, PageIsActive
<1>7. TaskOwn'
  <2>1. job' = job /\ doc' = doc /\ (stale(job)' <=> stale(job))
    BY <1>1 DEF job, doc, stale
  <2>2. QED
    BY <1>1, <2>1 DEF RevisionsSound, TaskOwn, overtaken, own, draws, of
<1>8. QED
  BY <1>3, <1>4, <1>5, <1>6, <1>7 DEF RevisionsSound

\* The oldest request in flight caches markup of its own revision.
LEMMA RememberSound ==
  ASSUME Sound, RevisionsSound, Sound', NEW h \in Jobs, NEW m \in Markup, NEW reused \in BOOLEAN,
         m.documentId = of(h), m.revision = h.revision, draws(h),
         \A k \in Jobs : k = h \/ earlier(h, k),
         rememberMarkdown(of(h), m, reused),
         UNCHANGED <<registry, client>>, Jobs' = Jobs,
         of(h) \in DOMAIN frames =>
           \/ frames[of(h)].contentRevision = m.revision
           \/ overtaken(of(h), m.revision)
  PROVE  /\ AskedInOrder' /\ StoresBehind' /\ StoresCoherent' /\ Current' /\ PageIsActive'
         /\ of(h) \in DOMAIN markdownCache' /\ markdownCache'[of(h)] = m
<1> DEFINE d == of(h)
<1>d. d \in Documents /\ h.revision \in Revisions
  BY JobFacts DEF Sound
<1>1. /\ d \in DOMAIN markdownCache' /\ markdownCache'[d] = m
      /\ \A e \in DOMAIN markdownCache' \ {d} :
           e \in DOMAIN markdownCache /\ markdownCache'[e] = markdownCache[e]
      /\ \A e \in DOMAIN frames' : e \in DOMAIN frames /\ frames'[e] = frames[e]
      /\ active' \in {active, NoPage}
      /\ dom' = dom
  BY <1>d, RememberEffect DEF Sound
<1>2. /\ UNCHANGED <<documents, rendererRevision, revision>>
      /\ \A t : Registry!isStale(t)' <=> Registry!isStale(t)
  BY RegistryUnchanged DEF client
<1>3. AskedInOrder'
  <2>1. \A e \in Documents : revision[e] \in Nat
    BY StoredRevisions, RevisionFacts
  <2>2. QED
    BY <1>2, <2>1, OrderStays DEF RevisionsSound
<1>4. Current'
  BY <1>2, CurrentStays DEF RevisionsSound, stale
<1>5. PageIsActive'
  BY <1>1, PageStays DEF RevisionsSound
<1>6. ASSUME NEW e \in Documents, NEW r, Behind(e, r), e = d => m.revision <= r
      PROVE  Behind(e, r)'
  BY <1>1, <1>2, <1>6 DEF Behind
<1>7. StoresBehind'
  <2>1. ASSUME NEW e \in Documents
        PROVE  Behind(e, revision[e])'
    <3>1. PICK r : r = revision[e]
      OBVIOUS
    <3>2. Behind(e, r) /\ (e = d => m.revision <= r)
      BY <3>1 DEF RevisionsSound, StoresBehind, AskedInOrder
    <3>3. Behind(e, r)'
      BY <1>6, <3>2
    <3>4. QED
      BY <1>2, <3>1, <3>3 DEF Behind
  <2>2. ASSUME NEW k \in Jobs, draws(k)
        PROVE  Behind(of(k), k.revision)'
    <3>1. of(k) \in Documents /\ Behind(of(k), k.revision)
      BY <2>2, JobFacts DEF Sound, RevisionsSound, StoresBehind
    <3>2. of(k) = d => m.revision <= k.revision
      <4>1. h.revision \in Nat
        BY <1>d, RevisionFacts
      <4>2. CASE k = h
        BY <4>1, <4>2
      <4>3. CASE k # h
        BY <2>2, <4>3 DEF RevisionsSound, AskedInOrder
      <4>4. QED
        BY <4>2, <4>3
    <3>3. QED
      BY <1>6, <3>1, <3>2
  <2>3. QED
    BY <2>1, <2>2 DEF StoresBehind, Behind, draws, of
<1>8. StoresCoherent'
  <2>1. ASSUME NEW e \in Documents
        PROVE  Coherent(e)'
    <3>1. Coherent(e)
      BY DEF RevisionsSound, StoresCoherent
    <3>2. CASE e # d
      BY <1>1, <1>2, <3>1, <3>2 DEF Coherent, overtaken
    <3>3. CASE e = d
      <4>1. Behind(d, m.revision)
        BY DEF RevisionsSound, StoresBehind
      <4>2. d \in DOMAIN frames' => d \in DOMAIN frames /\ frames'[d] = frames[d]
        BY <1>1
      <4>3. overtaken(d, m.revision) => overtaken(d, m.revision)'
        BY <1>2 DEF overtaken
      <4>4. QED
        BY <1>1, <1>2, <3>1, <3>3, <4>1, <4>2, <4>3 DEF Coherent, Behind, overtaken
    <3>4. QED
      BY <3>2, <3>3
  <2>2. QED
    BY <2>1 DEF StoresCoherent
<1>9. QED
  BY <1>1, <1>3, <1>4, <1>5, <1>7, <1>8

\* The head of the queue, when it starts, is not stale.
LEMMA HeadFresh ==
  ASSUME Sound, RevisionsSound, Starts
  PROVE  /\ ~stale(head) /\ head \in Jobs /\ of(head) \in DOMAIN documents
         /\ isContent(head) => overtaken(of(head), head.revision)
         /\ ~isContent(head) => documents[of(head)].revision \in {NoRevision, head.revision}
         /\ head.method = "capture" => rendererRevision[of(head)] = head.revision
<1>1. ~stale(head) /\ head \in Jobs /\ head.revision \in Revisions
  BY HeadFacts DEF Starts, current, stale
<1>2. of(head) \in DOMAIN documents
  BY <1>1, FreshFacts
<1>3. head.revision \in Nat /\ head.revision # NoRevision
  BY <1>1, RevisionFacts
<1>4. QED
  BY <1>1, <1>2, <1>3 DEF RevisionsSound, Current, overtaken

\* So does a task that starts with the markup of its job, or with the cached one.
LEMMA StartsWithSound ==
  ASSUME Sound, RevisionsSound, NEW m, NEW reused \in BOOLEAN, StartsWith(m, reused),
         \/ isContent(head) /\ m.revision = head.revision
         \/ head.method = "capture" /\ of(head) \in DOMAIN markdownCache /\ m = markdownCache[of(head)]
  PROVE  RevisionsSound'
<1> DEFINE d == of(head)
<1>1. /\ Starts /\ m \in Markup /\ m.documentId = d /\ head.method # "interact"
      /\ rememberMarkdown(d, m, reused)
      /\ task' = [job |-> head, phase |-> "ensure", markup |-> m, frame |-> NoPage]
      /\ UNCHANGED <<registry, client>>
      /\ task = NoTask /\ queue # <<>>
  BY DEF StartsWith, Starts, awaits
<1>2. /\ Sound' /\ Jobs' = Jobs
      /\ head \in Jobs /\ d \in Documents /\ head.revision \in Nat
      /\ \A k \in Jobs : k = head \/ earlier(head, k)
  BY <1>1, StartsWithFacts, HeadFacts, OldestFirst, RevisionFacts DEF Sound
<1>3. draws(head)
  BY <1>1 DEF draws
<1>4. m.revision = head.revision
  <2>1. CASE isContent(head) /\ m.revision = head.revision
    BY <2>1
  <2>2. CASE head.method = "capture" /\ d \in DOMAIN markdownCache /\ m = markdownCache[d]
    <3>1. rendererRevision[d] = head.revision /\ head.revision # NoRevision
      BY <1>1, <1>2, <2>2, HeadFresh, HeadFacts, RevisionFacts
    <3>2. rendererRevision[d] <= m.revision
      BY <1>2, <2>2, <3>1 DEF RevisionsSound, StoresCoherent, Coherent
    <3>3. m.revision <= head.revision
      BY <1>2, <1>3, <2>2 DEF RevisionsSound, StoresBehind, Behind
    <3>4. m.revision \in Nat
      BY <1>1, RevisionFacts DEF Markup
    <3>5. QED
      BY <1>2, <3>1, <3>2, <3>3, <3>4
  <2>3. QED
    BY <2>1, <2>2
<1>5. d \in DOMAIN frames => \/ frames[d].contentRevision = m.revision
                            \/ overtaken(d, m.revision)
  <2>1. CASE isContent(head)
    BY <1>1, <1>4, <2>1, HeadFresh
  <2>2. CASE d \in DOMAIN markdownCache /\ m = markdownCache[d]
    BY <1>2, <2>2 DEF RevisionsSound, StoresCoherent, Coherent
  <2>3. QED
    BY <2>1, <2>2
<1>6. /\ AskedInOrder' /\ StoresBehind' /\ StoresCoherent' /\ Current' /\ PageIsActive'
      /\ d \in DOMAIN markdownCache' /\ markdownCache'[d] = m
  <2> HIDE DEF d
  <2>1. PICK h \in Jobs : h = head
    BY <1>2
  <2>2. of(h) = d
    BY <2>1 DEF d
  <2>3. /\ m \in Markup /\ m.documentId = of(h) /\ m.revision = h.revision /\ draws(h)
        /\ \A k \in Jobs : k = h \/ earlier(h, k)
        /\ rememberMarkdown(of(h), m, reused)
        /\ of(h) \in DOMAIN frames => \/ frames[of(h)].contentRevision = m.revision
                                      \/ overtaken(of(h), m.revision)
    BY <1>1, <1>2, <1>3, <1>4, <1>5, <2>1, <2>2
  <2>4. /\ AskedInOrder' /\ StoresBehind' /\ StoresCoherent' /\ Current' /\ PageIsActive'
        /\ of(h) \in DOMAIN markdownCache' /\ markdownCache'[of(h)] = m
    BY <1>1, <1>2, <2>3, RememberSound
  <2>5. QED
    BY <2>2, <2>4
<1>7. TaskOwn'
  <2>1. job' = head /\ doc' = d
    BY <1>1 DEF job, doc, of
  <2>2. task'.phase = "ensure" /\ task'.markup = m
    BY <1>1
  <2>3. own(task.markup, job)'
    BY <1>1, <1>4, <2>1, <2>2 DEF own, of
  <2>4. draws(job)' /\ markdownCache'[d].revision = head.revision
    BY <1>3, <1>4, <1>6, <2>1 DEF draws
  <2>5. QED
    BY <2>1, <2>2, <2>3, <2>4 DEF TaskOwn
<1>8. QED
  BY <1>6, <1>7 DEF RevisionsSound

\* A stretch that touches neither the records nor the caches.
LEMMA StoresStay ==
  ASSUME Sound, RevisionsSound, Jobs' = Jobs, UNCHANGED <<registry, client, caches, frames>>
  PROVE  AskedInOrder' /\ StoresBehind' /\ StoresCoherent' /\ Current'
<1>1. /\ UNCHANGED <<documents, rendererRevision, revision, markdownCache, frames>>
      /\ \A t : Registry!isStale(t)' <=> Registry!isStale(t)
  BY RegistryUnchanged DEF client, caches
<1>2. \A e \in Documents : revision[e] \in Nat
  BY StoredRevisions, RevisionFacts
<1>3. AskedInOrder'
  BY <1>1, <1>2, OrderStays DEF RevisionsSound
<1>4. Current'
  BY <1>1, CurrentStays DEF RevisionsSound, stale
<1>5. StoresBehind'
  BY <1>1 DEF RevisionsSound, StoresBehind, Behind, draws, of
<1>6. StoresCoherent'
  BY <1>1 DEF RevisionsSound, StoresCoherent, Coherent, overtaken
<1>7. QED
  BY <1>3, <1>4, <1>5, <1>6

\* So does a task that starts with none.
LEMMA PlainStartsSound ==
  ASSUME Sound, RevisionsSound, StartParse \/ StartInteract
  PROVE  RevisionsSound'
<1> DEFINE d == of(head)
<1>1. /\ Jobs' = Jobs /\ UNCHANGED <<registry, client, caches, page>> /\ Starts
      /\ task = NoTask /\ queue # <<>>
  BY PlainStarts DEF Starting, StartParse, StartInteract, Starts
<1>2. AskedInOrder' /\ StoresBehind' /\ StoresCoherent' /\ Current'
  BY <1>1, StoresStay DEF page
<1>3. PageIsActive'
  BY <1>1, PageStays DEF RevisionsSound, page
<1>4. /\ ~stale(head) /\ head \in Jobs /\ d \in DOMAIN documents /\ d \in Documents
      /\ isContent(head) => overtaken(d, head.revision)
      /\ ~isContent(head) => documents[d].revision \in {NoRevision, head.revision}
      /\ isContent(head) <=> head.method \in {"render", "render_prepared", "prepare"}
      /\ head.revision \in Nat
  BY <1>1, HeadFresh, HeadFacts, RevisionFacts
<1>5. /\ UNCHANGED <<documents, markdownCache, frames, active>>
      /\ \A t : Registry!isStale(t)' <=> Registry!isStale(t)
  BY <1>1, RegistryUnchanged DEF caches, page
<1>6. TaskOwn'
  <2>1. CASE StartParse
    <3>1. task' = [job |-> head, phase |-> "parse", markup |-> NoMarkup, frame |-> NoPage]
          /\ isContent(head)
      BY <1>4, <2>1 DEF StartParse, awaits
    <3>2. job' = head /\ doc' = d
      BY <3>1 DEF job, doc, of
    <3>3. overtaken(d, head.revision)
      BY <1>4, <3>1
    <3>4. overtaken(doc, job.revision)'
      BY <1>5, <3>2, <3>3 DEF overtaken
    <3>5. task'.phase = "parse"
      BY <3>1
    <3>6. QED
      BY <3>4, <3>5 DEF TaskOwn
  <2>2. CASE StartInteract
    <3>1. /\ task' = [job |-> head, phase |-> "ensure", markup |-> markdownCache[d], frame |-> frames[d]]
          /\ d \in DOMAIN frames /\ d \in DOMAIN markdownCache
          /\ frames[d].contentRevision = head.revision
          /\ head.method = "interact" /\ ~isContent(head)
      BY <1>4, <2>2 DEF StartInteract, awaits, frameMatches, cached, cachedMarkup, of
    <3>2. job' = head /\ doc' = d
      BY <3>1 DEF job, doc, of
    <3>3. frames[d].key = head.revision
      BY <1>4, <3>1 DEF RevisionsSound, StoresCoherent, Coherent
    <3>4. markdownCache[d].revision = head.revision
      <4>1. SUFFICES ASSUME markdownCache[d].revision # head.revision PROVE FALSE
        OBVIOUS
      <4>2. /\ head.revision <= markdownCache[d].revision
            /\ overtaken(d, markdownCache[d].revision)
        BY <1>4, <3>1, <4>1 DEF RevisionsSound, StoresCoherent, Coherent
      <4>3. documents[d].revision = head.revision /\ head.revision >= markdownCache[d].revision
        BY <1>4, <3>1, <4>2 DEF overtaken
      <4>4. markdownCache[d].revision \in Nat
        BY <3>1, StoredRevisions, RevisionFacts
      <4>5. QED
        BY <1>4, <4>1, <4>2, <4>3, <4>4
    <3>5. markdownCache[d] \in Markup /\ markdownCache[d].documentId = d
      BY <3>1 DEF Sound, StoresTyped
    <3>6. own(task.markup, job)'
      BY <3>1, <3>2, <3>4, <3>5 DEF own, of
    <3>7. /\ task'.phase = "ensure" /\ ~draws(job)'
          /\ task'.frame.contentRevision = head.revision /\ task'.frame.key = head.revision
          /\ d \in DOMAIN markdownCache' /\ markdownCache'[d].revision = head.revision
      BY <1>5, <3>1, <3>2, <3>3, <3>4 DEF draws
    <3>8. QED
      BY <3>2, <3>6, <3>7 DEF TaskOwn
  <2>3. QED
    BY <2>1, <2>2
<1>7. QED
  BY <1>2, <1>3, <1>6 DEF RevisionsSound

\* A task's layout key is its revision.
LEMMA KeyIsRevision ==
  ASSUME Sound, TaskOwn, task # NoTask, task.phase # "parse"
  PROVE  taskKey = job.revision
BY DEF TaskOwn, taskKey, own, draws

\* So does every step within a task.
LEMMA ContinuesSound ==
  ASSUME Sound, RevisionsSound, Continues
  PROVE  RevisionsSound'
<1>1. /\ Sound' /\ Jobs' = Jobs /\ job' = job /\ doc' = doc
      /\ task # NoTask /\ task' # NoTask
      /\ UNCHANGED <<registry, client>>
      /\ task \in Task
      /\ job \in Jobs /\ doc = of(job) /\ doc \in Documents /\ job.revision \in Nat
      /\ \A k \in Jobs : k = job \/ earlier(job, k)
  <2>1. /\ Sound' /\ Jobs' = Jobs /\ job' = job /\ doc' = doc
        /\ task # NoTask /\ task' # NoTask /\ UNCHANGED <<registry, client>>
    BY ContinuesFacts DEF Going
  <2>2. QED
    BY <2>1, RunningFacts, OldestFirst, RevisionFacts DEF Sound, job
<1>2. /\ UNCHANGED documents
      /\ \A t : Registry!isStale(t)' <=> Registry!isStale(t)
  BY <1>1, RegistryUnchanged
<1>3. (own(task.markup, job)' <=> own(task'.markup, job)) /\ (stale(job)' <=> stale(job)) /\ (draws(job)' <=> draws(job))
  BY <1>1, <1>2 DEF own, stale, draws, of
<1>4. CASE ParseRendered
  <2>1. /\ task.phase = "parse" /\ job.method = "render"
        /\ rememberMarkdown(doc, parsed, FALSE)
        /\ task' = [task EXCEPT !.phase = "ensure", !.markup = parsed]
        /\ parsed \in Markup /\ parsed.documentId = doc /\ parsed.revision = job.revision
    BY <1>1, <1>4, ParsedFacts DEF ParseRendered, Runs
  <2>2. PICK h \in Jobs, m \in Markup : h = job /\ m = parsed
    BY <1>1, <2>1
  <2>3. of(h) = doc /\ draws(h) /\ m.documentId = of(h) /\ m.revision = h.revision
    BY <1>1, <2>1, <2>2 DEF draws
  <2>4. of(h) \in DOMAIN frames => overtaken(of(h), m.revision)
    BY <1>1, <2>1, <2>2, <2>3 DEF RevisionsSound, TaskOwn
  <2>5. rememberMarkdown(of(h), m, FALSE) /\ \A k \in Jobs : k = h \/ earlier(h, k)
    BY <1>1, <2>1, <2>2, <2>3
  <2>6. /\ AskedInOrder' /\ StoresBehind' /\ StoresCoherent' /\ Current' /\ PageIsActive'
        /\ of(h) \in DOMAIN markdownCache' /\ markdownCache'[of(h)] = m
    BY <1>1, <2>3, <2>4, <2>5, RememberSound
  <2>7. task'.phase = "ensure" /\ task'.markup = m
    BY <1>1, <2>1, <2>2 DEF Task
  <2>8. own(task.markup, job)'
    BY <1>3, <2>2, <2>3, <2>7 DEF own
  <2>9. TaskOwn'
    BY <1>1, <1>3, <2>2, <2>3, <2>6, <2>7, <2>8 DEF TaskOwn
  <2>10. QED
    BY <2>6, <2>9 DEF RevisionsSound
<1>5. ASSUME UNCHANGED <<caches, frames>>
      PROVE  AskedInOrder' /\ StoresBehind' /\ StoresCoherent' /\ Current'
  BY <1>1, <1>5, StoresStay
<1>6. ASSUME UNCHANGED <<caches, frames>>, task.phase # "parse",
             NEW p \in {"load", "capture", "evaluate", "finish"},
             task'.phase = p, own(task'.markup, job), task'.frame = task.frame,
             p = "load" => active' = NoPage,
             p \in {"capture", "evaluate"} /\ active' # NoPage =>
               active'.documentId = doc /\ active'.key = job.revision
      PROVE  TaskOwn'
  <2>1. markdownCache' = markdownCache
    BY <1>6 DEF caches
  <2>2. /\ draws(job) /\ doc \in DOMAIN markdownCache => markdownCache[doc].revision = job.revision
        /\ ~draws(job) =>
              /\ task.frame.contentRevision = job.revision /\ task.frame.key = job.revision
              /\ stale(job) \/ (doc \in DOMAIN markdownCache /\ markdownCache[doc].revision = job.revision)
    BY <1>1, <1>6 DEF RevisionsSound, TaskOwn
  <2>3. QED
    BY <1>1, <1>3, <1>6, <2>1, <2>2 DEF TaskOwn
<1>7. task.phase # "parse" => own(task.markup, job) /\ taskKey = job.revision
  BY <1>1, KeyIsRevision DEF RevisionsSound, TaskOwn
<1>8. CASE UseLayout
  <2>1. /\ task.phase = "ensure" /\ UNCHANGED <<caches, frames, active, dom>>
        /\ task'.phase \in {"capture", "evaluate"}
        /\ task'.markup = task.markup /\ task'.frame = task.frame
        /\ active.documentId = doc /\ active.key = taskKey
    BY <1>1, <1>8 DEF UseLayout, Runs, goesOn, page, layoutReused, Task
  <2>2. TaskOwn'
    BY <1>6, <1>7, <2>1
  <2>3. PageIsActive'
    BY <2>1, PageStays DEF RevisionsSound
  <2>4. QED
    BY <1>5, <2>1, <2>2, <2>3 DEF RevisionsSound
<1>9. CASE LoadDocument
  <2>1. /\ task.phase = "ensure" /\ UNCHANGED <<caches, frames, dom>> /\ active' = NoPage
        /\ task'.phase = "load"
        /\ task'.markup = task.markup /\ task'.frame = task.frame
    BY <1>1, <1>9 DEF LoadDocument, Runs, goesOn, Task
  <2>2. TaskOwn'
    BY <1>6, <1>7, <2>1
  <2>3. PageIsActive'
    BY <2>1, PageStays DEF RevisionsSound
  <2>4. QED
    BY <1>5, <2>1, <2>2, <2>3 DEF RevisionsSound
<1>10. CASE Loaded
  <2>1. /\ task.phase = "load" /\ UNCHANGED <<caches, frames>>
        /\ active' = [documentId |-> doc, contentRevision |-> job.revision, key |-> taskKey]
        /\ dom' = task.markup
        /\ task'.phase \in {"capture", "evaluate"}
        /\ task'.markup = task.markup /\ task'.frame = task.frame
    BY <1>1, <1>10 DEF Loaded, Runs, goesOn, Task
  <2>2. active'.documentId = doc /\ active'.key = job.revision
    BY <1>7, <2>1
  <2>3. TaskOwn'
    BY <1>6, <1>7, <2>1, <2>2
  <2>4. PageIsActive'
    BY <1>1, <1>7, <2>1, <2>2 DEF PageIsActive, own
  <2>5. QED
    BY <1>5, <2>1, <2>3, <2>4 DEF RevisionsSound
<1>11. CASE Evaluated
  <2>1. /\ task.phase = "evaluate" /\ UNCHANGED <<caches, frames, active, dom>> /\ active # NoPage
        /\ task'.phase = "finish"
        /\ task'.markup = dom /\ task'.frame = task.frame
    BY <1>1, <1>11 DEF Evaluated, Runs, page, Task
  <2>2. own(dom, job)
    BY <1>1, <2>1 DEF RevisionsSound, TaskOwn, PageIsActive, own
  <2>3. TaskOwn'
    BY <1>6, <2>1, <2>2
  <2>4. PageIsActive'
    BY <2>1, PageStays DEF RevisionsSound
  <2>5. QED
    BY <1>5, <2>1, <2>3, <2>4 DEF RevisionsSound
<1>12. QED
  BY <1>4, <1>8, <1>9, <1>10, <1>11 DEF Continues

\* A task is answered: its record and the other jobs stay as they are.
LEMMA AnsweredRecords ==
  ASSUME Sound, NEW j, Answered(j)
  PROVE  /\ \A k \in Jobs' : k \in Jobs /\ k # j /\ earlier(j, k)
         /\ \A k \in Jobs' : stale(k)' <=> stale(k)
         /\ DOMAIN documents' = DOMAIN documents
         /\ \A e \in DOMAIN documents : documents'[e].revision = documents[e].revision
<1>1. j.ticket \in outstanding /\ Registry!release(j.ticket) /\ Jobs' = Jobs \ {j}
      /\ \A k \in Jobs' : earlier(j, k)
  BY AnsweredFacts, JobFacts DEF Sound, Answered
<1>2. /\ \A u \in outstanding : Registry!isStale(u)' <=> Registry!isStale(u)
      /\ DOMAIN documents' = DOMAIN documents
      /\ \A e \in DOMAIN documents : documents'[e].revision = documents[e].revision
  BY <1>1, ReleaseEffect DEF Sound, WorkSound
<1>3. \A k \in Jobs : k.ticket \in outstanding
  BY JobFacts DEF Sound
<1>4. QED
  BY <1>1, <1>2, <1>3 DEF stale

\* Answers leave the requests in the order in which they were made.
LEMMA AnsweredOrder ==
  ASSUME Sound, RevisionsSound, NEW j, Answered(j), UNCHANGED revision
  PROVE  AskedInOrder'
<1>1. Jobs' \subseteq Jobs
  BY AnsweredRecords
<1>2. \A e \in Documents : revision[e] \in Nat
  BY StoredRevisions, RevisionFacts
<1>3. QED
  BY <1>1, <1>2, OrderStays DEF RevisionsSound

\* The step that ends a task without a frame.
LEMMA FramelessSound ==
  ASSUME Sound, RevisionsSound, NEW j, Answered(j),
         UNCHANGED <<client, markdownCache, frames, active>>,
         dom' = dom \/ active = NoPage
  PROVE  RevisionsSound'
<1>1. /\ Jobs' \subseteq Jobs
      /\ \A k \in Jobs' : stale(k)' <=> stale(k)
      /\ DOMAIN documents' = DOMAIN documents
      /\ \A e \in DOMAIN documents : documents'[e].revision = documents[e].revision
      /\ UNCHANGED <<revision, rendererRevision>>
  BY AnsweredRecords DEF client
<1>2. AskedInOrder'
  BY <1>1, AnsweredOrder
<1>3. Current'
  <2>1. \A k \in Jobs' : ~stale(k)' => documents'[of(k)].revision = documents[of(k)].revision
    BY <1>1, FreshFacts
  <2>2. QED
    BY <1>1, <2>1, CurrentStays DEF RevisionsSound
<1>4. StoresBehind'
  BY <1>1 DEF RevisionsSound, StoresBehind, Behind, draws, of
<1>5. StoresCoherent'
  BY <1>1 DEF RevisionsSound, StoresCoherent, Coherent, overtaken
<1>6. TaskOwn' /\ PageIsActive'
  BY DEF Answered, TaskOwn, RevisionsSound, PageIsActive
<1>7. QED
  BY <1>2, <1>3, <1>4, <1>5, <1>6 DEF RevisionsSound

\* A capture keeps revisions sound.
LEMMA CapturedSound ==
  ASSUME Sound, RevisionsSound, Captured
  PROVE  RevisionsSound'
<1>1. /\ answer(job, outcome, task.markup) /\ task # NoTask /\ task.phase = "capture"
      /\ rememberDocument(doc, [contentRevision |-> job.revision, key |-> taskKey])
      /\ IF outcome = "ok" THEN sees(job) ELSE UNCHANGED rendererRevision
      /\ UNCHANGED <<revision, caches, active, dom>> /\ queue' = queue
  BY DEF Captured, Runs
<1>2. Answered(job)
  BY <1>1 DEF Answered, answer, job
<1>3. /\ job \in Jobs /\ doc = of(job) /\ doc \in Documents /\ job.revision \in Nat
      /\ job.revision \in Revisions /\ draws(job) /\ taskKey = job.revision
  BY <1>1, RunningFacts, RevisionFacts, KeyIsRevision DEF draws, Sound, TaskReady, RevisionsSound
<1>4. PICK h \in Jobs : h = job
  BY <1>3
<1> DEFINE d == of(h)
<1>5. /\ Answered(h) /\ draws(h) /\ h.revision \in Nat /\ d \in Documents /\ h.revision # NoRevision
      /\ h.revision \in Revisions
  BY <1>2, <1>3, <1>4, RevisionFacts
<1>6. rememberDocument(d, [contentRevision |-> h.revision, key |-> h.revision])
  BY <1>1, <1>3, <1>4
<1>7. /\ d \in DOMAIN frames' /\ frames'[d].contentRevision = h.revision /\ frames'[d].key = h.revision
      /\ \A e \in DOMAIN frames' \ {d} : e \in DOMAIN frames /\ frames'[e] = frames[e]
  <2> DEFINE f == [contentRevision |-> h.revision, key |-> h.revision]
  <2>1. f \in Frame /\ f.contentRevision = h.revision /\ f.key = h.revision
    BY <1>5 DEF Frame
  <2>2. rememberDocument(d, f)
    BY <1>6
  <2> HIDE DEF f, d
  <2>3. /\ d \in DOMAIN frames' /\ frames'[d] = f
        /\ \A e \in DOMAIN frames' \ {d} : e \in DOMAIN frames /\ frames'[e] = frames[e]
    BY <1>1, <1>5, <2>1, <2>2, RecordEffect DEF Sound
  <2>4. QED
    BY <2>1, <2>3
<1>8. /\ rendererRevision'[d] \in {rendererRevision[d], h.revision}
      /\ \A e \in Documents \ {d} : rendererRevision'[e] = rendererRevision[e]
      /\ markdownCache' = markdownCache
  BY <1>1, <1>4, <1>5 DEF sees, of, Sound, ClientTyped, caches
<1>9. /\ \A k \in Jobs' : k \in Jobs /\ k # h /\ earlier(h, k)
      /\ \A k \in Jobs' : stale(k)' <=> stale(k)
      /\ DOMAIN documents' = DOMAIN documents
      /\ \A e \in DOMAIN documents : documents'[e].revision = documents[e].revision
  BY <1>5, AnsweredRecords
<1>10. d \in DOMAIN markdownCache => markdownCache[d].revision = h.revision
  BY <1>1, <1>3, <1>4 DEF RevisionsSound, TaskOwn
<1> HIDE DEF d
<1>11. AskedInOrder'
  BY <1>1, <1>2, AnsweredOrder
<1>12. ASSUME NEW e \in Documents, NEW r, Behind(e, r), e = d => h.revision <= r
       PROVE  Behind(e, r)'
  BY <1>7, <1>8, <1>12 DEF Behind
<1>13. StoresBehind'
  <2>1. ASSUME NEW e \in Documents
        PROVE  Behind(e, revision[e])'
    <3>1. PICK r : r = revision[e]
      OBVIOUS
    <3>2. Behind(e, r) /\ (e = d => h.revision <= r)
      BY <1>5, <3>1 DEF RevisionsSound, StoresBehind, AskedInOrder, d
    <3>3. Behind(e, r)'
      BY <1>12, <3>2
    <3>4. QED
      BY <1>1, <3>1, <3>3 DEF Behind
  <2>2. ASSUME NEW k \in Jobs', draws(k)
        PROVE  Behind(of(k), k.revision)'
    <3>1. of(k) \in Documents /\ Behind(of(k), k.revision)
      BY <1>9, <2>2, JobFacts DEF Sound, RevisionsSound, StoresBehind
    <3>2. of(k) = d => h.revision <= k.revision
      BY <1>5, <1>9, <2>2 DEF RevisionsSound, AskedInOrder, d
    <3>3. QED
      BY <1>12, <3>1, <3>2
  <2>3. QED
    BY <2>1, <2>2 DEF StoresBehind, Behind, draws, of
<1>14. StoresCoherent'
  <2>1. ASSUME NEW e \in Documents
        PROVE  Coherent(e)'
    <3>1. Coherent(e)
      BY DEF RevisionsSound, StoresCoherent
    <3>2. CASE e # d
      BY <1>7, <1>8, <1>9, <3>1, <3>2 DEF Coherent, overtaken
    <3>3. CASE e = d
      BY <1>5, <1>7, <1>8, <1>10, <3>1, <3>3 DEF Coherent
    <3>4. QED
      BY <3>2, <3>3
  <2>2. QED
    BY <2>1 DEF StoresCoherent
<1>15. Current'
  <2>1. ASSUME NEW k \in Jobs', ~stale(k)'
        PROVE  documents'[of(k)].revision = documents[of(k)].revision
    BY <1>9, <2>1, FreshFacts
  <2>2. ASSUME NEW k \in Jobs', ~stale(k)', k.method = "capture"
        PROVE  rendererRevision'[of(k)] = rendererRevision[of(k)]
    <3>1. k \in Jobs /\ earlier(h, k) /\ rendererRevision[of(k)] = k.revision
          /\ of(k) \in Documents /\ k.revision \in Nat /\ k.revision # NoRevision
      BY <1>9, <2>2, JobFacts, RevisionFacts DEF RevisionsSound, Current, Sound
    <3>2. CASE of(k) = d
      <4>1. k.revision <= h.revision
        BY <1>5, <3>1, <3>2 DEF RevisionsSound, StoresBehind, Behind, d
      <4>2. h.revision <= k.revision
        BY <1>5, <2>2, <3>1, <3>2 DEF RevisionsSound, AskedInOrder, d, draws
      <4>3. QED
        BY <1>5, <1>8, <3>1, <3>2, <4>1, <4>2
    <3>3. QED
      BY <1>8, <3>1, <3>2
  <2>3. Jobs' \subseteq Jobs /\ \A k \in Jobs' : stale(k) => stale(k)'
    BY <1>9
  <2>4. QED
    BY <2>1, <2>2, <2>3, CurrentStays DEF RevisionsSound
<1>16. TaskOwn' /\ PageIsActive'
  BY <1>1, <1>2 DEF Answered, TaskOwn, RevisionsSound, PageIsActive
<1>17. QED
  BY <1>11, <1>13, <1>14, <1>15, <1>16 DEF RevisionsSound

\* So does every end of a task.
LEMMA FinishesSound ==
  ASSUME Sound, RevisionsSound, Finishes
  PROVE  RevisionsSound'
<1>1. CASE Captured
  BY <1>1, CapturedSound
<1>2. CASE LoadRejects
  <2>1. active = NoPage /\ active' = active /\ UNCHANGED <<client, markdownCache, frames>>
    BY <1>2 DEF LoadRejects, Runs, RevisionsSound, TaskOwn, caches, client
  <2>2. QED
    BY <1>2, <2>1, FinishesFacts, FramelessSound
<1>3. CASE ~Captured /\ ~LoadRejects
  <2>1. UNCHANGED <<client, markdownCache, frames, active, dom>>
    BY <1>3 DEF Finishes, DropStale, CaptureCacheMiss, InteractCacheMiss, ParsePrepared,
       InteractDone, InteractStale, AwaitRejects, Starts, Runs, client, caches, page
  <2>2. QED
    BY <2>1, FinishesFacts, FramelessSound
<1>4. QED
  BY <1>1, <1>2, <1>3

\* Revisions are sound at the start.
LEMMA InitRevisions == Init => RevisionsSound
<1>1. SUFFICES ASSUME Init PROVE RevisionsSound
  OBVIOUS
<1>2. Jobs = {}
  BY <1>1 DEF Init, Jobs
<1>3. /\ task = NoTask /\ active = NoPage
      /\ DOMAIN markdownCache = {} /\ DOMAIN frames = {}
      /\ \A d \in Documents : rendererRevision[d] = NoRevision
  BY <1>1 DEF Init
<1>4. QED
  BY <1>2, <1>3 DEF RevisionsSound, AskedInOrder, StoresBehind, Behind, StoresCoherent, Coherent,
     Current, TaskOwn, PageIsActive

\* Every step keeps them sound.
LEMMA NextRevisions == Sound /\ RevisionsSound /\ [Next]_vars => RevisionsSound'
<1>1. SUFFICES ASSUME Sound, RevisionsSound, [Next]_vars PROVE RevisionsSound'
  OBVIOUS
<1>s. Sound'
  BY <1>1, NextSound
<1>r. \A e \in Documents : revision[e] \in Nat
  BY <1>1, StoredRevisions, RevisionFacts
<1>2. CASE UNCHANGED vars
  <2>1. UNCHANGED <<registry, revision, rendererRevision, task, caches, page>> /\ Jobs' = Jobs
    BY <1>2 DEF vars, client, Jobs
  <2>2. QED
    BY <1>1, <1>r, <1>s, <2>1, QuietSound
<1>3. ASSUME NEW d \in Documents, Refused(d) \/ Forget(d)
      PROVE  RevisionsSound'
  BY <1>1, <1>3, RefusedSound, ForgetSound
<1>4. ASSUME NEW d \in Documents, Edit(d)
      PROVE  RevisionsSound'
  <2>1. /\ UNCHANGED <<registry, rendererRevision, task, caches, page>>
        /\ \A e \in Documents : revision'[e] >= revision[e]
    BY <1>1, <1>4, <1>r DEF Edit, Sound, ClientTyped
  <2>2. QED
    BY <1>1, <1>4, <1>s, <2>1, EditFacts, QuietSound
<1>5. CASE ImagesArrive
  <2>1. UNCHANGED <<registry, revision, rendererRevision, task, caches, page>>
    BY <1>5 DEF ImagesArrive, client
  <2>2. QED
    BY <1>1, <1>5, <1>r, <1>s, <2>1, ImagesFacts, QuietSound
<1>6. ASSUME NEW j, Admitted(j),
             \/ j.method \in {"render", "render_prepared", "prepare"} /\ j.revision = revision[of(j)]
             \/ j.method = "capture" /\ j.revision = revision[of(j)] /\ rendererRevision[of(j)] = j.revision
             \/ j.method = "interact" /\ rendererRevision[of(j)] = j.revision
      PROVE  RevisionsSound'
  <2>1. j.ticket.lane \in laneOf(j.method)
    BY <1>6 DEF Admitted, Arrives
  <2>2. draws(j) \/ ~isContent(j)
    BY <1>6, <2>1 DEF draws, isContent, laneOf
  <2>3. QED
    BY <1>1, <1>6, <2>2, AdmittedSound DEF draws
<1>7. CASE StartReused \/ StartPrepared \/ StartCapture
  <2>1. PICK m : \E reused \in BOOLEAN :
          /\ StartsWith(m, reused)
          /\ \/ isContent(head) /\ m.revision = head.revision
             \/ head.method = "capture" /\ of(head) \in DOMAIN markdownCache /\ m = markdownCache[of(head)]
    BY <1>1, <1>7, StoringStarts
  <2>2. QED
    BY <1>1, <2>1, StartsWithSound
<1>8. CASE Next
  BY <1>1, <1>3, <1>4, <1>5, <1>6, <1>7, <1>8, StepCases, PlainStartsSound, ContinuesSound, FinishesSound
<1>9. QED
  BY <1>1, <1>2, <1>8

\* Revisions are sound in every reachable state.
LEMMA SpecRevisions == Spec => []RevisionsSound
BY InitRevisions, NextRevisions, SpecSound, PTL DEF Spec

-----------------------------------------------------------------------------
(***************************************************************************)
(* What is answered.                                                       *)
(***************************************************************************)
LEMMA FinishesOwn ==
  ASSUME Sound, RevisionsSound, Finishes
  PROVE  AnswersOwnRevision'
<1>1. CASE Captured
  <2>1. /\ reply'.job = job /\ reply'.shown = dom
        /\ task # NoTask /\ task.phase = "capture" /\ active # NoPage
    BY <1>1 DEF Captured, answer, Runs
  <2>2. dom.documentId = doc /\ dom.revision = job.revision /\ job.method # "interact"
    BY <2>1 DEF RevisionsSound, TaskOwn, PageIsActive, Sound, TaskReady
  <2>3. QED
    BY <2>1, <2>2 DEF AnswersOwnRevision, doc
<1>2. CASE InteractDone
  <2>1. /\ reply'.job = job /\ reply'.answer = task.markup
        /\ task # NoTask /\ task.phase = "finish"
    BY <1>2 DEF InteractDone, answer, Runs
  <2>2. own(task.markup, job) /\ job.method = "interact"
    BY <2>1 DEF RevisionsSound, TaskOwn, Sound, TaskReady
  <2>3. QED
    BY <2>1, <2>2 DEF AnswersOwnRevision, own, of
<1>3. CASE ParsePrepared
  <2>1. reply'.job = job /\ job.method = "prepare"
    BY <1>3 DEF ParsePrepared, answer
  <2>2. QED
    BY <2>1 DEF AnswersOwnRevision
<1>4. CASE \/ DropStale \/ CaptureCacheMiss \/ InteractCacheMiss
           \/ InteractStale \/ LoadRejects \/ AwaitRejects
  <2>1. reply'.status \in {"stale", "error"}
    BY <1>4 DEF DropStale, CaptureCacheMiss, InteractCacheMiss, InteractStale,
       LoadRejects, AwaitRejects, answer
  <2>2. QED
    BY <2>1 DEF AnswersOwnRevision
<1>5. QED
  BY <1>1, <1>2, <1>3, <1>4 DEF Finishes

\* For any number of documents, revisions and requests, and whatever the caches
\* evict, the sessions forget or the page rejects while a request waits: the frame
\* or the result of an ok answer is of the document and the content revision the
\* request named (service.js run, browser.js ensureDocumentActive).
THEOREM AnswersOwnRevisionHolds == Spec => []AnswersOwnRevision
<1>1. Init => AnswersOwnRevision
  BY DEF Init, NoReply, AnswersOwnRevision
<1>2. Sound /\ RevisionsSound /\ AnswersOwnRevision /\ [Next]_vars => AnswersOwnRevision'
  <2>1. SUFFICES ASSUME Sound, RevisionsSound, AnswersOwnRevision, [Next]_vars
                 PROVE  AnswersOwnRevision'
    OBVIOUS
  <2>2. CASE UNCHANGED vars
    BY <2>1, <2>2 DEF vars, AnswersOwnRevision
  <2>3. CASE Next /\ Finishes
    BY <2>1, <2>3, FinishesOwn
  <2>4. CASE Next /\ ~Finishes
    BY <2>1, <2>4, OnlyFinishesAnswer DEF AnswersOwnRevision
  <2>5. QED
    BY <2>1, <2>2, <2>3, <2>4
<1>3. QED
  BY <1>1, <1>2, SpecSound, SpecRevisions, PTL DEF Spec

\* Without remote images no markup holds a placeholder, and a markup is told from
\* its document and its revision.
NothingPending ==
  /\ \A j \in Jobs : j.placeholder = FALSE
  /\ \A d \in DOMAIN markdownCache : markdownCache[d].placeholder = FALSE
  /\ task # NoTask /\ task.markup \in Markup => task.markup.placeholder = FALSE
  /\ dom \in Markup => dom.placeholder = FALSE

\* Without remote images nothing is pending at the start.
LEMMA InitPending == Init => NothingPending
<1>1. NoMarkup \notin Markup
  BY DEF NoMarkup, Markup
<1>2. QED
  BY <1>1 DEF Init, NothingPending, Jobs

\* And nothing comes to be.
LEMMA NextPending ==
  ASSUME RemoteImages = FALSE, Sound, NothingPending, [Next]_vars
  PROVE  NothingPending'
<1>1. CASE UNCHANGED vars
  <2>1. UNCHANGED <<markdownCache, task, dom>> /\ Jobs' = Jobs
    BY <1>1 DEF vars, caches, page, Jobs
  <2>2. QED
    BY <2>1 DEF NothingPending
<1>2. ASSUME Shrinks, Jobs' \subseteq Jobs \/ (\E j : Jobs' = Jobs \cup {j} /\ j.placeholder = FALSE),
             task' = task
      PROVE  NothingPending'
  BY <1>2 DEF NothingPending, Shrinks
<1>3. ASSUME NEW d \in Documents, Refused(d) \/ Forget(d)
      PROVE  NothingPending'
  <2>1. Shrinks /\ Jobs' = Jobs
    BY <1>3, LossShrinks, RefusedFacts, ForgetFacts
  <2>2. task' = task
    BY <1>3 DEF Refused, Forget
  <2>3. QED
    BY <1>2, <2>1, <2>2
<1>4. ASSUME NEW j, Admitted(j)
      PROVE  NothingPending'
  <2>1. Shrinks /\ Jobs' = Jobs \cup {j}
    BY <1>4, LossShrinks, AdmittedFacts
  <2>2. task' = task /\ j.placeholder = FALSE
    BY <1>4 DEF Admitted, Arrives
  <2>3. QED
    BY <1>2, <2>1, <2>2
<1>5. ASSUME (\E d \in Documents : Edit(d)) \/ ImagesArrive
      PROVE  NothingPending'
  <2>1. Jobs' = Jobs
    BY <1>5, EditFacts, ImagesFacts
  <2>2. UNCHANGED <<markdownCache, task, dom>>
    BY <1>5 DEF Edit, ImagesArrive, caches, page
  <2>3. QED
    BY <2>1, <2>2 DEF NothingPending
<1>6. ASSUME NEW d \in Documents, NEW m \in Markup, NEW reused \in BOOLEAN,
             m.documentId = d, m.placeholder = FALSE, rememberMarkdown(d, m, reused),
             Jobs' = Jobs, task' # NoTask => task'.markup = m
      PROVE  NothingPending'
  <2>1. /\ d \in DOMAIN markdownCache' /\ markdownCache'[d] = m
        /\ \A e \in DOMAIN markdownCache' \ {d} :
             e \in DOMAIN markdownCache /\ markdownCache'[e] = markdownCache[e]
        /\ dom' = dom
    BY <1>6, RememberEffect DEF Sound
  <2>2. QED
    BY <1>6, <2>1 DEF NothingPending
<1>7. ASSUME StartReused \/ StartPrepared \/ StartCapture
      PROVE  NothingPending'
  <2>1. head \in Jobs /\ of(head) \in Documents
    BY <1>7, HeadFacts DEF StartReused, StartPrepared, StartCapture, Starts
  <2>2. PICK m : \E reused \in BOOLEAN : StartsWith(m, reused) /\ m.placeholder = FALSE
    <3>1. head.placeholder = FALSE
      BY <2>1 DEF NothingPending
    <3>2. of(head) \in DOMAIN markdownCache => markdownCache[of(head)].placeholder = FALSE
      BY DEF NothingPending
    <3>3. QED
      BY <1>7, <3>1, <3>2, StoringStarts
  <2>r. PICK reused \in BOOLEAN : StartsWith(m, reused)
    BY <2>2
  <2>3. /\ Jobs' = Jobs /\ m \in Markup /\ m.documentId = of(head)
        /\ rememberMarkdown(of(head), m, reused)
        /\ task'.markup = m
    BY <2>r, StartsWithFacts DEF StartsWith, awaits
  <2>4. QED
    BY <1>6, <2>1, <2>2, <2>3
<1>8. ASSUME StartParse \/ StartInteract
      PROVE  NothingPending'
  <2>1. /\ Jobs' = Jobs /\ UNCHANGED <<markdownCache, dom>>
    BY <1>8, PlainStarts DEF caches, page
  <2>2. task'.markup = NoMarkup
        \/ (of(head) \in DOMAIN markdownCache /\ task'.markup = markdownCache[of(head)])
    BY <1>8 DEF StartParse, StartInteract, awaits, frameMatches, cached, cachedMarkup, of
  <2>3. NoMarkup \notin Markup
    BY DEF NoMarkup, Markup
  <2>4. QED
    BY <2>1, <2>2, <2>3 DEF NothingPending
<1>9. ASSUME Continues
      PROVE  NothingPending'
  <2>1. /\ Jobs' = Jobs /\ task # NoTask /\ task \in Task /\ doc \in Documents
    BY <1>9, ContinuesFacts, RunningFacts
  <2>2. CASE ParseRendered
    <3>1. /\ rememberMarkdown(doc, parsed, FALSE) /\ task'.markup = parsed
          /\ parsed \in Markup /\ parsed.documentId = doc /\ parsed.placeholder = FALSE
      BY <2>1, <2>2, ParsedFacts DEF ParseRendered, Task
    <3>2. PICK m \in Markup : m = parsed
      BY <3>1
    <3>3. QED
      BY <1>6, <2>1, <3>1, <3>2
  <2>3. CASE UseLayout \/ LoadDocument \/ Loaded
    <3>1. /\ task'.markup = task.markup /\ dom' \in {dom, task.markup}
          /\ markdownCache' = markdownCache
      BY <2>1, <2>3 DEF UseLayout, LoadDocument, Loaded, goesOn, Task, page, caches
    <3>2. QED
      BY <2>1, <3>1 DEF NothingPending
  <2>4. CASE Evaluated
    <3>1. task'.markup = dom /\ UNCHANGED <<markdownCache, dom>>
      BY <2>1, <2>4 DEF Evaluated, Task, page, caches
    <3>2. QED
      BY <2>1, <3>1 DEF NothingPending
  <2>5. QED
    BY <1>9, <2>2, <2>3, <2>4 DEF Continues
<1>10. ASSUME Finishes
       PROVE  NothingPending'
  <2>1. task' = NoTask /\ Jobs' \subseteq Jobs
    BY <1>10, FinishesFacts, AnsweredFacts DEF Sound
  <2>2. markdownCache' = markdownCache
    BY <1>10 DEF Finishes, DropStale, CaptureCacheMiss, InteractCacheMiss, ParsePrepared, Captured,
       InteractDone, InteractStale, LoadRejects, AwaitRejects, caches
  <2>3. dom' = dom \/ (task # NoTask /\ dom' = task.markup)
    BY <1>10 DEF Finishes, DropStale, CaptureCacheMiss, InteractCacheMiss, ParsePrepared, Captured,
       InteractDone, InteractStale, LoadRejects, AwaitRejects, page, Runs
  <2>4. QED
    BY <2>1, <2>2, <2>3 DEF NothingPending
<1>11. CASE Next
  BY <1>3, <1>4, <1>5, <1>7, <1>8, <1>9, <1>10, <1>11, StepCases
<1>12. QED
  BY <1>1, <1>11

\* The frame of an answer shows the markup the answer speaks of.
LEMMA FinishesShow ==
  ASSUME Sound, RevisionsSound, NothingPending, Finishes
  PROVE  FrameShowsAnswer'
<1>1. CASE Captured
  <2>1. /\ reply'.shown = dom /\ reply'.answer = task.markup
        /\ task # NoTask /\ task.phase = "capture" /\ active # NoPage
    BY <1>1 DEF Captured, answer, Runs
  <2>2. /\ own(task.markup, job) /\ dom \in Markup
        /\ dom.documentId = of(job) /\ dom.revision = job.revision
    BY <2>1 DEF RevisionsSound, TaskOwn, PageIsActive, doc, of
  <2>3. task.markup.placeholder = FALSE /\ dom.placeholder = FALSE
    BY <2>1, <2>2 DEF NothingPending, own
  <2>4. dom = task.markup
    BY <2>2, <2>3 DEF own, Markup
  <2>5. QED
    BY <2>1, <2>4 DEF FrameShowsAnswer
<1>2. CASE ParsePrepared \/ InteractDone
  <2>1. reply'.job = job /\ job.method \in {"prepare", "interact"}
    BY <1>2 DEF ParsePrepared, InteractDone, answer, Runs, Sound, TaskReady
  <2>2. QED
    BY <2>1 DEF FrameShowsAnswer
<1>3. CASE \/ DropStale \/ CaptureCacheMiss \/ InteractCacheMiss
           \/ InteractStale \/ LoadRejects \/ AwaitRejects
  <2>1. reply'.status \in {"stale", "error"}
    BY <1>3 DEF DropStale, CaptureCacheMiss, InteractCacheMiss, InteractStale,
       LoadRejects, AwaitRejects, answer
  <2>2. QED
    BY <2>1 DEF FrameShowsAnswer
<1>4. QED
  BY <1>1, <1>2, <1>3 DEF Finishes

\* While no document has a remote image the frame of a render, besides, shows the
\* very markup the render was answered with.  (With remote images it need not: two
\* markups of one revision, with a placeholder and without, have one layout key.)
THEOREM AnswersAreOwnHolds ==
  ASSUME RemoteImages = FALSE
  PROVE  Spec => []AnswersAreOwn
<1>1. Init => FrameShowsAnswer
  BY DEF Init, NoReply, FrameShowsAnswer
<1>2. Sound /\ NothingPending /\ [Next]_vars => NothingPending'
  BY NextPending
<1>3. Sound /\ RevisionsSound /\ NothingPending /\ FrameShowsAnswer /\ [Next]_vars => FrameShowsAnswer'
  <2>1. SUFFICES ASSUME Sound, RevisionsSound, NothingPending, FrameShowsAnswer, [Next]_vars
                 PROVE  FrameShowsAnswer'
    OBVIOUS
  <2>2. CASE UNCHANGED vars
    BY <2>1, <2>2 DEF vars, FrameShowsAnswer
  <2>3. CASE Next /\ Finishes
    BY <2>1, <2>3, FinishesShow
  <2>4. CASE Next /\ ~Finishes
    BY <2>1, <2>4, OnlyFinishesAnswer DEF FrameShowsAnswer
  <2>5. QED
    BY <2>1, <2>2, <2>3, <2>4
<1>4. AnswersOwnRevision /\ FrameShowsAnswer => AnswersAreOwn
  BY DEF AnswersAreOwn
<1>5. QED
  BY <1>1, <1>2, <1>3, <1>4, InitPending, SpecSound, SpecRevisions, AnswersOwnRevisionHolds, PTL DEF Spec

-----------------------------------------------------------------------------
(***************************************************************************)
(* What is remembered of a selection or a search.                          *)
(***************************************************************************)

\* What is remembered of document e was taken from the markup cached for it.
Fits(e) ==
  /\ e \in DOMAIN markdownCache
  /\ e \in DOMAIN documents
  /\ interactionState[e].contentRevision = markdownCache[e].revision
  /\ \A m \in {interactionState[e].selection, interactionState[e].find} :
       m # NoMarkup => m.documentId = e /\ m.revision = markdownCache[e].revision

\* What leaves the stores of a document alone leaves its interaction state fitting.
LEMMA FitsStays ==
  ASSUME NEW e, Fits(e),
         interactionState'[e] = interactionState[e],
         e \in DOMAIN markdownCache' /\ markdownCache'[e] = markdownCache[e],
         e \in DOMAIN documents'
  PROVE  Fits(e)'
BY DEF Fits

\* So does what takes the state of a document with its markup.
LEMMA LossFits ==
  ASSUME Sound, InteractionStateCurrent,
         \/ \E d \in Documents : Refused(d) \/ Forget(d)
         \/ \E j : Admitted(j)
  PROVE  InteractionStateCurrent'
<1>1. ASSUME NEW D, \A a, b \in D : a = b, forgetDocument(D), DOMAIN documents \ D \subseteq DOMAIN documents'
      PROVE  InteractionStateCurrent'
  <2>1. /\ DOMAIN markdownCache' = DOMAIN markdownCache \ D
        /\ \A e \in DOMAIN markdownCache' : markdownCache'[e] = markdownCache[e]
        /\ DOMAIN interactionState' = DOMAIN interactionState \ D
        /\ \A e \in DOMAIN interactionState' : interactionState'[e] = interactionState[e]
    BY <1>1, LossEffect DEF Sound
  <2>2. \A e \in DOMAIN interactionState' : Fits(e)'
    BY <1>1, <2>1, FitsStays DEF InteractionStateCurrent, Fits
  <2>3. QED
    BY <2>2 DEF InteractionStateCurrent, Fits
<1>2. ASSUME NEW d \in Documents, Refused(d)
      PROVE  InteractionStateCurrent'
  <2>1. PICK l \in Registry!LaneNames, rev \in Revisions : Registry!refuse(d, l, rev)
    BY <1>2 DEF Refused
  <2>2. DOMAIN documents' = (DOMAIN documents \ Registry!evictedBy(d)) \cup {d}
    BY <2>1, RefuseEffect DEF Sound, WorkSound
  <2>3. QED
    BY <1>1, <1>2, <2>2, EvictsOne DEF Refused, Sound, WorkSound
<1>3. ASSUME NEW d \in Documents, Forget(d)
      PROVE  InteractionStateCurrent'
  <2>1. DOMAIN documents' = DOMAIN documents \ {d}
    BY <1>3, ForgetEffect DEF Forget, Sound, WorkSound
  <2>2. QED
    BY <1>1, <1>3, <2>1 DEF Forget
<1>4. ASSUME NEW j, Admitted(j)
      PROVE  InteractionStateCurrent'
  <2>1. PICK d \in Documents, l \in Registry!LaneNames, rev \in Revisions :
          d = of(j) /\ Registry!admit(d, l, rev)
    BY <1>4 DEF Admitted, Arrives, Job, Registry!Ticket, of
  <2>2. DOMAIN documents' = (DOMAIN documents \ Registry!evictedBy(d)) \cup {d}
    BY <2>1, AdmitEffect DEF Sound, WorkSound
  <2>3. QED
    BY <1>1, <1>4, <2>1, <2>2, EvictsOne DEF Admitted, Sound, WorkSound
<1>5. QED
  BY <1>2, <1>3, <1>4

\* Remembering another markup drops the interaction state.
LEMMA RememberFits ==
  ASSUME Sound, InteractionStateCurrent, NEW d \in Documents, NEW m \in Markup, m.documentId = d,
         NEW reused \in BOOLEAN, rememberMarkdown(d, m, reused),
         reused => m = markdownCache[d],
         documents' = documents
  PROVE  InteractionStateCurrent'
<1>1. /\ d \in DOMAIN markdownCache' /\ markdownCache'[d] = m
      /\ \A e \in DOMAIN markdownCache' \ {d} :
           e \in DOMAIN markdownCache /\ markdownCache'[e] = markdownCache[e]
      /\ \A e \in DOMAIN interactionState' :
           /\ e \in DOMAIN interactionState /\ interactionState'[e] = interactionState[e]
           /\ e \in DOMAIN markdownCache => e \in DOMAIN markdownCache'
           /\ reused \/ e # d
  BY RememberEffect DEF Sound
<1>2. \A e \in DOMAIN interactionState' : Fits(e)'
  BY <1>1, FitsStays DEF InteractionStateCurrent, Fits
<1>3. QED
  BY <1>2 DEF InteractionStateCurrent, Fits

\* An interaction's result is stored only for the markup it was computed on.
LEMMA InteractDoneFits ==
  ASSUME Sound, RevisionsSound, InteractionStateCurrent, InteractDone
  PROVE  InteractionStateCurrent'
<1>1. /\ task # NoTask /\ task.phase = "finish" /\ outcome = "ok"
      /\ answer(job, "ok", task.markup) /\ UNCHANGED markdownCache
  BY DEF InteractDone, Runs
<1>2. Answered(job)
  BY <1>1 DEF InteractDone, Runs, Answered, answer, job
<1>3. DOMAIN documents' = DOMAIN documents
  BY <1>2, AnsweredRecords
<1> DEFINE state == interactionStateFor(doc, job.revision)
           next == CASE job.action = "selection" -> [state EXCEPT !.selection = task.markup]
                     [] job.action = "find"      -> [state EXCEPT !.find = task.markup]
                     [] OTHER                    -> state
<1>4. interactionState' = [e \in DOMAIN interactionState \cup {doc} |->
                             IF e = doc THEN next ELSE interactionState[e]]
  BY DEF InteractDone
<1>5. /\ ~stale(job) /\ own(task.markup, job) /\ job.method = "interact"
      /\ doc \in DOMAIN markdownCache /\ markdownCache[doc].revision = job.revision
      /\ doc \in DOMAIN documents
  <2>1. ~stale(job) /\ job.method = "interact"
    BY <1>1 DEF outcome, stale, Sound, TaskReady
  <2>2. doc \in DOMAIN documents
    BY <2>1, FreshFacts DEF doc, of
  <2>3. QED
    BY <1>1, <2>1, <2>2 DEF RevisionsSound, TaskOwn, draws
<1>6. task.markup.documentId = doc /\ task.markup.revision = job.revision /\ doc \in Documents
      /\ task.markup \in Markup /\ job.revision \in Revisions
  BY <1>1, <1>5, RunningFacts DEF own
<1>7. /\ state \in Remembered
      /\ state.contentRevision = job.revision
      /\ \A m \in {state.selection, state.find} : m # NoMarkup => m.documentId = doc /\ m.revision = job.revision
  <2>1. CASE doc \in DOMAIN interactionState /\ interactionState[doc].contentRevision = job.revision
    <3>1. state = interactionState[doc]
      BY <2>1 DEF interactionStateFor
    <3>2. interactionState[doc] \in Remembered
      BY <2>1 DEF Sound, StoresTyped
    <3>3. \A m \in {interactionState[doc].selection, interactionState[doc].find} :
            m # NoMarkup => m.documentId = doc /\ m.revision = markdownCache[doc].revision
      BY <2>1 DEF InteractionStateCurrent
    <3>4. QED
      BY <1>5, <2>1, <3>1, <3>2, <3>3
  <2>2. CASE ~(doc \in DOMAIN interactionState /\ interactionState[doc].contentRevision = job.revision)
    <3>1. state = [contentRevision |-> job.revision, selection |-> NoMarkup, find |-> NoMarkup]
      BY <2>2 DEF interactionStateFor
    <3> HIDE DEF state
    <3>2. QED
      BY <1>6, <3>1 DEF Remembered
  <2>3. QED
    BY <2>1, <2>2
<1> HIDE DEF state
<1>8. /\ next.contentRevision = job.revision
      /\ \A m \in {next.selection, next.find} : m # NoMarkup => m.documentId = doc /\ m.revision = job.revision
  <2>1. CASE next = [state EXCEPT !.selection = task.markup]
    <3> HIDE DEF next
    <3>1. next.contentRevision = state.contentRevision /\ next.selection = task.markup /\ next.find = state.find
      BY <1>7, <2>1 DEF Remembered
    <3>2. QED
      BY <1>6, <1>7, <3>1
  <2>2. CASE next = [state EXCEPT !.find = task.markup]
    <3> HIDE DEF next
    <3>1. next.contentRevision = state.contentRevision /\ next.find = task.markup /\ next.selection = state.selection
      BY <1>7, <2>2 DEF Remembered
    <3>2. QED
      BY <1>6, <1>7, <3>1
  <2>3. CASE next = state
    <3> HIDE DEF next
    <3>1. QED
      BY <1>7, <2>3
  <2>4. QED
    BY <2>1, <2>2, <2>3
<1> HIDE DEF next
<1>9. ASSUME NEW e \in DOMAIN interactionState'
      PROVE  Fits(e)'
  <2>1. CASE e = doc
    <3>1. interactionState'[e] = next
      BY <1>4, <2>1
    <3>2. QED
      BY <1>1, <1>3, <1>5, <1>8, <2>1, <3>1 DEF Fits
  <2>2. CASE e # doc
    <3>1. e \in DOMAIN interactionState /\ interactionState'[e] = interactionState[e]
      BY <1>4, <1>9, <2>2
    <3>2. QED
      BY <1>1, <1>3, <3>1, FitsStays DEF InteractionStateCurrent, Fits
  <2>3. QED
    BY <2>1, <2>2
<1>10. QED
  BY <1>9 DEF InteractionStateCurrent, Fits

\* Every step keeps the interaction state fitting.
LEMMA NextFits ==
  ASSUME Sound, RevisionsSound, InteractionStateCurrent, [Next]_vars
  PROVE  InteractionStateCurrent'
<1>1. ASSUME UNCHANGED <<interactionState, markdownCache>>, DOMAIN documents' = DOMAIN documents
      PROVE  InteractionStateCurrent'
  BY <1>1 DEF InteractionStateCurrent
<1>2. CASE UNCHANGED vars
  BY <1>1, <1>2 DEF vars, caches, registry
<1>3. ASSUME \/ \E d \in Documents : Edit(d)
             \/ ImagesArrive \/ StartParse \/ StartInteract \/ UseLayout \/ LoadDocument \/ Loaded \/ Evaluated
      PROVE  InteractionStateCurrent'
  <2>1. UNCHANGED <<registry, caches>>
    BY <1>3 DEF Edit, ImagesArrive, StartParse, StartInteract, awaits, UseLayout, LoadDocument,
       Loaded, Evaluated, goesOn
  <2>2. QED
    BY <1>1, <2>1 DEF caches, registry
<1>4. ASSUME StartReused \/ StartPrepared \/ StartCapture
      PROVE  InteractionStateCurrent'
  <2>1. of(head) \in Documents
    BY <1>4, HeadFacts DEF StartReused, StartPrepared, StartCapture, Starts
  <2>2. PICK m : \E reused \in BOOLEAN : StartsWith(m, reused) /\ (reused => m = markdownCache[of(head)])
    BY <1>4, StoringStarts
  <2>3. PICK reused \in BOOLEAN : StartsWith(m, reused) /\ (reused => m = markdownCache[of(head)])
    BY <2>2
  <2>4. /\ m \in Markup /\ m.documentId = of(head) /\ rememberMarkdown(of(head), m, reused)
        /\ documents' = documents
    BY <2>3 DEF StartsWith, awaits, registry
  <2>5. QED
    BY <2>1, <2>3, <2>4, RememberFits
<1>5. ASSUME ParseRendered
      PROVE  InteractionStateCurrent'
  <2>1. /\ rememberMarkdown(doc, parsed, FALSE) /\ documents' = documents
        /\ parsed \in Markup /\ parsed.documentId = doc /\ doc \in Documents
    BY <1>5, ParsedFacts, RunningFacts DEF ParseRendered, Runs, registry
  <2>2. PICK m \in Markup : m = parsed
    BY <2>1
  <2>3. QED
    BY <2>1, <2>2, RememberFits
<1>6. ASSUME Finishes, ~InteractDone
      PROVE  InteractionStateCurrent'
  <2>1. UNCHANGED <<interactionState, markdownCache>>
    BY <1>6 DEF Finishes, DropStale, CaptureCacheMiss, InteractCacheMiss, ParsePrepared, Captured,
       InteractStale, LoadRejects, AwaitRejects, caches
  <2>2. DOMAIN documents' = DOMAIN documents
    BY <1>6, FinishesFacts, AnsweredRecords
  <2>3. QED
    BY <1>1, <2>1, <2>2
<1>7. CASE Next
  BY <1>3, <1>4, <1>5, <1>6, <1>7, StepCases, LossFits, InteractDoneFits DEF Continues
<1>8. QED
  BY <1>2, <1>7

\* For any number of documents and whatever the caches evict: a selection or a
\* search is remembered only beside the markup it was taken from, so that a later
\* interaction never applies one to another body of the document (service.js
\* interactionState, rememberMarkdown).
THEOREM InteractionStateCurrentHolds == Spec => []InteractionStateCurrent
<1>1. Init => InteractionStateCurrent
  BY DEF Init, InteractionStateCurrent
<1>2. Sound /\ RevisionsSound /\ InteractionStateCurrent /\ [Next]_vars => InteractionStateCurrent'
  BY NextFits
<1>3. QED
  BY <1>1, <1>2, SpecSound, SpecRevisions, PTL DEF Spec
=============================================================================
