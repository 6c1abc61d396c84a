----------------------------- MODULE LanesProofs -----------------------------
(***************************************************************************)
(* Theorems about the lane registry, for every set of documents and        *)
(* revisions and every bound.                                              *)
(*                                                                         *)
(* Everything rests on the inductive invariant IInv of module Lanes: what  *)
(* an operation does to the staleness of the tickets already issued (the   *)
(* ...Staleness lemmas) follows from it, and the theorems from them.       *)
(***************************************************************************)
EXTENDS Lanes, SequenceTheorems, FiniteSetTheorems, TLAPS

-----------------------------------------------------------------------------
(***************************************************************************)
(* What touching and deleting a key does to a recency order without        *)
(* duplicates, for keys of any set and any positive bound.                 *)
(***************************************************************************)

\* Deleting a key of the Map removes it and only it.
LEMMA WithoutFacts ==
  ASSUME NEW S, NEW o \in Seq(S), Distinct(o), NEW k
  PROVE  /\ Without(o, k) \in Seq(S)
         /\ Distinct(Without(o, k))
         /\ Range(Without(o, k)) = Range(o) \ {k}
<1>1. CASE k \notin Range(o)
  BY <1>1 DEF Without
<1>2. CASE k \in Range(o)
  <2> DEFINE i == Position(o, k)
             w == Without(o, k)
  <2>1. i \in 1 .. Len(o) /\ o[i] = k
    <3>1. \E j \in DOMAIN o : o[j] = k
      BY <1>2 DEF Range
    <3>2. QED
      BY <3>1 DEF Position
  <2>2. /\ w \in Seq(S)
        /\ Len(w) = Len(o) - 1
        /\ \A j \in 1 .. Len(w) : w[j] = IF j < i THEN o[j] ELSE o[j + 1]
    <3> DEFINE before == SubSeq(o, 1, i - 1)
               after  == SubSeq(o, i + 1, Len(o))
    <3>1. w = before \o after
      BY <1>2 DEF Without
    <3>2. /\ before \in Seq(S)
          /\ Len(before) = i - 1
          /\ \A j \in 1 .. i - 1 : before[j] = o[j]
      BY <2>1, SubSeqProperties
    <3>3. /\ after \in Seq(S)
          /\ Len(after) = Len(o) - i
          /\ \A j \in 1 .. Len(o) - i : after[j] = o[i + j]
      BY <2>1, SubSeqProperties
    <3> HIDE DEF before, after, i, w
    <3>4. /\ w \in Seq(S)
          /\ Len(w) = Len(before) + Len(after)
          /\ \A j \in 1 .. Len(w) :
               w[j] = IF j <= Len(before) THEN before[j] ELSE after[j - Len(before)]
      <4>1. Len(before) + Len(after) \in Nat
        BY <3>2, <3>3
      <4>2. QED
        BY <3>1, <3>2, <3>3, <4>1
    <3>5. QED
      BY <2>1, <3>2, <3>3, <3>4, SMTT(30)
  <2> HIDE DEF i, w
  <2>d. DOMAIN w = 1 .. Len(w) /\ DOMAIN o = 1 .. Len(o) /\ Len(o) \in Nat
    BY <2>2
  <2>3. Distinct(w)
    <3>1. SUFFICES ASSUME NEW a \in 1 .. Len(w), NEW b \in 1 .. Len(w), w[a] = w[b]
                   PROVE  a = b
      BY <2>d DEF Distinct
    <3> DEFINE from(j) == IF j < i THEN j ELSE j + 1
    <3>2. \A j \in 1 .. Len(w) : from(j) \in 1 .. Len(o) /\ w[j] = o[from(j)]
      BY <2>1, <2>2, <2>d
    <3>3. from(a) = from(b)
      <4> HIDE DEF from
      <4>1. QED
        BY <3>1, <3>2, <2>d DEF Distinct
    <3>4. QED
      BY <3>3, <2>1, <2>d
  <2>4. Range(w) \subseteq Range(o) \ {k}
    <3>1. SUFFICES ASSUME NEW j \in 1 .. Len(w)
                   PROVE  w[j] \in Range(o) \ {k}
      BY <2>d DEF Range
    <3>2. CASE j < i
      BY <2>1, <2>2, <2>d, <3>2 DEF Distinct, Range
    <3>3. CASE ~(j < i)
      <4>1. j + 1 \in 1 .. Len(o) /\ w[j] = o[j + 1] /\ j + 1 # i
        BY <2>1, <2>2, <2>d, <3>3
      <4>2. QED
        BY <2>1, <2>d, <4>1 DEF Distinct, Range
    <3>4. QED
      BY <3>2, <3>3
  <2>5. Range(o) \ {k} \subseteq Range(w)
    <3>1. SUFFICES ASSUME NEW j \in 1 .. Len(o), o[j] # k
                   PROVE  \E n \in 1 .. Len(w) : w[n] = o[j]
      BY <2>d DEF Range
    <3>2. CASE j < i
      BY <2>1, <2>2, <3>2
    <3>3. CASE j > i
      <4>1. j - 1 \in 1 .. Len(w) /\ w[j - 1] = o[j]
        BY <2>1, <2>2, <3>3
      <4>2. QED
        BY <4>1
    <3>4. QED
      BY <2>1, <3>1, <3>2, <3>3
  <2>6. QED
    BY <2>2, <2>3, <2>4, <2>5 DEF w
<1>3. QED
  BY <1>1, <1>2

\* A touched key is in the order, nothing else enters it, and it stays distinct:
\* the document of a request is never the one its own lookup evicts.
LEMMA TouchedFacts ==
  ASSUME NEW S, NEW o \in Seq(S), Distinct(o), NEW k \in S, NEW max \in Nat \ {0}
  PROVE  /\ Touched(o, k, max) \in Seq(S)
         /\ Distinct(Touched(o, k, max))
         /\ k \in Range(Touched(o, k, max))
         /\ Range(Touched(o, k, max)) \subseteq Range(o) \cup {k}
<1> DEFINE w == Without(o, k)
           m == Append(w, k)
           t == Touched(o, k, max)
<1>1. w \in Seq(S) /\ Distinct(w) /\ Range(w) = Range(o) \ {k}
  BY WithoutFacts
<1> HIDE DEF w
<1>2. /\ m \in Seq(S)
      /\ Len(m) = Len(w) + 1
      /\ m[Len(m)] = k
      /\ \A j \in 1 .. Len(w) : m[j] = w[j]
  BY <1>1
<1>3. Distinct(m)
  <2>1. \A j \in 1 .. Len(w) : w[j] # k
    <3>1. DOMAIN w = 1 .. Len(w)
      BY <1>1
    <3>2. QED
      BY <1>1, <3>1 DEF Range
  <2>2. QED
    BY <1>1, <1>2, <2>1 DEF Distinct
<1>4. Range(m) = Range(w) \cup {k}
  <2>1. \A j \in 1 .. Len(m) : m[j] \in Range(w) \cup {k}
    BY <1>1, <1>2 DEF Range
  <2>2. \A j \in 1 .. Len(w) : w[j] \in Range(m)
    BY <1>1, <1>2 DEF Range
  <2>3. k \in Range(m)
    BY <1>1, <1>2 DEF Range
  <2>4. Range(m) = {m[j] : j \in 1 .. Len(m)} /\ Range(w) = {w[j] : j \in 1 .. Len(w)}
    BY <1>1, <1>2 DEF Range
  <2>5. QED
    BY <2>1, <2>2, <2>3, <2>4
<1> HIDE DEF m
<1>5. t = IF Len(m) > max THEN Tail(m) ELSE m
  BY DEF Touched, m, w
<1> HIDE DEF t
<1>6. CASE Len(m) > max
  <2>1. /\ t \in Seq(S)
        /\ Len(t) = Len(m) - 1
        /\ \A j \in 1 .. Len(t) : t[j] = m[j + 1]
    BY <1>2, <1>5, <1>6
  <2>2. Distinct(t)
    <3>1. DOMAIN t = 1 .. Len(t) /\ DOMAIN m = 1 .. Len(m)
      BY <1>2, <2>1
    <3>2. QED
      BY <1>2, <1>3, <2>1, <3>1, SMTT(30) DEF Distinct
  <2>3. Range(t) \subseteq Range(m)
    BY <1>2, <2>1 DEF Range
  <2>4. k \in Range(t)
    <3>1. Len(t) \in 1 .. Len(t) /\ t[Len(t)] = k
      BY <1>2, <1>6, <2>1
    <3>2. QED
      BY <2>1, <3>1 DEF Range
  <2>5. QED
    BY <1>1, <1>4, <2>1, <2>2, <2>3, <2>4 DEF t
<1>7. CASE ~(Len(m) > max)
  BY <1>1, <1>2, <1>3, <1>4, <1>5, <1>7 DEF t
<1>8. QED
  BY <1>6, <1>7

\* Touching a key drops at most one key.
LEMMA TouchedDropsOne ==
  ASSUME NEW S, NEW o \in Seq(S), Distinct(o), NEW k \in S, NEW max \in Nat \ {0},
         NEW a \in Range(o) \ Range(Touched(o, k, max)),
         NEW b \in Range(o) \ Range(Touched(o, k, max))
  PROVE  a = b
<1> DEFINE w == Without(o, k)
           m == Append(w, k)
           t == Touched(o, k, max)
<1>1. w \in Seq(S) /\ Range(w) = Range(o) \ {k} /\ k \in Range(t)
  BY WithoutFacts, TouchedFacts
<1>2. t = IF Len(m) > max THEN Tail(m) ELSE m
  BY DEF Touched
<1> HIDE DEF w, t
<1>3. m \in Seq(S) /\ Len(m) = Len(w) + 1 /\ \A i \in 1 .. Len(w) : m[i] = w[i]
  BY <1>1
<1> HIDE DEF m
<1>4. ASSUME NEW x \in Range(w), x \notin Range(t)
      PROVE  x = m[1]
  <2>1. PICK i \in 1 .. Len(w) : w[i] = x
    BY <1>1 DEF Range
  <2>2. i \in 1 .. Len(m) /\ m[i] = x
    BY <1>1, <1>3, <2>1, SMTT(30)
  <2>3. CASE t = m
    BY <1>3, <1>4, <2>2, <2>3 DEF Range
  <2>4. CASE t = Tail(m) /\ i # 1
    <3>1. i - 1 \in 1 .. Len(t) /\ t[i - 1] = x /\ t \in Seq(S)
      BY <1>3, <2>2, <2>4
    <3>2. QED
      BY <1>4, <3>1 DEF Range
  <2>5. QED
    BY <1>2, <2>2, <2>3, <2>4
<1>5. QED
  BY <1>1, <1>4 DEF t

-----------------------------------------------------------------------------
(***************************************************************************)
(* The registry.                                                           *)
(***************************************************************************)
\* Looking a document up gives it a record, keeps the others or evicts them,
\* and creates no record but its own.
LEMMA LookupFacts ==
  ASSUME IInv, NEW d \in Documents
  PROVE  /\ recencyAfter(d) \in Seq(Documents)
         /\ Distinct(recencyAfter(d))
         /\ Range(recencyAfter(d)) \subseteq DOMAIN documents \cup {d}
         /\ d \in Range(recencyAfter(d))
         /\ DOMAIN ensureRecord(d) = Range(recencyAfter(d))
         /\ ensureRecord(d) \in [Range(recencyAfter(d)) -> Record]
         /\ \A e \in Range(recencyAfter(d)) :
              ensureRecord(d)[e] = IF e \in DOMAIN documents THEN documents[e] ELSE newRecord
         /\ newRecord \in Record
<1>1. /\ recencyAfter(d) \in Seq(Documents)
      /\ Distinct(recencyAfter(d))
      /\ d \in Range(recencyAfter(d))
      /\ Range(recencyAfter(d)) \subseteq DOMAIN documents \cup {d}
  BY TouchedFacts, LanesAssumption DEF IInv, TypeOK, OrderIsDistinct, recencyAfter
<1>2. newRecord \in Record
  BY DEF newRecord, Record
<1>3. QED
  BY <1>1, <1>2 DEF ensureRecord, IInv, TypeOK

\* What stamping a ticket writes into the record of its document.
LEMMA StampFacts ==
  ASSUME NEW record \in Record, NEW l \in LaneNames,
         NEW rev \in Revisions \cup {NoRevision}, NEW s \in Nat
  PROVE  /\ stamped(record, l, rev, s) \in Record
         /\ stamped(record, l, rev, s).contentEpoch =
              IF l = "content" THEN record.contentEpoch + 1 ELSE record.contentEpoch
         /\ stamped(record, l, rev, s).revision = IF l = "content" THEN rev ELSE record.revision
         /\ stamped(record, l, rev, s).lanes[l] = s
         /\ \A m \in LaneNames \ {l} :
              stamped(record, l, rev, s).lanes[m] = record.lanes[m]
<1>1. /\ record.contentEpoch \in Nat /\ record.revision \in Revisions \cup {NoRevision}
      /\ record.lanes \in [LaneNames -> Nat] /\ record.pending \in [LaneNames -> Nat]
  BY DEF Record
<1>2. QED
  BY <1>1 DEF stamped, Record
-----------------------------------------------------------------------------
LEMMA InitIInv == Init => IInv
<1>1. SUFFICES ASSUME Init PROVE IInv
  OBVIOUS
<1>2. order \in Seq(Documents) /\ DOMAIN order = {} /\ DOMAIN documents = {}
  BY <1>1 DEF Init
<1>3. QED
  BY <1>1, <1>2, LanesAssumption
  DEF Init, IInv, TypeOK, OrderIsDistinct, StampsAreIssued, SerialsAreUnique,
      EpochsOnlyGrow, Distinct, Range

\* What admitting a request does to the registry.
LEMMA AdmitFacts ==
  ASSUME IInv, NEW d \in Documents, NEW l \in LaneNames,
         NEW rev \in Revisions \cup {NoRevision}, admit(d, l, rev)
  PROVE  /\ DOMAIN documents' = Range(recencyAfter(d))
         /\ documents' \in [DOMAIN documents' -> Record]
         /\ \A e \in DOMAIN documents' \ {d} : e \in DOMAIN documents /\ documents'[e] = documents[e]
         /\ documents'[d] = stamped(ensureRecord(d)[d], l, rev, serial + 1)
         /\ ensureRecord(d)[d] \in Record
<1>1. ensureRecord(d)[d] \in Record
  BY LookupFacts
<1>2. stamped(ensureRecord(d)[d], l, rev, serial + 1) \in Record
  <2>1. serial + 1 \in Nat
    BY DEF IInv, TypeOK
  <2>2. QED
    BY <1>1, <2>1, StampFacts
<1>3. documents' = [ensureRecord(d) EXCEPT ![d] = stamped(ensureRecord(d)[d], l, rev, serial + 1)]
  BY DEF admit
<1>4. QED
  BY <1>1, <1>2, <1>3, LookupFacts

\* The record of the document after its request was admitted.
LEMMA AdmitRecord ==
  ASSUME IInv, NEW d \in Documents, NEW l \in LaneNames,
         NEW rev \in Revisions \cup {NoRevision}, admit(d, l, rev)
  PROVE  LET rec == ensureRecord(d)[d]
         IN  /\ d \in DOMAIN documents'
             /\ documents'[d] \in Record
             /\ documents'[d].contentEpoch = IF l = "content" THEN rec.contentEpoch + 1 ELSE rec.contentEpoch
             /\ documents'[d].revision = IF l = "content" THEN rev ELSE rec.revision
             /\ documents'[d].lanes[l] = serial + 1
             /\ \A m \in LaneNames \ {l} : documents'[d].lanes[m] = rec.lanes[m]
<1> DEFINE rec == ensureRecord(d)[d]
           new == stamped(rec, l, rev, serial + 1)
<1>1. rec \in Record /\ documents'[d] = new /\ d \in DOMAIN documents'
  BY AdmitFacts, LookupFacts
<1>2. serial + 1 \in Nat
  BY DEF IInv, TypeOK
<1> HIDE DEF rec
<1>3. /\ new \in Record
      /\ new.contentEpoch = IF l = "content" THEN rec.contentEpoch + 1 ELSE rec.contentEpoch
      /\ new.revision = IF l = "content" THEN rev ELSE rec.revision
      /\ new.lanes[l] = serial + 1
      /\ \A m \in LaneNames \ {l} : new.lanes[m] = rec.lanes[m]
  BY <1>1, <1>2, StampFacts
<1> HIDE DEF new
<1>4. QED
  BY <1>1, <1>3 DEF rec

LEMMA AdmitIInv ==
  ASSUME IInv, NEW d \in Documents, NEW l \in LaneNames,
         NEW rev \in Revisions \cup {NoRevision}, admit(d, l, rev)
  PROVE  IInv'
<1> DEFINE rec == ensureRecord(d)[d]
           new == ticketFor(d, l)
<1>1. rec \in Record /\ serial \in Nat
  BY AdmitFacts DEF IInv, TypeOK
<1>2. /\ new \in Ticket
      /\ new.documentId = d /\ new.lane = l /\ new.serial = serial + 1
      /\ new.contentEpoch = IF l = "content" THEN rec.contentEpoch + 1 ELSE rec.contentEpoch
  BY <1>1 DEF ticketFor, Ticket, Record
<1>3. /\ serial' = serial + 1 /\ serial < MaxRequests
      /\ outstanding' = outstanding \cup {new}
      /\ order' = recencyAfter(d)
  BY DEF admit
<1> HIDE DEF rec, new
<1>4. /\ documents'[d] \in Record
      /\ documents'[d].contentEpoch = IF l = "content" THEN rec.contentEpoch + 1 ELSE rec.contentEpoch
      /\ documents'[d].lanes[l] = serial + 1
      /\ \A m \in LaneNames \ {l} : documents'[d].lanes[m] = rec.lanes[m]
  BY AdmitRecord DEF rec
<1>5. rec = IF d \in DOMAIN documents THEN documents[d] ELSE newRecord
  BY LookupFacts DEF rec
<1>6. TypeOK'
  BY <1>1, <1>2, <1>3, AdmitFacts, LookupFacts DEF IInv, TypeOK
<1>7. OrderIsDistinct'
  BY <1>3, LookupFacts DEF OrderIsDistinct
<1>8. StampsAreIssued'
  <2>1. \A t \in outstanding' : t.serial \in 1 .. serial'
    BY <1>1, <1>2, <1>3 DEF IInv, StampsAreIssued, TypeOK, Ticket
  <2>2. ASSUME NEW e \in DOMAIN documents', NEW m \in LaneNames
        PROVE  documents'[e].lanes[m] <= serial'
    <3>1. CASE e # d
      BY <1>1, <1>3, <3>1, AdmitFacts, SMTT(30) DEF IInv, StampsAreIssued, TypeOK, Record
    <3>2. CASE e = d /\ m = l
      BY <1>1, <1>3, <1>4, <3>2
    <3>3. CASE e = d /\ m # l
      <4>1. documents'[d].lanes[m] = rec.lanes[m]
        BY <1>4, <3>3
      <4>2. rec.lanes[m] <= serial
        BY <1>1, <1>5 DEF IInv, StampsAreIssued, newRecord
      <4>3. rec.lanes[m] \in Nat
        BY <1>1 DEF Record
      <4>4. QED
        BY <1>1, <1>3, <3>3, <4>1, <4>2, <4>3
    <3>4. QED
      BY <3>1, <3>2, <3>3
  <2>3. serial' <= MaxRequests
    BY <1>1, <1>3, LanesAssumption
  <2>4. QED
    BY <2>1, <2>2, <2>3 DEF StampsAreIssued
<1>9. SerialsAreUnique'
  BY <1>1, <1>2, <1>3 DEF IInv, StampsAreIssued, SerialsAreUnique
<1>10. EpochsOnlyGrow'
  <2>1. SUFFICES ASSUME NEW t \in outstanding', ~forgotten(t)', ~superseded(t)'
                 PROVE  documents'[t.documentId].contentEpoch >= t.contentEpoch
    BY DEF EpochsOnlyGrow
  <2>2. /\ t.documentId \in DOMAIN documents'
        /\ documents'[t.documentId].lanes[t.lane] = t.serial
    BY <2>1 DEF forgotten, superseded
  <2>3. CASE t = new
    BY <1>1, <1>2, <1>4, <2>3 DEF Record
  <2>4. CASE t \in outstanding /\ t.documentId # d
    BY <2>2, <2>4, AdmitFacts DEF IInv, EpochsOnlyGrow, forgotten, superseded
  <2>5. CASE t \in outstanding /\ t.documentId = d
    <3>1. t \in Ticket /\ t.serial \in 1 .. serial
      BY <2>5 DEF IInv, TypeOK, StampsAreIssued
    <3>2. t.lane # l
      BY <1>1, <1>4, <2>2, <2>5, <3>1
    <3>3. rec.lanes[t.lane] = t.serial
      BY <1>4, <2>2, <2>5, <3>1, <3>2 DEF Ticket
    <3>4. d \in DOMAIN documents
      BY <1>5, <3>1, <3>3 DEF newRecord, Ticket
    <3>5. rec.contentEpoch >= t.contentEpoch
      BY <1>5, <2>5, <3>3, <3>4 DEF IInv, EpochsOnlyGrow, forgotten, superseded
    <3>6. QED
      BY <1>1, <1>4, <2>5, <3>1, <3>5 DEF Record, Ticket
  <2>6. QED
    BY <1>3, <2>3, <2>4, <2>5
<1>11. QED
  BY <1>6, <1>7, <1>8, <1>9, <1>10 DEF IInv

LEMMA RefuseIInv ==
  ASSUME IInv, NEW d \in Documents, NEW l \in LaneNames,
         NEW rev \in Revisions \cup {NoRevision}, refuse(d, l, rev)
  PROVE  IInv'
<1>1. /\ documents' = ensureRecord(d) /\ order' = recencyAfter(d)
      /\ serial' = serial /\ outstanding' = outstanding
  BY DEF refuse
<1>2. TypeOK' /\ OrderIsDistinct' /\ SerialsAreUnique'
  BY <1>1, LookupFacts DEF IInv, TypeOK, OrderIsDistinct, SerialsAreUnique
<1>3. StampsAreIssued'
  BY <1>1, LookupFacts DEF IInv, StampsAreIssued, TypeOK, newRecord
<1>4. EpochsOnlyGrow'
  <2>1. SUFFICES ASSUME NEW t \in outstanding, ~forgotten(t)', ~superseded(t)'
                 PROVE  documents'[t.documentId].contentEpoch >= t.contentEpoch
    BY <1>1 DEF EpochsOnlyGrow
  <2>2. t \in Ticket /\ t.serial \in 1 .. serial
    BY DEF IInv, TypeOK, StampsAreIssued
  <2>3. t.documentId \in DOMAIN documents
    BY <1>1, <2>1, <2>2, LookupFacts DEF forgotten, superseded, newRecord, Ticket
  <2>4. QED
    BY <1>1, <2>1, <2>3, LookupFacts DEF IInv, EpochsOnlyGrow, forgotten, superseded
<1>5. QED
  BY <1>2, <1>3, <1>4 DEF IInv

LEMMA ReleaseFacts ==
  ASSUME IInv, NEW u \in outstanding, release(u)
  PROVE  /\ DOMAIN documents' = DOMAIN documents
         /\ documents' \in [DOMAIN documents -> Record]
         /\ \A e \in DOMAIN documents :
              /\ documents'[e].contentEpoch = documents[e].contentEpoch
              /\ documents'[e].revision = documents[e].revision
              /\ documents'[e].lanes = documents[e].lanes
<1>1. u \in Ticket
  BY DEF IInv, TypeOK
<1>2. CASE u.documentId \notin DOMAIN documents
  BY <1>2 DEF release, IInv, TypeOK
<1>3. CASE u.documentId \in DOMAIN documents
  <2> DEFINE r == documents[u.documentId]
             r2 == [r EXCEPT !.pending = [r.pending EXCEPT ![u.lane] = decremented(@)]]
  <2>1. r \in Record
    BY <1>3 DEF IInv, TypeOK
  <2>2. documents' = [documents EXCEPT ![u.documentId] = r2]
    BY <1>3 DEF release
  <2>3. /\ r2 \in Record
        /\ r2.contentEpoch = r.contentEpoch /\ r2.revision = r.revision /\ r2.lanes = r.lanes
    BY <1>1, <2>1 DEF Record, Ticket, decremented
  <2>4. QED
    BY <1>3, <2>2, <2>3 DEF IInv, TypeOK
<1>4. QED
  BY <1>2, <1>3

LEMMA ReleaseIInv ==
  ASSUME IInv, NEW u \in outstanding, release(u)
  PROVE  IInv'
<1>1. /\ outstanding' = outstanding \ {u} /\ order' = order /\ serial' = serial
  BY DEF release
<1>2. TypeOK' /\ OrderIsDistinct' /\ SerialsAreUnique'
  BY <1>1, ReleaseFacts DEF IInv, TypeOK, OrderIsDistinct, SerialsAreUnique
<1>3. StampsAreIssued'
  BY <1>1, ReleaseFacts DEF IInv, StampsAreIssued
<1>4. EpochsOnlyGrow'
  BY <1>1, ReleaseFacts DEF IInv, EpochsOnlyGrow, forgotten, superseded
<1>5. QED
  BY <1>2, <1>3, <1>4 DEF IInv

LEMMA ForgetIInv ==
  ASSUME IInv, NEW d \in Documents, forget(d)
  PROVE  IInv'
<1>1. /\ documents' = [e \in DOMAIN documents \ {d} |-> documents[e]]
      /\ order' = Without(order, d)
      /\ serial' = serial /\ outstanding' = outstanding
  BY DEF forget
<1>2. order' \in Seq(Documents) /\ Distinct(order') /\ Range(order') = Range(order) \ {d}
  BY <1>1, WithoutFacts DEF IInv, TypeOK, OrderIsDistinct
<1>3. TypeOK' /\ OrderIsDistinct' /\ SerialsAreUnique'
  BY <1>1, <1>2 DEF IInv, TypeOK, OrderIsDistinct, SerialsAreUnique
<1>4. StampsAreIssued' /\ EpochsOnlyGrow'
  BY <1>1 DEF IInv, StampsAreIssued, EpochsOnlyGrow, forgotten, superseded
<1>5. QED
  BY <1>3, <1>4 DEF IInv

LEMMA NextIInv == IInv /\ [Next]_vars => IInv'
<1>1. SUFFICES ASSUME IInv, [Next]_vars PROVE IInv'
  OBVIOUS
<1>2. CASE UNCHANGED vars
  BY <1>1, <1>2
  DEF vars, IInv, TypeOK, OrderIsDistinct, StampsAreIssued, SerialsAreUnique,
      EpochsOnlyGrow, forgotten, superseded
<1>3. CASE Next
  BY <1>1, <1>3, AdmitIInv, RefuseIInv, ReleaseIInv, ForgetIInv DEF Next
<1>4. QED
  BY <1>1, <1>2, <1>3

\* In every reachable state the inductive invariant holds.
THEOREM SpecIInv == Spec => []IInv
BY InitIInv, NextIInv, PTL DEF Spec

\* In every reachable state the registry is well typed: its records are those of
\* the documents in its recency order, and only those.
THEOREM TypeCorrect == Spec => []TypeOK
BY SpecIInv, PTL DEF IInv
-----------------------------------------------------------------------------
(***************************************************************************)
(* What each operation does to the staleness of the tickets already there. *)
(***************************************************************************)

\* Admitting a request makes stale exactly what the rule of the lanes says, and
\* the ticket it issues is current.
LEMMA AdmitStaleness ==
  ASSUME IInv, NEW d \in Documents, NEW l \in LaneNames,
         NEW rev \in Revisions \cup {NoRevision}, admit(d, l, rev)
  PROVE  /\ \A t \in outstanding :
              isStale(t)' <=> \/ isStale(t)
                              \/ t.documentId = d /\ (t.lane = l \/ l = "content")
                              \/ t.documentId \in evictedBy(d)
         /\ \A n \in {ticketFor(d, l)} : ~isStale(n)'
<1> DEFINE rec == ensureRecord(d)[d]
           new == ticketFor(d, l)
<1>1. rec \in Record /\ serial \in Nat
  BY AdmitFacts DEF IInv, TypeOK
<1>2. /\ new.documentId = d /\ new.lane = l /\ new.serial = serial + 1
      /\ new.contentEpoch = IF l = "content" THEN rec.contentEpoch + 1 ELSE rec.contentEpoch
  BY <1>1 DEF ticketFor
<1> HIDE DEF rec, new
<1>3. /\ d \in DOMAIN documents'
      /\ documents'[d].contentEpoch = IF l = "content" THEN rec.contentEpoch + 1 ELSE rec.contentEpoch
      /\ documents'[d].lanes[l] = serial + 1
      /\ \A m \in LaneNames \ {l} : documents'[d].lanes[m] = rec.lanes[m]
  BY AdmitRecord DEF rec
<1>4. rec = IF d \in DOMAIN documents THEN documents[d] ELSE newRecord
  BY LookupFacts DEF rec
<1>5. \A n \in {new} : ~isStale(n)'
  BY <1>2, <1>3 DEF isStale, forgotten, superseded, contentChanged
<1>6. ASSUME NEW t \in outstanding
      PROVE  isStale(t)' <=> \/ isStale(t)
                             \/ t.documentId = d /\ (t.lane = l \/ l = "content")
                             \/ t.documentId \in evictedBy(d)
  <2>1. t \in Ticket /\ t.serial \in 1 .. serial
    BY DEF IInv, TypeOK, StampsAreIssued
  <2>2. CASE t.documentId = d
    <3>1. d \notin evictedBy(d)
      BY LookupFacts DEF evictedBy
    <3>2. isStale(t)' <=> \/ documents'[d].lanes[t.lane] # t.serial
                          \/ documents'[d].contentEpoch # t.contentEpoch
      BY <1>3, <2>2 DEF isStale, forgotten, superseded, contentChanged
    <3>3. CASE t.lane = l
      BY <1>1, <1>3, <2>1, <2>2, <3>2, <3>3
    <3>4. CASE t.lane # l
      <4>1. documents'[d].lanes[t.lane] = rec.lanes[t.lane]
        BY <1>3, <2>1, <3>4 DEF Ticket
      <4>2. CASE d \notin DOMAIN documents
        <5>1. rec.lanes[t.lane] = 0
          BY <1>4, <2>1, <4>2 DEF newRecord, Ticket
        <5>2. isStale(t)' /\ isStale(t)
          BY <2>1, <2>2, <3>2, <4>1, <4>2, <5>1 DEF isStale, forgotten
        <5>3. QED
          BY <5>2
      <4>3. CASE d \in DOMAIN documents
        <5>1. isStale(t) <=> \/ rec.lanes[t.lane] # t.serial
                             \/ rec.contentEpoch # t.contentEpoch
          BY <1>4, <2>2, <4>3 DEF isStale, forgotten, superseded, contentChanged
        <5>2. rec.lanes[t.lane] = t.serial => rec.contentEpoch >= t.contentEpoch
          BY <1>4, <2>2, <4>3 DEF IInv, EpochsOnlyGrow, forgotten, superseded
        <5>3. CASE l = "content"
          <6>1. rec.contentEpoch \in Nat /\ t.contentEpoch \in Nat
            BY <1>1, <2>1 DEF Record, Ticket
          <6>2. isStale(t)'
            BY <1>3, <3>2, <4>1, <5>2, <5>3, <6>1
          <6>3. QED
            BY <2>2, <5>3, <6>2
        <5>4. CASE l # "content"
          BY <1>3, <2>2, <3>1, <3>2, <3>4, <4>1, <5>1, <5>4
        <5>5. QED
          BY <5>3, <5>4
      <4>4. QED
        BY <4>2, <4>3
    <3>5. QED
      BY <3>3, <3>4
  <2>3. CASE t.documentId # d
    <3>1. CASE t.documentId \in DOMAIN documents'
      BY <2>3, <3>1, AdmitFacts
      DEF isStale, forgotten, superseded, contentChanged, evictedBy
    <3>2. CASE t.documentId \notin DOMAIN documents'
      BY <2>3, <3>2, AdmitFacts DEF isStale, forgotten, evictedBy
    <3>3. QED
      BY <3>1, <3>2
  <2>4. QED
    BY <2>2, <2>3
<1>7. QED
  BY <1>5, <1>6 DEF new

\* A refused request makes stale the tickets of the document it evicts, if any.
LEMMA RefuseStaleness ==
  ASSUME IInv, NEW d \in Documents, NEW l \in LaneNames,
         NEW rev \in Revisions \cup {NoRevision}, refuse(d, l, rev)
  PROVE  \A t \in outstanding :
           isStale(t)' <=> isStale(t) \/ t.documentId \in evictedBy(d)
<1>1. SUFFICES ASSUME NEW t \in outstanding
               PROVE  isStale(t)' <=> isStale(t) \/ t.documentId \in evictedBy(d)
  OBVIOUS
<1>2. documents' = ensureRecord(d)
  BY DEF refuse
<1>3. t \in Ticket /\ t.serial \in 1 .. serial
  BY DEF IInv, TypeOK, StampsAreIssued
<1>4. CASE t.documentId \notin DOMAIN documents'
  BY <1>2, <1>4, LookupFacts DEF isStale, forgotten, evictedBy
<1>5. CASE t.documentId \in DOMAIN documents' /\ t.documentId \in DOMAIN documents
  BY <1>2, <1>5, LookupFacts DEF isStale, forgotten, superseded, contentChanged, evictedBy
<1>6. CASE t.documentId \in DOMAIN documents' /\ t.documentId \notin DOMAIN documents
  <2>1. documents'[t.documentId].lanes[t.lane] = 0
    BY <1>2, <1>3, <1>6, LookupFacts DEF newRecord, Ticket
  <2>2. QED
    BY <1>3, <1>6, <2>1 DEF isStale, forgotten, superseded
<1>7. QED
  BY <1>4, <1>5, <1>6

\* Giving a slot back changes no ticket's staleness.
LEMMA ReleaseStaleness ==
  ASSUME IInv, NEW u \in outstanding, release(u)
  PROVE  \A t \in outstanding : isStale(t)' <=> isStale(t)
BY ReleaseFacts DEF isStale, forgotten, superseded, contentChanged

\* Forgetting a document makes its tickets stale, and no other.
LEMMA ForgetStaleness ==
  ASSUME IInv, NEW d \in Documents, forget(d)
  PROVE  \A t \in outstanding : isStale(t)' <=> isStale(t) \/ t.documentId = d
BY DEF forget, isStale, forgotten, superseded, contentChanged

\* Work that was superseded once can never be delivered later: a stale ticket
\* stays stale, through forgetting, eviction and readmission of its document.
THEOREM StaleIsFinalHolds == Spec => StaleIsFinal
<1> DEFINE A == \A t \in outstanding \cap outstanding' : isStale(t) => isStale(t)'
<1>1. IInv /\ [Next]_vars => [A]_vars
  <2>1. SUFFICES ASSUME IInv, Next PROVE A
    OBVIOUS
  <2>2. QED
    BY <2>1, AdmitStaleness, RefuseStaleness, ReleaseStaleness, ForgetStaleness DEF Next
<1>2. QED
  BY <1>1, SpecIInv, PTL DEF Spec, StaleIsFinal
-----------------------------------------------------------------------------
(***************************************************************************)
(* Where a stale ticket's staleness comes from.  A ticket that was         *)
(* overtaken is stale; and a number in a record that makes a ticket stale  *)
(* is the serial of the very request that overtook it.                     *)
(***************************************************************************)
overtakes(u, t) ==
  /\ u.documentId = t.documentId
  /\ u.serial > t.serial
  /\ u.lane \in {t.lane, "content"}

OvertakenIsStale ==
  \A t, u \in outstanding : overtakes(u, t) => isStale(t)

\* A lane that shows the serial of a ticket is the ticket's own lane.
LanesShowTickets ==
  \A d \in DOMAIN documents, l \in LaneNames, t \in outstanding :
    documents[d].lanes[l] = t.serial => t.documentId = d /\ t.lane = l

\* The epoch moved past a ticket whose lane did not because content came after it.
EpochMovedByContent ==
  \A t \in outstanding :
    contentChanged(t) /\ ~superseded(t)
      => documents[t.documentId].lanes["content"] > t.serial

Traceable == OvertakenIsStale /\ LanesShowTickets /\ EpochMovedByContent

LEMMA InitTraceable == Init => Traceable
BY DEF Init, Traceable, OvertakenIsStale, LanesShowTickets, EpochMovedByContent

LEMMA AdmitTraceable ==
  ASSUME IInv, Traceable, NEW d \in Documents, NEW l \in LaneNames,
         NEW rev \in Revisions \cup {NoRevision}, admit(d, l, rev)
  PROVE  Traceable'
<1> DEFINE rec == ensureRecord(d)[d]
           new == ticketFor(d, l)
<1>1. rec \in Record /\ serial \in Nat
  BY AdmitFacts DEF IInv, TypeOK
<1>2. /\ new.documentId = d /\ new.lane = l /\ new.serial = serial + 1
      /\ new.contentEpoch = IF l = "content" THEN rec.contentEpoch + 1 ELSE rec.contentEpoch
      /\ outstanding' = outstanding \cup {new}
  BY <1>1 DEF ticketFor, admit
<1> HIDE DEF rec, new
<1>3. /\ d \in DOMAIN documents'
      /\ documents'[d].contentEpoch = IF l = "content" THEN rec.contentEpoch + 1 ELSE rec.contentEpoch
      /\ documents'[d].lanes[l] = serial + 1
      /\ \A m \in LaneNames \ {l} : documents'[d].lanes[m] = rec.lanes[m]
  BY AdmitRecord DEF rec
<1>4. rec = IF d \in DOMAIN documents THEN documents[d] ELSE newRecord
  BY LookupFacts DEF rec
<1>5. \A t \in outstanding : t \in Ticket /\ t.serial \in 1 .. serial
  BY DEF IInv, TypeOK, StampsAreIssued
<1>6. OvertakenIsStale'
  <2>1. SUFFICES ASSUME NEW t \in outstanding', NEW u \in outstanding', overtakes(u, t)
                 PROVE  isStale(t)'
    BY DEF OvertakenIsStale, overtakes
  <2>2. t \in outstanding
    BY <1>1, <1>2, <1>5, <2>1 DEF overtakes
  <2>3. CASE u = new
    BY <1>2, <2>1, <2>2, <2>3, AdmitStaleness DEF overtakes
  <2>4. CASE u \in outstanding
    BY <2>1, <2>2, <2>4, AdmitStaleness DEF Traceable, OvertakenIsStale
  <2>5. QED
    BY <1>2, <2>3, <2>4
<1>7. LanesShowTickets'
  <2>1. SUFFICES ASSUME NEW e \in DOMAIN documents', NEW m \in LaneNames,
                        NEW t \in outstanding', documents'[e].lanes[m] = t.serial
                 PROVE  t.documentId = e /\ t.lane = m
    BY DEF LanesShowTickets
  <2>2. CASE e = d /\ m = l
    BY <1>1, <1>2, <1>3, <1>5, <2>1, <2>2
  <2>3. CASE e = d /\ m # l
    <3>1. rec.lanes[m] = t.serial
      BY <1>3, <2>1, <2>3
    <3>2. CASE d \in DOMAIN documents
      <4>1. documents[d].lanes[m] <= serial
        BY <3>2 DEF IInv, StampsAreIssued
      <4>2. t \in outstanding
        BY <1>1, <1>2, <1>4, <3>1, <3>2, <4>1
      <4>3. QED
        BY <1>4, <2>3, <3>1, <3>2, <4>2 DEF Traceable, LanesShowTickets
    <3>3. CASE d \notin DOMAIN documents
      <4>1. rec.lanes[m] = 0
        BY <1>4, <3>3 DEF newRecord
      <4>2. t.serial # 0
        BY <1>1, <1>2, <1>5
      <4>3. QED
        BY <3>1, <4>1, <4>2
    <3>4. QED
      BY <3>2, <3>3
  <2>4. CASE e # d
    <3>1. e \in DOMAIN documents /\ documents'[e] = documents[e]
      BY <2>4, AdmitFacts
    <3>2. documents[e].lanes[m] <= serial
      BY <3>1 DEF IInv, StampsAreIssued
    <3>3. t \in outstanding
      BY <1>1, <1>2, <2>1, <3>1, <3>2
    <3>4. QED
      BY <2>1, <3>1, <3>3 DEF Traceable, LanesShowTickets
  <2>5. QED
    BY <2>2, <2>3, <2>4
<1>8. EpochMovedByContent'
  <2>1. SUFFICES ASSUME NEW t \in outstanding', contentChanged(t)', ~superseded(t)'
                 PROVE  documents'[t.documentId].lanes["content"] > t.serial
    BY DEF EpochMovedByContent
  <2>2. t.documentId \in DOMAIN documents' /\ documents'[t.documentId].lanes[t.lane] = t.serial
        /\ documents'[t.documentId].contentEpoch # t.contentEpoch
    BY <2>1 DEF contentChanged, superseded, forgotten
  <2>3. t # new
    BY <1>2, <1>3, <2>2
  <2>4. t \in outstanding /\ t \in Ticket /\ t.serial \in 1 .. serial
    BY <1>2, <1>5, <2>3
  <2>5. CASE t.documentId # d
    BY <2>2, <2>4, <2>5, AdmitFacts
    DEF Traceable, EpochMovedByContent, contentChanged, superseded, forgotten
  <2>6. CASE t.documentId = d /\ l = "content"
    BY <1>1, <1>3, <2>4, <2>6
  <2>7. CASE t.documentId = d /\ l # "content"
    <3>1. t.lane # l
      BY <1>1, <1>3, <2>2, <2>4, <2>7
    <3>2. rec.lanes[t.lane] = t.serial /\ rec.contentEpoch # t.contentEpoch
      BY <1>3, <2>2, <2>4, <2>7, <3>1 DEF Ticket
    <3>3. d \in DOMAIN documents
      BY <1>4, <2>4, <3>2 DEF newRecord, Ticket
    <3>4. documents[d].lanes["content"] > t.serial
      BY <1>4, <2>4, <2>7, <3>2, <3>3
      DEF Traceable, EpochMovedByContent, contentChanged, superseded, forgotten
    <3>5. documents'[d].lanes["content"] = rec.lanes["content"]
      BY <1>3, <2>7 DEF LaneNames
    <3>6. QED
      BY <1>4, <2>7, <3>3, <3>4, <3>5
  <2>8. QED
    BY <2>5, <2>6, <2>7
<1>9. QED
  BY <1>6, <1>7, <1>8 DEF Traceable

LEMMA RefuseTraceable ==
  ASSUME IInv, Traceable, NEW d \in Documents, NEW l \in LaneNames,
         NEW rev \in Revisions \cup {NoRevision}, refuse(d, l, rev)
  PROVE  Traceable'
<1>1. documents' = ensureRecord(d) /\ outstanding' = outstanding
  BY DEF refuse
<1>2. \A t \in outstanding : t \in Ticket /\ t.serial \in 1 .. serial
  BY DEF IInv, TypeOK, StampsAreIssued
<1>3. \A e \in DOMAIN documents' :
        \/ e \in DOMAIN documents /\ documents'[e] = documents[e]
        \/ \A m \in LaneNames : documents'[e].lanes[m] = 0
  BY <1>1, LookupFacts DEF newRecord
<1>4. OvertakenIsStale'
  BY <1>1, RefuseStaleness DEF Traceable, OvertakenIsStale, overtakes
<1>5. LanesShowTickets'
  BY <1>1, <1>2, <1>3 DEF Traceable, LanesShowTickets
<1>6. EpochMovedByContent'
  BY <1>1, <1>2, <1>3
  DEF Traceable, EpochMovedByContent, contentChanged, superseded, forgotten, Ticket
<1>7. QED
  BY <1>4, <1>5, <1>6 DEF Traceable

LEMMA ReleaseTraceable ==
  ASSUME IInv, Traceable, NEW u \in outstanding, release(u)
  PROVE  Traceable'
<1>1. outstanding' = outstanding \ {u}
  BY DEF release
<1>2. OvertakenIsStale'
  BY <1>1, ReleaseStaleness DEF Traceable, OvertakenIsStale, overtakes
<1>3. LanesShowTickets' /\ EpochMovedByContent'
  BY <1>1, ReleaseFacts
  DEF Traceable, LanesShowTickets, EpochMovedByContent, contentChanged, superseded, forgotten
<1>4. QED
  BY <1>2, <1>3 DEF Traceable

LEMMA ForgetTraceable ==
  ASSUME IInv, Traceable, NEW d \in Documents, forget(d)
  PROVE  Traceable'
<1>1. outstanding' = outstanding
  BY DEF forget
<1>2. OvertakenIsStale'
  BY <1>1, ForgetStaleness DEF Traceable, OvertakenIsStale, overtakes
<1>3. LanesShowTickets' /\ EpochMovedByContent'
  BY DEF forget, Traceable, LanesShowTickets, EpochMovedByContent,
         contentChanged, superseded, forgotten
<1>4. QED
  BY <1>2, <1>3 DEF Traceable

\* A ticket is stale only if its document was lost, its lane was wound back with a
\* new record, or the record holds the serial of a later request that overtook it.
LEMMA StaleHasCause ==
  ASSUME IInv, Traceable, NEW t \in outstanding, isStale(t)
  PROVE  \/ t.documentId \notin DOMAIN documents
         \/ documents[t.documentId].lanes[t.lane] < t.serial
         \/ \E l \in {t.lane, "content"} :
               documents[t.documentId].lanes[l] \in t.serial + 1 .. serial
<1>1. t \in Ticket /\ t.serial \in 1 .. serial /\ serial \in Nat
  BY DEF IInv, TypeOK, StampsAreIssued
<1>2. SUFFICES ASSUME t.documentId \in DOMAIN documents
               PROVE  \/ documents[t.documentId].lanes[t.lane] < t.serial
                      \/ \E l \in {t.lane, "content"} :
                            documents[t.documentId].lanes[l] \in t.serial + 1 .. serial
  OBVIOUS
<1>3. \A l \in {t.lane, "content"} :
        documents[t.documentId].lanes[l] \in Nat /\ documents[t.documentId].lanes[l] <= serial
  <2>1. {t.lane, "content"} \subseteq LaneNames
    BY <1>1 DEF Ticket, LaneNames
  <2>2. documents[t.documentId].lanes \in [LaneNames -> Nat]
    BY <1>2 DEF IInv, TypeOK, Record
  <2>3. QED
    BY <1>2, <2>1, <2>2 DEF IInv, StampsAreIssued
<1>4. CASE superseded(t)
  BY <1>1, <1>2, <1>3, <1>4 DEF superseded, Ticket
<1>5. CASE ~superseded(t)
  <2>1. documents[t.documentId].lanes["content"] > t.serial
    BY <1>2, <1>5 DEF isStale, forgotten, Traceable, EpochMovedByContent
  <2>2. QED
    BY <1>1, <1>3, <2>1 DEF Ticket
<1>6. QED
  BY <1>4, <1>5
-----------------------------------------------------------------------------
(***************************************************************************)
(* The registry implements LatestWins.                                     *)
(***************************************************************************)

\* The abstract requests are named by their tickets, one to one.
LEMMA RequestFacts ==
  ASSUME IInv
  PROVE  /\ \A t \in outstanding :
              /\ request(t) \in Rule!Request
              /\ request(t).documentId = t.documentId
              /\ request(t).lane = t.lane
              /\ request(t).serial = t.serial
         /\ \A t, u \in outstanding : request(t) = request(u) => t = u
<1>1. ASSUME NEW t \in outstanding
      PROVE  /\ request(t) \in Rule!Request
             /\ request(t).documentId = t.documentId
             /\ request(t).lane = t.lane
             /\ request(t).serial = t.serial
  <2>1. t \in Ticket /\ t.serial \in 1 .. MaxRequests
    BY LanesAssumption DEF IInv, TypeOK, StampsAreIssued
  <2>2. QED
    BY <2>1 DEF request, Ticket, Rule!Request, LaneNames, Rule!LaneNames
<1>2. QED
  BY <1>1 DEF IInv, SerialsAreUnique

LEMMA InitRefines == Init => Rule!Init
BY DEF Init, Rule!Init

\* Admitting a request is its arrival, and the loss of the evicted document.
LEMMA AdmitRefines ==
  ASSUME IInv, IInv', NEW d \in Documents, NEW l \in LaneNames,
         NEW rev \in Revisions \cup {NoRevision}, admit(d, l, rev)
  PROVE  Rule!Next
<1> DEFINE new == ticketFor(d, l)
           lost == evictedBy(d)
<1>1. /\ outstanding' = outstanding \cup {new}
      /\ new.documentId = d /\ new.lane = l /\ new.serial = serial + 1
      /\ new \in outstanding'
  BY DEF admit, ticketFor
<1>2. /\ \A t \in outstanding :
           isStale(t)' <=> \/ isStale(t)
                           \/ t.documentId = d /\ (t.lane = l \/ l = "content")
                           \/ t.documentId \in lost
      /\ \A n \in {new} : ~isStale(n)'
  BY AdmitStaleness
<1>3. lost \in SUBSET Documents /\ d \notin lost
  BY LookupFacts DEF evictedBy, IInv, TypeOK
<1>4. new \notin outstanding
  BY <1>1 DEF IInv, TypeOK, StampsAreIssued, Ticket
<1> HIDE DEF new, lost
<1>5. /\ request(new) \in Rule!Request
      /\ request(new).documentId = d
      /\ request(new).lane = l
  <2>1. serial' \in Nat /\ serial' <= MaxRequests /\ outstanding' \subseteq Ticket
        /\ \A t \in outstanding' : t.serial \in 1 .. serial'
    BY DEF IInv, TypeOK, StampsAreIssued
  <2>2. new \in Ticket /\ new.serial \in 1 .. MaxRequests
    BY <1>1, <2>1, LanesAssumption
  <2>3. QED
    BY <1>1, <2>2 DEF request, Ticket, Rule!Request, LaneNames, Rule!LaneNames
<1>6. request(new) \notin {request(t) : t \in outstanding}
  <2>1. serial \in Nat /\ \A t \in outstanding : t.serial \in 1 .. serial
    BY DEF IInv, TypeOK, StampsAreIssued
  <2>2. request(new).serial = serial + 1
    BY <1>1 DEF request
  <2>3. \A t \in outstanding : request(t).serial # serial + 1
    BY <2>1, RequestFacts
  <2>4. QED
    BY <2>2, <2>3
<1>7. {request(t) : t \in outstanding'} = {request(t) : t \in outstanding} \cup {request(new)}
  BY <1>1
<1>8. {request(t) : t \in {u \in outstanding' : isStale(u)'}}
        = {request(t) : t \in {u \in outstanding : isStale(u)}}
            \cup {w \in {request(t) : t \in outstanding} :
                    w.documentId = d /\ (w.lane = l \/ l = "content")}
            \cup {w \in {request(t) : t \in outstanding} : w.documentId \in lost}
  BY <1>1, <1>2, RequestFacts
<1>9. Rule!Arrive(request(new), lost)
  BY <1>3, <1>5, <1>6, <1>7, <1>8
  DEF Rule!Arrive, Rule!CancelledBy, Rule!OfDocuments, request
<1>10. QED
  BY <1>3, <1>5, <1>9 DEF Rule!Next

\* Losing documents, by a refused request or by `forget`, dooms their requests.
LEMMA LossRefines ==
  ASSUME IInv, NEW lost \in SUBSET Documents, outstanding' = outstanding,
         \A t \in outstanding : isStale(t)' <=> isStale(t) \/ t.documentId \in lost
  PROVE  Rule!Next
<1>1. {request(t) : t \in {u \in outstanding : isStale(u)'}}
        = {request(t) : t \in {u \in outstanding : isStale(u)}}
            \cup {w \in {request(t) : t \in outstanding} : w.documentId \in lost}
  BY RequestFacts
<1>2. Rule!Lose(lost)
  BY <1>1 DEF Rule!Lose, Rule!OfDocuments, request
<1>3. QED
  BY <1>2 DEF Rule!Next

\* Giving a slot back is the answer to the request.
LEMMA ReleaseRefines ==
  ASSUME IInv, NEW u \in outstanding, release(u)
  PROVE  Rule!Next
<1>1. outstanding' = outstanding \ {u}
  BY DEF release
<1>2. \A t \in outstanding : isStale(t)' <=> isStale(t)
  BY ReleaseStaleness
<1>3. {request(t) : t \in outstanding \ {u}} = {request(t) : t \in outstanding} \ {request(u)}
  BY RequestFacts
<1>4. {request(t) : t \in {v \in outstanding \ {u} : isStale(v)'}}
        = {request(t) : t \in {v \in outstanding : isStale(v)}} \ {request(u)}
  BY <1>2, RequestFacts
<1>5. Rule!Leave(request(u))
  BY <1>1, <1>3, <1>4 DEF Rule!Leave, request
<1>6. QED
  BY <1>5 DEF Rule!Next

\* Every step of the registry is a step of the rule, or a stutter.
LEMMA NextRefines == IInv /\ IInv' /\ [Next]_vars => [Rule!Next]_(Rule!vars)
<1>1. SUFFICES ASSUME IInv, IInv', [Next]_vars
               PROVE  [Rule!Next]_(Rule!vars)
  OBVIOUS
<1>2. CASE UNCHANGED vars
  BY <1>2 DEF vars, Rule!vars, isStale, forgotten, superseded, contentChanged, request
<1>3. ASSUME NEW d \in Documents, NEW l \in LaneNames,
             NEW rev \in Revisions \cup {NoRevision}, admit(d, l, rev)
      PROVE  Rule!Next
  BY <1>1, <1>3, AdmitRefines
<1>4. ASSUME NEW d \in Documents, NEW l \in LaneNames,
             NEW rev \in Revisions \cup {NoRevision}, refuse(d, l, rev)
      PROVE  Rule!Next
  <2>1. outstanding' = outstanding /\ evictedBy(d) \in SUBSET Documents
    BY <1>1, <1>4 DEF refuse, evictedBy, IInv, TypeOK
  <2>2. \A t \in outstanding : isStale(t)' <=> isStale(t) \/ t.documentId \in evictedBy(d)
    BY <1>1, <1>4, RefuseStaleness
  <2>3. QED
    BY <1>1, <2>1, <2>2, LossRefines
<1>5. ASSUME NEW u \in outstanding, release(u)
      PROVE  Rule!Next
  BY <1>1, <1>5, ReleaseRefines
<1>6. ASSUME NEW d \in Documents, forget(d)
      PROVE  Rule!Next
  <2>1. outstanding' = outstanding /\ {d} \in SUBSET Documents
    BY <1>6 DEF forget
  <2>2. \A t \in outstanding : isStale(t)' <=> isStale(t) \/ t.documentId \in {d}
    BY <1>1, <1>6, ForgetStaleness
  <2>3. QED
    BY <1>1, <2>1, <2>2, LossRefines
<1>7. QED
  BY <1>1, <1>2, <1>3, <1>4, <1>5, <1>6 DEF Next

\* For every number of documents and every bound, the serials, epochs and counters
\* of the registry cancel exactly the requests the abstract rule cancels.
THEOREM ImplementsLatestWins == Spec => RefinesLatestWins
BY NextRefines, InitRefines, SpecIInv, PTL DEF Spec, RefinesLatestWins, Rule!Spec
-----------------------------------------------------------------------------
(***************************************************************************)
(* The slot counters.                                                      *)
(***************************************************************************)

SlotsAreBacked == IsFiniteSet(outstanding) /\ NoSlotLeak

\* Adding a ticket fills one slot of its own lane, removing it frees that slot.
LEMMA HolderFacts ==
  ASSUME IsFiniteSet(outstanding), NEW d, NEW l
  PROVE  /\ IsFiniteSet(holders(d, l))
         /\ Cardinality(holders(d, l)) \in Nat
<1>1. holders(d, l) \subseteq outstanding
  BY DEF holders
<1>2. QED
  BY <1>1, FS_Subset, FS_CardinalityType

LEMMA AdmitSlots ==
  ASSUME IInv, SlotsAreBacked, NEW d \in Documents, NEW l \in LaneNames,
         NEW rev \in Revisions \cup {NoRevision}, admit(d, l, rev)
  PROVE  SlotsAreBacked'
<1> DEFINE rec == ensureRecord(d)[d]
           new == ticketFor(d, l)
<1>1. /\ rec \in Record /\ serial \in Nat
      /\ documents'[d] = stamped(rec, l, rev, serial + 1)
  BY AdmitFacts DEF IInv, TypeOK
<1>2. rec = IF d \in DOMAIN documents THEN documents[d] ELSE newRecord
  BY LookupFacts
<1>3. /\ outstanding' = outstanding \cup {new}
      /\ new.documentId = d /\ new.lane = l
      /\ new \notin outstanding
  BY DEF admit, ticketFor, IInv, TypeOK, StampsAreIssued
<1> HIDE DEF rec, new
<1>4. IsFiniteSet(outstanding')
  BY <1>3, FS_AddElement DEF SlotsAreBacked
<1>5. \A m \in LaneNames :
        /\ documents'[d].pending[m] = IF m = l THEN rec.pending[m] + 1 ELSE rec.pending[m]
        /\ rec.pending[m] \in Nat
        /\ rec.pending[m] <= Cardinality(holders(d, m))
  <2>1. rec.pending \in [LaneNames -> Nat]
    BY <1>1 DEF Record
  <2>2. \A m \in LaneNames : Cardinality(holders(d, m)) \in Nat
    BY HolderFacts DEF SlotsAreBacked
  <2>3. QED
    BY <1>1, <1>2, <2>1, <2>2 DEF stamped, newRecord, SlotsAreBacked, NoSlotLeak
<1>6. \A e, m : holders(e, m)' = IF e = d /\ m = l THEN holders(e, m) \cup {new} ELSE holders(e, m)
  BY <1>3 DEF holders
<1>7. Cardinality(holders(d, l) \cup {new}) = Cardinality(holders(d, l)) + 1
  <2>1. new \notin holders(d, l)
    BY <1>3 DEF holders
  <2>2. QED
    BY <2>1, HolderFacts, FS_AddElement DEF SlotsAreBacked
<1>8. ASSUME NEW e \in DOMAIN documents', NEW m \in LaneNames
      PROVE  documents'[e].pending[m] <= Cardinality(holders(e, m)')
  <2>1. CASE e # d
    BY <1>6, <2>1, AdmitFacts DEF SlotsAreBacked, NoSlotLeak
  <2>2. CASE e = d /\ m = l
    <3>1. Cardinality(holders(d, l)) \in Nat
      BY HolderFacts DEF SlotsAreBacked
    <3>2. QED
      BY <1>5, <1>6, <1>7, <2>2, <3>1
  <2>3. CASE e = d /\ m # l
    BY <1>5, <1>6, <2>3
  <2>4. QED
    BY <2>1, <2>2, <2>3
<1>9. QED
  BY <1>4, <1>8 DEF SlotsAreBacked, NoSlotLeak

LEMMA RefuseSlots ==
  ASSUME IInv, SlotsAreBacked, NEW d \in Documents, NEW l \in LaneNames,
         NEW rev \in Revisions \cup {NoRevision}, refuse(d, l, rev)
  PROVE  SlotsAreBacked'
<1>1. documents' = ensureRecord(d) /\ outstanding' = outstanding
  BY DEF refuse
<1>2. \A e, m : Cardinality(holders(e, m)) \in Nat
  BY HolderFacts DEF SlotsAreBacked
<1>3. ASSUME NEW e \in DOMAIN documents', NEW m \in LaneNames
      PROVE  documents'[e].pending[m] <= Cardinality(holders(e, m)')
  <2>1. documents'[e] = IF e \in DOMAIN documents THEN documents[e] ELSE newRecord
    BY <1>1, LookupFacts
  <2>2. holders(e, m)' = holders(e, m)
    BY <1>1 DEF holders
  <2>3. QED
    BY <1>2, <2>1, <2>2 DEF SlotsAreBacked, NoSlotLeak, newRecord
<1>4. QED
  BY <1>1, <1>3 DEF SlotsAreBacked, NoSlotLeak

LEMMA ReleaseSlots ==
  ASSUME IInv, SlotsAreBacked, NEW u \in outstanding, release(u)
  PROVE  SlotsAreBacked'
<1>1. outstanding' = outstanding \ {u}
  BY DEF release
<1>2. u \in Ticket
  BY DEF IInv, TypeOK
<1>3. IsFiniteSet(outstanding')
  BY <1>1, FS_RemoveElement DEF SlotsAreBacked
<1>4. ASSUME NEW e \in DOMAIN documents', NEW m \in LaneNames
      PROVE  documents'[e].pending[m] <= Cardinality(holders(e, m)')
  <2>1. /\ e \in DOMAIN documents
        /\ documents[e].pending \in [LaneNames -> Nat]
        /\ documents[e].pending[m] <= Cardinality(holders(e, m))
        /\ Cardinality(holders(e, m)) \in Nat
    BY ReleaseFacts, HolderFacts DEF SlotsAreBacked, NoSlotLeak, IInv, TypeOK, Record
  <2>2. CASE e = u.documentId /\ m = u.lane
    <3>1. documents'[e].pending[m] = decremented(documents[e].pending[m])
      <4> DEFINE r == documents[e]
                 r2 == [r EXCEPT !.pending = [r.pending EXCEPT ![m] = decremented(@)]]
      <4>1. documents' = [documents EXCEPT ![e] = r2]
        BY <2>1, <2>2 DEF release
      <4>2. r \in Record
        BY <2>1 DEF IInv, TypeOK
      <4>3. r2.pending = [r.pending EXCEPT ![m] = decremented(@)]
        BY <4>2 DEF Record
      <4>4. documents'[e] = r2
        BY <2>1, <4>1 DEF IInv, TypeOK
      <4>5. QED
        BY <2>1, <4>3, <4>4
    <3>2. holders(e, m)' = holders(e, m) \ {u} /\ u \in holders(e, m)
      BY <1>1, <2>2 DEF holders
    <3>3. Cardinality(holders(e, m) \ {u}) = Cardinality(holders(e, m)) - 1
      BY <3>2, HolderFacts, FS_RemoveElement DEF SlotsAreBacked
    <3>4. Cardinality(holders(e, m)) # 0
      BY <3>2, HolderFacts, FS_EmptySet DEF SlotsAreBacked
    <3>5. documents[e].pending[m] \in Nat
      BY <2>1
    <3>6. QED
      BY <2>1, <3>1, <3>2, <3>3, <3>4, <3>5 DEF decremented
  <2>3. CASE ~(e = u.documentId /\ m = u.lane)
    <3>1. holders(e, m)' = holders(e, m)
      BY <1>1, <2>3 DEF holders
    <3>2. documents'[e].pending[m] = documents[e].pending[m]
      <4>1. CASE e # u.documentId
        BY <2>1, <4>1 DEF release, IInv, TypeOK
      <4>2. CASE e = u.documentId
        <5> DEFINE r == documents[e]
                   r2 == [r EXCEPT !.pending = [r.pending EXCEPT ![u.lane] = decremented(@)]]
        <5>1. documents' = [documents EXCEPT ![e] = r2]
          BY <2>1, <4>2 DEF release
        <5>2. r \in Record /\ m # u.lane
          BY <2>1, <2>3, <4>2 DEF IInv, TypeOK
        <5>3. r2.pending = [r.pending EXCEPT ![u.lane] = decremented(@)]
          BY <5>2 DEF Record
        <5>4. documents'[e] = r2
          BY <2>1, <5>1 DEF IInv, TypeOK
        <5>5. QED
          BY <2>1, <5>2, <5>3, <5>4
      <4>3. QED
        BY <4>1, <4>2
    <3>3. QED
      BY <2>1, <3>1, <3>2
  <2>4. QED
    BY <2>2, <2>3
<1>5. QED
  BY <1>3, <1>4 DEF SlotsAreBacked, NoSlotLeak

LEMMA ForgetSlots ==
  ASSUME IInv, SlotsAreBacked, NEW d \in Documents, forget(d)
  PROVE  SlotsAreBacked'
BY DEF forget, SlotsAreBacked, NoSlotLeak, holders

\* A lane's slot counter never exceeds the tickets that will give a slot back, so
\* a lane at its limit always drains: admission is refused for a time, never for good.
THEOREM NoSlotLeakHolds == Spec => []NoSlotLeak
<1>1. Init => SlotsAreBacked
  BY FS_EmptySet DEF Init, SlotsAreBacked, NoSlotLeak
<1>2. IInv /\ SlotsAreBacked /\ [Next]_vars => SlotsAreBacked'
  <2>1. CASE UNCHANGED vars
    BY <2>1 DEF vars, SlotsAreBacked, NoSlotLeak, holders
  <2>2. CASE Next
    BY <2>2, AdmitSlots, RefuseSlots, ReleaseSlots, ForgetSlots DEF Next
  <2>3. QED
    BY <2>1, <2>2
<1>3. SlotsAreBacked => NoSlotLeak
  BY DEF SlotsAreBacked
<1>4. QED
  BY <1>1, <1>2, <1>3, SpecIInv, PTL DEF Spec
=============================================================================
