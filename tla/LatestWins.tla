------------------------------ MODULE LatestWins ------------------------------
(***************************************************************************)
(* What the lane registry promises, with no serial, epoch or counter.      *)
(*                                                                         *)
(* Requests wait until they are answered.  A request of the content lane   *)
(* dooms every request of its document that is already waiting; any other  *)
(* request dooms only the waiting requests of its own lane; losing the     *)
(* document dooms all of them.  A doomed request stays doomed, and nothing *)
(* else dooms one: in particular an interaction never cancels a render, a  *)
(* capture or a settled frame (renderer/src/lanes.js, lines 8 to 21).      *)
(***************************************************************************)


CONSTANTS
  Documents,  \* document ids
  Serials     \* names that tell one request of a document and lane from another

LaneNames == {"content", "capture", "interact", "settle"}

VARIABLES
  waiting,  \* requests admitted and not answered: [documentId, lane, serial]
  doomed    \* those of them a newer request, or the document's loss, cancelled

vars == <<waiting, doomed>>

Request == [documentId : Documents, lane : LaneNames, serial : Serials]

TypeOK ==
  /\ waiting \subseteq Request
  /\ doomed \subseteq waiting

Init == waiting = {} /\ doomed = {}

\* The requests already waiting that a new request r cancels.
CancelledBy(r) ==
  {w \in waiting : /\ w.documentId = r.documentId
                   /\ w.lane = r.lane \/ r.lane = "content"}

\* The requests waiting for a document of the set lost.
OfDocuments(lost) == {w \in waiting : w.documentId \in lost}

\* A request arrives; admitting it may push other documents out of the registry.
Arrive(r, lost) ==
  /\ r \notin waiting
  /\ r.documentId \notin lost
  /\ waiting' = waiting \cup {r}
  /\ doomed' = doomed \cup CancelledBy(r) \cup OfDocuments(lost)

\* Documents are forgotten, evicted, or pushed out by a request that is refused.
Lose(lost) ==
  /\ doomed' = doomed \cup OfDocuments(lost)
  /\ UNCHANGED waiting

\* A request is answered, one way or the other.
Leave(r) ==
  /\ r \in waiting
  /\ waiting' = waiting \ {r}
  /\ doomed' = doomed \ {r}

Next ==
  \/ \E r \in Request, lost \in SUBSET Documents : Arrive(r, lost)
  \/ \E lost \in SUBSET Documents : Lose(lost)
  \/ \E r \in waiting : Leave(r)

Spec == Init /\ [][Next]_vars
=============================================================================
