------------------------------- MODULE Recency -------------------------------
(***************************************************************************)
(* The recency order of a JavaScript Map used as an LRU.  A Map iterates   *)
(* in insertion order, so "delete, then set" makes a key the newest one    *)
(* and the first key of the iteration is the least recently used.          *)
(* renderer/src/lanes.js, service.js and browser.js all keep their per-    *)
(* document state this way.  The order is a sequence of keys, the oldest   *)
(* first; the values live in a function over the same keys.                *)
(***************************************************************************)
EXTENDS Naturals, Sequences, FiniteSets, Functions

\* No key is there twice.
Distinct(s) == \A i, j \in DOMAIN s : s[i] = s[j] => i = j

Position(order, k) == CHOOSE i \in DOMAIN order : order[i] = k

\* Map.delete(k)
Without(order, k) ==
  IF k \in Range(order)
  THEN LET i == Position(order, k)
       IN  SubSeq(order, 1, i - 1) \o SubSeq(order, i + 1, Len(order))
  ELSE order

\* Map.delete(k); Map.set(k, ...); then drop the oldest key if there are now
\* more than max of them (at most one can be: k is the only key added).
Touched(order, k, max) ==
  LET moved == Append(Without(order, k), k)
  IN  IF Len(moved) > max THEN Tail(moved) ELSE moved
=============================================================================
