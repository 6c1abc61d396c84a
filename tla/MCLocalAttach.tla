---------------------------- MODULE MCLocalAttach ----------------------------
(* Small instances of LocalAttach for TLC. *)
EXTENDS LocalAttach

CONSTANTS p1, p2, a1, a2, q1, q2

OneCandidate  == <<p1>>
TwoCandidates == <<p1, p2>>
OlderIsHere   == {p2}
NoneIsHere    == {}
OneAttach     == {a1}
TwoAttaches   == {a1, a2}
OneRequest    == {q1}
TwoRequests   == {q1, q2}
NoRequests    == {}
=============================================================================
