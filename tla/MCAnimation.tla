------------------------------ MODULE MCAnimation ------------------------------
(* Animation for TLC: an image with frames of one cost, one with frames of two
   costs, of which the budget keeps the dear ones, and one that does not decode. *)
EXTENDS Animation

Frame(b, g) == [bytes |-> b, gap |-> g]
MCClip == ("even"   :> <<Frame(1, 1), Frame(1, 2), Frame(1, 1), Frame(1, 3)>>) @@
          ("uneven" :> <<Frame(2, 1), Frame(1, 1), Frame(2, 2)>>) @@
          ("still"  :> <<>>)
MCSourceBytes == [s \in {"even", "uneven", "still"} |-> 1]
MCDocs == {<<"even", "uneven">>, <<"uneven", "still">>, <<"uneven", "uneven">>}
MCFrameBudget == [w \in 1..2 |-> IF w = 1 THEN 4 ELSE 2]
=============================================================================
