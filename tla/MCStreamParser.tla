---------------------------- MODULE MCStreamParser ----------------------------
(* StreamParser for TLC: a token prefix of two bytes. *)
EXTENDS StreamParser
MCPrefix == <<"k", ";">>
=============================================================================
