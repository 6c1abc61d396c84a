----------------------------- MODULE MCRemoteImages -----------------------------
(* RemoteImages for TLC: u1 and u2 are fetched, b is refused at once. *)
EXTENDS RemoteImages
MCDocs == {<<"u1">>, <<"u2", "b">>}
=============================================================================
