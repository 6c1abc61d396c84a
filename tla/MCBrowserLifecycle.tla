-------------------------- MODULE MCBrowserLifecycle --------------------------
(* Small instances of BrowserLifecycle for TLC. *)
EXTENDS BrowserLifecycle

CONSTANTS h1

OneProbe == {h1}
=============================================================================
