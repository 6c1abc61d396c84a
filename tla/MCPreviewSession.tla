-------------------------- MODULE MCPreviewSession --------------------------
(* Small instances of PreviewSession for TLC. *)
EXTENDS PreviewSession

budget(edit, scroll, float, switch, fail, crash) ==
  [edit |-> edit, scroll |-> scroll, float |-> float, switch |-> switch,
   fail |-> fail, crash |-> crash]

Typing     == budget(1, 2, 0, 0, 0, 0)
Floats     == budget(1, 1, 2, 0, 0, 0)
Switches   == budget(1, 2, 0, 2, 0, 0)
Failures   == budget(1, 1, 0, 0, 1, 1)

AllScenarios  == {Typing, Floats, Switches, Failures}
OnlyTyping    == {Typing}
OnlyFloats    == {Floats}
OnlyFailures  == {Failures}
=============================================================================
