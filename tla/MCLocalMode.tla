------------------------------ MODULE MCLocalMode ------------------------------
(* LocalMode for TLC. *)
EXTENDS LocalMode

Scenario(hazards, kinds, sessions, markers, scrolls) ==
    [hazards |-> hazards, kinds |-> kinds, sessions |-> sessions,
     markers |-> markers, scrolls |-> scrolls]

\* One session, with a marker on the terminal, one held, and one that supersedes it ...
OneSession == Scenario({"sheet", "overlap"}, 2, 1, 3, {0, 1})

\* ... one that is followed by a Neovim that scrolls as it did ...
Scrolled == Scenario({}, 0, 2, 2, {0, 1})

\* ... and one that is broken off in any of the ways, one in a behaviour.
BrokenOff == Scenario({"repeat", "reattach", "orphan", "late"}, 1, 2, 2, {0})

AllScenarios == {OneSession, Scrolled, BrokenOff}
=============================================================================
