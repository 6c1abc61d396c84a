-------------------------- MODULE MCRendererService --------------------------
(* Small instances of RendererService for TLC. *)
EXTENDS RendererService, TLC

CONSTANTS d1, d2, none

OneDocument  == {d1}
TwoDocuments == {d1, d2}
Symmetry     == Permutations(TwoDocuments)

DirectMethods == {"render", "capture", "interact"}
HelperMethods == {"render_prepared", "capture", "interact"}
OriginMethods == {"render", "prepare"}
AllMethods == DirectMethods \cup HelperMethods \cup OriginMethods
=============================================================================
