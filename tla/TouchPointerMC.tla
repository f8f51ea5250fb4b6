--------------------------- MODULE TouchPointerMC ---------------------------
(* A menu and its submenu, or two menus, two fingers, and a slop of one.    *)
EXTENDS TouchPointer, TLC

(* One that holds another of its kind, and one that reaches beyond it. *)
MCRects == {[x |-> 0, w |-> 2], [x |-> 1, w |-> 2]}

MCSymmetry == Permutations(Pops)

=============================================================================
