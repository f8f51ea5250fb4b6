----------------------------- MODULE BuildLibsMC ----------------------------
(* Three libraries: one whose broken tarball is noticed, one that another   *)
(* looks up, and that other, whose step after harvest can end the launch    *)
(* with the tree already in place.                                          *)
EXTENDS BuildLibs, BuildShTiers

MCLibs  == {"expat", "icu", "fontconfig"}
MCTier1 == Among(MCLibs, TIER1)
MCTier2 == Among(MCLibs, TIER2)
MCNeeds == RequiredOf(MCLibs)
MCDispatches == {<<"all">>, <<"fontconfig">>}

=============================================================================
