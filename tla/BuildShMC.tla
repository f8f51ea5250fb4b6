----------------------------- MODULE BuildShMC -----------------------------
(* A catalogue of four libraries with the kinds of recipe of build.sh that  *)
(* fail and recover in ways of their own: one built with CMake, one with an *)
(* unchecked step after harvest and one with a checked one, one that adds   *)
(* to LDFLAGS.  The lists given to a launch have a tier, a library named    *)
(* twice, a name with no recipe, and one long enough for LIBRARY_PATH.      *)
EXTENDS BuildSh, BuildShTiers

MCLibs  == {"expat", "glib", "libxkbcommon", "glibmm"}
MCTier1 == Among(MCLibs, TIER1)
MCTier2 == Among(MCLibs, TIER2)
MCNeeds == RequiredOf(MCLibs)
MCDispatches == {<<"all">>, <<"tier1", "expat", "zlib">>, <<"tier2", "all">>}

=============================================================================
