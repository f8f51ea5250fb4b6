---------------------------- MODULE BuildShTiers ----------------------------
(* The 28 libraries of build.sh:75-77 in their order, with the harvested    *)
(* libraries each recipe requires: REQUIRED or unconditional lookups of its *)
(* build system, as the recipes' comments and deps.md record them.  Headers *)
(* of Blender's libraries are taken as there.  The instances for TLC are    *)
(* made of some of these libraries, in this order.                          *)
EXTENDS Naturals, SequencesExt

TIER1 == <<"atomic_ops", "libiconv", "gettext", "libffi", "pcre2", "expat",
           "bdw-gc", "lcms2", "icu", "gsl", "double-conversion", "pixman",
           "libxslt", "boost">>
TIER2 == <<"fontconfig", "glib", "libxkbcommon", "gdk-pixbuf", "cairo", "pango",
           "graphene", "tiff", "gtk4", "sigc++", "glibmm", "cairomm", "pangomm",
           "gtkmm">>

Listed  == TIER1 \o TIER2
Recipes == ToSet(Listed)
Asks == [l \in Recipes |->
  CASE l = "gettext"      -> {"libiconv"}
    [] l = "bdw-gc"       -> {"atomic_ops"}
    [] l = "fontconfig"   -> {"expat"}
    [] l = "glib"         -> {"pcre2", "libffi", "libiconv", "gettext"}
    [] l = "gdk-pixbuf"   -> {"glib"}
    [] l = "cairo"        -> {"pixman", "fontconfig"}
    [] l = "pango"        -> {"glib", "cairo", "fontconfig"}
    [] l = "gtk4"         -> {"glib", "libxkbcommon", "gdk-pixbuf", "cairo",
                              "pango", "graphene", "tiff"}
    [] l = "glibmm"       -> {"glib", "sigc++"}
    [] l = "cairomm"      -> {"cairo", "sigc++"}
    [] l = "pangomm"      -> {"pango", "glibmm", "cairomm"}
    [] l = "gtkmm"        -> {"gtk4", "glibmm", "cairomm", "pangomm", "gdk-pixbuf"}
    [] OTHER              -> {}]

(* Nothing in the script checks the order it asks for (build.sh:76). *)
ASSUME TiersAreInOrder ==
  \A k \in DOMAIN Listed : Asks[Listed[k]] \subseteq {Listed[m] : m \in 1 .. k - 1}

(* With what those require in turn. *)
Required[l \in Recipes] == Asks[l] \cup UNION {Required[d] : d \in Asks[l]}

Among(libs, tier) == SelectSeq(tier, LAMBDA l : l \in libs)
RequiredOf(libs) == [l \in libs |-> Required[l] \cap libs]

=============================================================================
