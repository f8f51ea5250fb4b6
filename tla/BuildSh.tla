------------------------------ MODULE BuildSh ------------------------------
(***************************************************************************)
(* build/build.sh: one checkout of the repository, the .work directory     *)
(* that survives between launches, and any number of launches of the       *)
(* script, one at a time.  A launch expands its arguments into a list of   *)
(* libraries and takes each of them through fetch, extract, recipe,        *)
(* harvest and, for four of them, a step that edits or checks the          *)
(* harvested tree.  Any command may fail (set -e ends the launch) and the  *)
(* process may be killed between or inside commands.                       *)
(*                                                                         *)
(* Bounds: MaxVer edits of each recipe, MaxFaults faults in all.           *)
(*                                                                         *)
(* A name with an underscore (AllLibs_Swapped) is a plausible slip in the  *)
(* definition below it.  No action uses it: it is there to be put in that  *)
(* definition's place, to see that a property notices the difference.      *)
(***************************************************************************)
EXTENDS Naturals, Sequences, FiniteSets, SequencesExt

CONSTANTS
  Libs,         \* the libraries build_one has a recipe for
  Tier1, Tier2, \* TIER1 and TIER2, in the order of the script
  Needs,        \* the harvested libraries a recipe looks up, per library, and
                \* those their .pc files require in turn
  Strict,       \* recipes that run tar themselves, outside $( ): icu
  WipesStage,   \* recipes that empty their staging prefix first: boost
  PostSteps,    \* recipes with commands after harvest
  Gated,        \* those whose commands end the launch when they do not match
  LdExtra,      \* recipes that append to the exported LDFLAGS: libxkbcommon
  CMakes,       \* recipes that use cmake_build: expat, double-conversion, tiff
  BlenderDirs,  \* how many libraries of BLENDER_WANT are there
  MaxDirs,      \* how many folders LIBRARY_PATH may have for exec to take it
  Legacy,       \* trees harvested before harvest() rewrote every .pc path
  OnRunner,     \* the checkout lies under /home/runner
  Dispatches,   \* the argument lists launches are given
  Forces,       \* the values of FORCE
  MaxVer, MaxFaults

AllLibs_Swapped == Tier2 \o Tier1
AllLibs == Tier1 \o Tier2

Expand(a) == CASE a = "tier1" -> Tier1
               [] a = "tier2" -> Tier2
               [] a = "all"   -> AllLibs
               [] OTHER       -> <<a>>

JobsOf(args) == IF args = <<>> THEN Tier1
                ELSE FlattenSeq([k \in DOMAIN args |-> Expand(args[k])])

Vers == 0 .. MaxVer
Tgz  == {"none", "stub", "part", "whole"} \* stub: too short to build from
Pcs  == {"rel", "stg", "dep"} \* relocatable, own staging path, other path

(* An installed or harvested tree: the recipe versions its files come from, *)
(* whether any file is missing, the tarball it was compiled from, the paths *)
(* in its .pc files, and whether its post-harvest step matched.             *)
Tree == [vers : SUBSET Vers, whole : BOOLEAN, tgz : Tgz, pcs : Pcs,
         post : BOOLEAN]

NoTree == [vers |-> {}, whole |-> TRUE, tgz |-> "whole", pcs |-> "rel",
           post |-> TRUE]

LegacyTree == [vers |-> {0}, whole |-> TRUE, tgz |-> "whole", pcs |-> "stg",
               post |-> TRUE]

Present(t) == t.vers # {}
Torn(t)    == IF Present(t) THEN [t EXCEPT !.whole = FALSE] ELSE t

(* make install and cp -a replace files of the same name and keep the rest. *)
Overlay(old, new) == [new EXCEPT !.vers = @ \cup old.vers]

ASSUME TiersAssumption ==
  /\ Tier1 \in Seq(Libs) /\ Tier2 \in Seq(Libs)
  /\ Needs \in [Libs -> SUBSET Libs] /\ \A l \in Libs : l \notin Needs[l]
  /\ Strict \cup WipesStage \cup PostSteps \cup LdExtra \cup CMakes \cup Legacy
       \subseteq Libs
  /\ Gated \subseteq PostSteps
ASSUME BoundsAssumption ==
  /\ MaxVer \in Nat /\ MaxFaults \in Nat /\ IsFiniteSet(Libs)
  /\ BlenderDirs \in Nat /\ MaxDirs \in Nat
  /\ OnRunner \in BOOLEAN /\ Forces \subseteq BOOLEAN
ASSUME JobsAssumption ==
  \A a \in Dispatches : JobsOf(a) \in Seq(STRING)

VARIABLES
  recipe, \* the version each recipe pins, [Libs -> Vers]
  repo,   \* the harvested trees $ROOT/<lib>
  dl,     \* $DL: a tarball per library and pinned version
  src,    \* $WORK/src: what the last extract left there
  stg,    \* $STG/<lib>
  tmp,    \* $ROOT/.harvest-<lib>
  bdir,   \* $WORK/build-<lib>: the pin CMake configured it for, if any
  env,    \* what refresh_env exported: the roots, the extra LDFLAGS, and how
          \* many folders LIBRARY_PATH has
  force, jobs, i, \* FORCE, JOBS, and the index of the for loop
  pc,     \* the command the launch is at, or how the last launch ended
  err,    \* the class of error message it ended with
  faults  \* faults left to happen

disk == <<repo, stg, tmp, bdir>>
vars == <<recipe, repo, dl, src, stg, tmp, bdir, env, force, jobs, i, pc, err, faults>>

Stopped == {"idle", "done", "failed", "killed"}
InRecipe == {"fetch", "extract", "build", "harvest", "copy", "reloc", "move", "post"}

Lib == jobs[i]

(* refresh_env computes everything anew but LIBRARY_PATH, to which it adds  *)
(* the folder of every root.  What is too long stays too long.              *)
Roots == {l \in Libs : Present(repo[l])}

Lengthened_TwicePerRoot(dirs) ==
  LET n == dirs + 2 * Cardinality(Roots) + BlenderDirs
  IN  IF n > MaxDirs THEN MaxDirs + 1 ELSE n
Lengthened(dirs) ==
  LET n == dirs + Cardinality(Roots) + BlenderDirs
  IN  IF n > MaxDirs THEN MaxDirs + 1 ELSE n

RefreshedEnv(dirs) ==
  [roots |-> Roots, extra |-> FALSE, dirs |-> Lengthened(dirs)]

Init ==
  /\ recipe = [l \in Libs |-> 0]
  /\ repo = [l \in Libs |-> IF l \in Legacy THEN LegacyTree ELSE NoTree]
  /\ dl = [l \in Libs |-> [v \in Vers |-> "none"]]
  /\ src = "none"
  /\ stg = [l \in Libs |-> NoTree] /\ tmp = [l \in Libs |-> NoTree]
  /\ bdir = [l \in Libs |-> {}]
  /\ env = RefreshedEnv(0)
  /\ force = FALSE /\ jobs = <<>> /\ i = 1
  /\ pc = "idle" /\ err = "none" /\ faults = MaxFaults

Fault == faults > 0 /\ faults' = faults - 1

Exit(message) == pc' = "failed" /\ err' = message

At(p) == pc = p
GoTo(p) == pc' = p /\ UNCHANGED err

(* Parts of the state a command leaves alone. *)
SameLaunch == UNCHANGED <<recipe, force, jobs>>
SameJob    == SameLaunch /\ UNCHANGED <<env, i>>
SameDisk   == UNCHANGED <<dl, src, disk>>

(* Top level of the script: refresh_env, selftest, the expansion of "$@".   *)
Launch(a, f) ==
  /\ pc \in Stopped
  /\ force' = f /\ jobs' = JobsOf(a) /\ i' = 1
  /\ env' = RefreshedEnv(0)
  /\ \/ pc' = "loop" /\ err' = "none" /\ UNCHANGED faults
     \/ Fault /\ Exit("selftest")
  /\ SameDisk /\ UNCHANGED recipe

(* build_one on a library that has a tree, without FORCE. *)
SkipsJob_IgnoresForce == Lib \in Libs /\ Present(repo[Lib])
SkipsJob_Never == FALSE
SkipsJob == ~force /\ Lib \in Libs /\ Present(repo[Lib])

Looping == At("loop") /\ i <= Len(jobs)

Skip ==
  /\ Looping /\ SkipsJob
  /\ env' = RefreshedEnv(env.dirs) /\ i' = i + 1
  /\ GoTo("loop") /\ SameLaunch /\ SameDisk /\ UNCHANGED faults

UnknownLib ==
  /\ Looping /\ Lib \notin Libs
  /\ env' = RefreshedEnv(env.dirs) /\ Exit("unknown")
  /\ SameLaunch /\ SameDisk /\ UNCHANGED <<i, faults>>

(* What the recipe runs with: build_libxkbcommon starts by extending LDFLAGS. *)
RecipeEnv_NotRefreshed == [env EXCEPT !.extra = Lib \in LdExtra]
RecipeEnv_KeepsFlags   == [RefreshedEnv(env.dirs) EXCEPT !.extra = env.extra \/ Lib \in LdExtra]
RecipeEnv              == [RefreshedEnv(env.dirs) EXCEPT !.extra = @ \/ Lib \in LdExtra]

StartRecipe ==
  /\ Looping /\ Lib \in Libs /\ ~SkipsJob
  /\ env' = RecipeEnv
  /\ GoTo("fetch") /\ SameLaunch /\ SameDisk /\ UNCHANGED <<i, faults>>

FinishLaunch ==
  /\ At("loop") /\ i > Len(jobs)
  /\ env' = RefreshedEnv(env.dirs) /\ GoTo("done")
  /\ SameLaunch /\ SameDisk /\ UNCHANGED <<i, faults>>

Tarball == dl[Lib][recipe[Lib]]

(* With a variable that exec does not take no external command starts:      *)
(* fetch finds no name for the tarball, and extract does not know its type. *)
TooLong == env.dirs > MaxDirs

EnvTooLong ==
  /\ At("fetch") /\ TooLong
  /\ Exit("environment") /\ SameJob /\ SameDisk /\ UNCHANGED faults

(* fetch: a tarball already in $DL is used as it is. *)
FetchCached ==
  /\ At("fetch") /\ ~TooLong /\ Tarball # "none"
  /\ GoTo("extract") /\ SameJob /\ SameDisk /\ UNCHANGED faults

(* set -e is off inside $( ), so a failed curl is followed by the mv, which *)
(* promotes whatever part of the file was written, and by the echo.         *)
Download ==
  /\ At("fetch") /\ ~TooLong /\ Tarball = "none"
  /\ \E t \in Tgz :
       /\ dl' = [dl EXCEPT ![Lib][recipe[Lib]] = t]
       /\ IF t = "whole" THEN UNCHANGED faults ELSE Fault
  /\ GoTo("extract") /\ SameJob /\ UNCHANGED <<src, disk>>

(* extract replaces $WORK/src; a failed tar inside $( ) is not noticed.     *)
TarNoticed_Never == FALSE
TarNoticed == Lib \in Strict /\ Tarball # "whole"

Extract ==
  /\ At("extract")
  /\ src' = Tarball
  /\ IF TarNoticed THEN Exit("sources") ELSE GoTo("build")
  /\ SameJob /\ UNCHANGED <<dl, disk, faults>>

(* A .pc names the staging prefix only off the runner, or in an old tree.   *)
Resolves(l) == \/ repo[l].pcs = "rel"
               \/ repo[l].pcs = "stg" /\ Present(stg[l]) /\ stg[l].whole

(* A tree in which a recipe is sure to find what it looks for: complete, of *)
(* the current pin (others ask for its version), from whole sources, with   *)
(* its .pc as the commands after harvest leave it, naming what is there.    *)
Usable(l) == /\ Present(repo[l]) /\ repo[l].whole /\ repo[l].tgz = "whole"
             /\ recipe[l] \in repo[l].vers /\ repo[l].post /\ Resolves(l)

(* refresh_env puts every folder on the search paths, usable or not.  In a  *)
(* tree that is not usable a recipe may or may not find what it looks for.  *)
DepsThere  == Needs[Lib] \subseteq env.roots
DepsUsable == \A l \in Needs[Lib] : Usable(l)

HasSources == src \in {"part", "whole"}

(* cmake_build keeps its build directory, and CMake refuses one that was     *)
(* configured for sources in another folder: those of another pin.          *)
OldDir_Never == FALSE
OldDir == Lib \in CMakes /\ bdir[Lib] \notin {{}, {recipe[Lib]}}

Configured == IF Lib \in CMakes THEN [bdir EXCEPT ![Lib] = {recipe[Lib]}] ELSE bdir

(* Configure stops when there are no sources, and when a .pc, a tool or a   *)
(* header it asks for is not found.                                         *)
ConfigureFails_GoesOn ==
  /\ At("build") /\ ~(HasSources /\ ~OldDir /\ DepsThere)
  /\ i' = i + 1 /\ GoTo("loop")
  /\ SameLaunch /\ SameDisk /\ UNCHANGED <<env, faults>>
ConfigureFails ==
  /\ At("build")
  /\ \/ ~HasSources /\ Exit("sources") /\ UNCHANGED bdir
     \/ HasSources /\ OldDir /\ Exit("builddir") /\ UNCHANGED bdir
     \/ /\ HasSources /\ ~OldDir /\ ~(DepsThere /\ DepsUsable)
        /\ Exit("dependency") /\ bdir' = Configured
  /\ SameJob /\ UNCHANGED <<dl, src, repo, stg, tmp, faults>>

Prefix == IF Lib \in WipesStage THEN NoTree ELSE stg[Lib]

Installed(paths) ==
  Overlay(Prefix, [vers |-> {recipe[Lib]}, whole |-> TRUE, tgz |-> src,
                   pcs |-> paths, post |-> Lib \notin PostSteps])

(* The recipe up to its install.  Its .pc files name the staging prefix, or *)
(* (counted as a fault) a path the rules of harvest do not match.           *)
Build ==
  /\ At("build") /\ HasSources /\ ~OldDir /\ DepsThere
  /\ bdir' = Configured
  /\ \E paths \in {"stg", "dep"} :
       /\ stg' = [stg EXCEPT ![Lib] = Installed(paths)]
       /\ IF paths = "stg" THEN UNCHANGED faults ELSE Fault
  /\ GoTo("harvest") /\ SameJob /\ UNCHANGED <<dl, src, repo, tmp>>

(* harvest: rm -rf "$dst" "$tmp"; mkdir -p "$tmp". *)
HarvestWipe_KeepsTmp ==
  /\ At("harvest")
  /\ repo' = [repo EXCEPT ![Lib] = NoTree]
  /\ IF Present(tmp[Lib]) THEN Exit("step") ELSE GoTo("copy")
  /\ SameJob /\ UNCHANGED <<dl, src, stg, tmp, bdir, faults>>
HarvestWipe ==
  /\ At("harvest")
  /\ repo' = [repo EXCEPT ![Lib] = NoTree]
  /\ tmp' = [tmp EXCEPT ![Lib] = NoTree]
  /\ GoTo("copy") /\ SameJob /\ UNCHANGED <<dl, src, stg, bdir, faults>>

HarvestCopy ==
  /\ At("copy")
  /\ tmp' = [tmp EXCEPT ![Lib] = Overlay(@, stg[Lib])]
  /\ GoTo("reloc") /\ SameJob /\ UNCHANGED <<dl, src, repo, stg, bdir, faults>>

(* The sed rules and the gate both look for /home/runner. *)
Relocated(t) == IF OnRunner /\ t.pcs = "stg" THEN [t EXCEPT !.pcs = "rel"] ELSE t
PassesGate_Always(t) == TRUE
PassesGate(t) == ~OnRunner \/ t.pcs = "rel"

HarvestRelocate ==
  /\ At("reloc")
  /\ tmp' = [tmp EXCEPT ![Lib] = Relocated(@)]
  /\ IF PassesGate(Relocated(tmp[Lib])) THEN GoTo("move") ELSE Exit("gate")
  /\ SameJob /\ UNCHANGED <<dl, src, repo, stg, bdir, faults>>

NextJob_SkipsOne == i' = i + 2 /\ GoTo("loop")
NextJob == i' = i + 1 /\ GoTo("loop")

HarvestMove ==
  /\ At("move")
  /\ repo' = [repo EXCEPT ![Lib] = tmp[Lib]]
  /\ tmp' = [tmp EXCEPT ![Lib] = NoTree]
  /\ IF Lib \in PostSteps THEN GoTo("post") /\ UNCHANGED i ELSE NextJob
  /\ SameLaunch /\ UNCHANGED <<dl, src, stg, bdir, env, faults>>

(* The recipe's commands on the harvested tree: sed on its .pc (fontconfig, *)
(* glib, gdk-pixbuf) or a look for one of its files (glibmm).               *)
PostMatches ==
  /\ At("post")
  /\ repo' = [repo EXCEPT ![Lib].post = TRUE]
  /\ NextJob /\ SameLaunch /\ UNCHANGED <<dl, src, stg, tmp, bdir, env, faults>>

(* The upstream file is not what the command expects. *)
PostMisses ==
  /\ At("post") /\ Fault
  /\ IF Lib \in Gated THEN Exit("gate") /\ UNCHANGED i ELSE NextJob
  /\ SameLaunch /\ SameDisk /\ UNCHANGED env

(* What the command that was running may leave when it does not finish. *)
Interrupted ==
  \/ UNCHANGED disk
  \/ /\ At("build") /\ HasSources /\ ~OldDir
     /\ \E t \in {Prefix, Torn(Installed("stg"))} : stg' = [stg EXCEPT ![Lib] = t]
     /\ bdir' = Configured /\ UNCHANGED <<repo, tmp>>
  \/ /\ At("harvest")
     /\ repo' = [repo EXCEPT ![Lib] = Torn(@)] /\ UNCHANGED <<stg, tmp, bdir>>
  \/ /\ At("copy")
     /\ tmp' = [tmp EXCEPT ![Lib] = Torn(Overlay(@, stg[Lib]))]
     /\ UNCHANGED <<repo, stg, bdir>>

(* A compiler error, a full disk, or an rm, sed or mv that fails ends the   *)
(* launch, but for the commands inside $( ): all of fetch, and extract when *)
(* the recipe does not run tar itself.  The trees are the user's own, so    *)
(* rm -rf fails on one as a whole (a file system that takes no writes), and *)
(* only a kill stops it half way.                                           *)
StepFails ==
  /\ pc \in InRecipe \ {"fetch", "extract"} \/ (At("extract") /\ Lib \in Strict)
  /\ Interrupted /\ (At("harvest") => repo' = repo) /\ Fault
  /\ Exit("step") /\ SameJob /\ UNCHANGED <<dl, src>>

Kill ==
  /\ pc \notin Stopped /\ Interrupted /\ Fault
  /\ pc' = "killed" /\ SameJob /\ UNCHANGED <<dl, src, err>>

(* A commit pins a new version of a library; it is a new URL. *)
Edit(l) ==
  /\ pc \in Stopped /\ recipe[l] < MaxVer
  /\ recipe' = [recipe EXCEPT ![l] = @ + 1]
  /\ SameDisk /\ UNCHANGED <<env, force, jobs, i, pc, err, faults>>

(* The steps of the running script, and those in which nothing goes wrong. *)
Advance ==
  \/ Skip \/ UnknownLib \/ StartRecipe \/ FinishLaunch
  \/ EnvTooLong \/ FetchCached \/ Download \/ Extract \/ ConfigureFails \/ Build
  \/ HarvestWipe \/ HarvestCopy \/ HarvestRelocate \/ HarvestMove \/ PostMatches

ScriptStep == Advance \/ PostMisses \/ StepFails

Next ==
  \/ \E a \in Dispatches, f \in Forces : Launch(a, f)
  \/ ScriptStep
  \/ Kill
  \/ \E l \in Libs : Edit(l)

Spec == Init /\ [][Next]_vars

(* The kernel runs the script; nobody is obliged to launch it again. *)
FairSpec == Spec /\ WF_vars(Advance /\ faults' = faults)
-----------------------------------------------------------------------------
(* The state is made of what the script and its disk can hold. *)
TypeOK ==
  /\ recipe \in [Libs -> Vers]
  /\ dl \in [Libs -> [Vers -> Tgz]] /\ src \in Tgz
  /\ repo \in [Libs -> Tree] /\ stg \in [Libs -> Tree] /\ tmp \in [Libs -> Tree]
  /\ bdir \in [Libs -> SUBSET Vers]
  /\ env \in [roots : SUBSET Libs, extra : BOOLEAN, dirs : 0 .. MaxDirs + 1]
  /\ force \in BOOLEAN /\ jobs \in Seq(STRING) /\ i \in 1 .. Len(jobs) + 1
  /\ pc \in {"loop"} \cup InRecipe \cup Stopped
  /\ pc \in InRecipe => i <= Len(jobs) /\ Lib \in Libs
  /\ err \in {"none", "selftest", "unknown", "environment", "sources", "builddir",
              "dependency", "gate", "step"}
  /\ faults \in 0 .. MaxFaults

(* TIER1 and TIER2 are written in dependency order (build.sh:76): the       *)
(* libraries a job looks up come before it in the list.                     *)
InOrder(js) == \A k \in DOMAIN js :
  js[k] \in Libs => \A l \in Needs[js[k]] : \E m \in 1 .. k - 1 : js[m] = l

(* A launch ends because configure did not find a dependency. *)
EndsForDependency == ~At("failed") /\ At("failed")' /\ err' = "dependency"

(* What only upstream, a download or a path that harvest does not know can  *)
(* have done to a tree, and no kill, no failed step and no edit of a pin.   *)
Misbuilt(t) == ~t.post \/ t.tgz # "whole" \/ t.pcs = "dep"

(* A launch over a list in dependency order never ends for want of a        *)
(* dependency that is not there: build_one recomputes the search paths      *)
(* before every library (build.sh:769).  It may end because of one that is  *)
(* there, kept by the skip (build.sh:772) although it is not usable; under  *)
(* FORCE=1 only because of one that was misbuilt, never because of what a   *)
(* kill, a failure or an older pin left before.                             *)
DepsBeforeUse == [][EndsForDependency /\ InOrder(jobs) =>
  /\ \A l \in Needs[Lib] : Present(repo[l])
  /\ \E l \in Needs[Lib] : IF force THEN Misbuilt(repo[l]) ELSE ~Usable(l)]_vars

(* A library named twice, when the loop comes to it again under FORCE. *)
Retaken(l) == pc # "loop" /\ i <= Len(jobs) /\ l = jobs[i]

(* The for loop has gone past a library only if the library is in the       *)
(* repository, and a failure at a later one does not take it away.          *)
PassedIsHarvested == \A k \in 1 .. i - 1 :
  jobs[k] \in Libs /\ (Present(repo[jobs[k]]) \/ Retaken(jobs[k]))

(* Of "all", whose order is the script's own (build.sh:75-77): when it ends *)
(* for a dependency, each of them is in the repository.                     *)
AllFindsDeps == [][EndsForDependency /\ jobs = JobsOf(<<"all">>) =>
  \A l \in Needs[Lib] : Present(repo[l])]_vars

(* LIBRARY_PATH grows with every library of the list, skipped ones too, and *)
(* is never reset in a launch (build.sh:142).  A list that is short enough  *)
(* for the sum never reaches the length at which no command starts.         *)
EnvFits ==
  (Len(jobs) + 1) * (Cardinality(Libs) + BlenderDirs) <= MaxDirs
    => err # "environment"

(* With FORCE=1 every library the loop has passed holds all that its        *)
(* current recipe installs, and its .pc files name what is there, unless it *)
(* is a path that harvest does not know; without FORCE an old tree, or half *)
(* a tree, may have been skipped.                                           *)
HoldsCurrent(l) == /\ recipe[l] \in repo[l].vers /\ repo[l].whole
                   /\ Resolves(l) \/ repo[l].pcs = "dep"
ForcedIsCurrent == force /\ pc \notin Stopped => \A k \in 1 .. i - 1 :
  Retaken(jobs[k]) \/ HoldsCurrent(jobs[k])

(* Without FORCE no step of any launch, and no kill, damages or replaces a  *)
(* tree that is in the repository, but for the commands after harvest.      *)
KeepsHarvested == [][~force => \A l \in Libs :
  Present(repo[l]) => repo'[l] = repo[l] \/ (At("post") /\ l = Lib)]_vars

(* The -lc++ -lm that build_libxkbcommon adds to LDFLAGS reaches no other   *)
(* recipe (comment at build.sh:466-468), also when a launch follows one     *)
(* that ended inside it.                                                    *)
FlagsIsolated == pc \in InRecipe /\ env.extra => Lib \in LdExtra

(* A recipe that runs tar outside a command substitution is harvested only  *)
(* from a complete tarball, however its downloads went.                     *)
StrictFromWhole == \A l \in Strict : Present(repo[l]) => repo[l].tgz = "whole"

(* On the runner no tree harvested by this version of the script names a    *)
(* path of the runner in a .pc: what sed does not rewrite the gate stops,   *)
(* and a stopped harvest leaves nothing to be skipped later.                *)
GateOnRunner == OnRunner => \A l \in Libs \ Legacy : repo[l].pcs = "rel"

(* What makes the properties above inductive: what the commands of a recipe *)
(* have left for the next one.  FoundDeps is only about the search paths:   *)
(* every folder a recipe looks in is there.                                 *)
Complete(t) == recipe[Lib] \in t.vers /\ t.whole
HandedOn ==
  /\ pc \in {"harvest", "copy", "reloc", "move", "post"} => Complete(stg[Lib])
  /\ pc \in {"reloc", "move"} => Complete(tmp[Lib])
  /\ pc = "post" => Complete(repo[Lib])
FoundDeps == pc \in InRecipe /\ InOrder(jobs) => DepsThere
StrictSources == pc \in InRecipe /\ Lib \in Strict =>
  /\ pc = "build" => src = "whole"
  /\ pc \in {"harvest", "copy"} => stg[Lib].tgz = "whole"
  /\ pc \in {"reloc", "move"} => tmp[Lib].tgz = "whole"
GatePassed == pc = "move" => PassesGate(tmp[Lib])
NothingToLose == pc \in InRecipe \ {"post"} /\ ~force => ~Present(repo[Lib])

FewDirs == ~(pc \in Stopped) =>
  env.dirs <= (IF pc = "loop" THEN i ELSE i + 1) * (Cardinality(Libs) + BlenderDirs)

IndInv == /\ HandedOn /\ FoundDeps /\ StrictSources /\ GatePassed /\ NothingToLose
          /\ FewDirs

(* Recovery: a launch of everything that meets no fault reaches the end,    *)
(* whatever kills and failures left in .work and .harvest-*, provided they  *)
(* left no broken tarball in .work/dl and no build directory of another     *)
(* pin.  With FORCE=1 it does so whatever they left in the repository too;  *)
(* without it the trees it skips have to be usable.                         *)
CleanTarballs == \A l \in Libs : dl[l][recipe[l]] \in {"none", "whole"}
CleanBuildDirs == \A l \in CMakes : bdir[l] \subseteq {recipe[l]}
UsableTrees == \A l \in Libs : Present(repo[l]) => Usable(l)
QuietLaunchFinishes ==
  (/\ At("loop") /\ i = 1 /\ jobs = AllLibs /\ faults = 0
   /\ CleanTarballs /\ CleanBuildDirs /\ (force \/ UsableTrees))
    ~> At("done")

-----------------------------------------------------------------------------
(* What the source says and the script does not do. *)

(* build.sh:224: either the complete folder is there or nothing is. *)
HarvestAtomic == \A l \in Libs : repo[l].whole

(* build.sh:420-422: fontconfig.pc without the public Requires is an error; *)
(* build.sh:690: a noisy gate.  A launch that ends well has met its gates.  *)
GateHolds == At("done") => \A k \in DOMAIN jobs :
  jobs[k] \in Gated => repo[jobs[k]].post

=============================================================================
