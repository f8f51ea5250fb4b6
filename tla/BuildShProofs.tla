--------------------------- MODULE BuildShProofs ---------------------------
(* Theorems about BuildSh, for every catalogue of libraries and every bound. *)
EXTENDS BuildSh, FiniteSetTheorems, TLAPS

(* Trees stay trees under what the script does to them. *)
LEMMA NoTreeType == NoTree \in Tree /\ ~Present(NoTree)
  BY DEF NoTree, Tree, Tgz, Pcs, Present

LEMMA TornType ==
  ASSUME NEW t \in Tree
  PROVE  Torn(t) \in Tree /\ (Present(Torn(t)) <=> Present(t))
         /\ Torn(t).tgz = t.tgz /\ Torn(t).pcs = t.pcs
  BY DEF Torn, Tree, Present

LEMMA OverlayType ==
  ASSUME NEW old \in Tree, NEW new \in Tree
  PROVE  /\ Overlay(old, new) \in Tree
         /\ new.vers \subseteq Overlay(old, new).vers
         /\ Overlay(old, new).tgz = new.tgz /\ Overlay(old, new).pcs = new.pcs
         /\ Overlay(old, new).whole = new.whole /\ Overlay(old, new).post = new.post
  BY DEF Overlay, Tree, Present

LEMMA RelocatedType ==
  ASSUME NEW t \in Tree
  PROVE  /\ Relocated(t) \in Tree /\ Relocated(t).vers = t.vers /\ Relocated(t).tgz = t.tgz
         /\ Relocated(t).whole = t.whole /\ Relocated(t).post = t.post
         /\ Relocated(t).pcs \in {"rel", t.pcs}
  BY DEF Relocated, Tree, Present, Pcs

(* What a recipe installs, when it is at its install. *)
LEMMA InstalledType ==
  ASSUME TypeOK, At("build"), NEW paths \in Pcs
  PROVE  /\ Prefix \in Tree
         /\ Installed(paths) \in Tree /\ recipe[Lib] \in Installed(paths).vers
         /\ Installed(paths).tgz = src /\ Installed(paths).pcs = paths
         /\ Installed(paths).whole /\ Installed(paths).post = (Lib \notin PostSteps)
  <1>1. Lib \in Libs /\ stg[Lib] \in Tree /\ recipe[Lib] \in Vers /\ src \in Tgz
    BY DEF TypeOK, At, InRecipe
  <1>2. Prefix \in Tree
    BY <1>1, NoTreeType DEF Prefix
  <1> DEFINE new == [vers |-> {recipe[Lib]}, whole |-> TRUE, tgz |-> src,
                     pcs |-> paths, post |-> Lib \notin PostSteps]
  <1>3. /\ new \in Tree /\ recipe[Lib] \in new.vers /\ new.tgz = src /\ new.pcs = paths
        /\ new.whole /\ new.post = (Lib \notin PostSteps)
    BY <1>1 DEF Tree, Present
  <1>4. Installed(paths) = Overlay(Prefix, new)
    BY DEF Installed
  <1> HIDE DEF new
  <1> QED
    BY <1>2, <1>3, <1>4, OverlayType
-----------------------------------------------------------------------------
(* refresh_env lengthens LIBRARY_PATH by at most the folders there can be.  *)
MaxRoots == Cardinality(Libs) + BlenderDirs

LEMMA RefreshedType ==
  ASSUME NEW d \in 0 .. MaxDirs + 1
  PROVE  /\ RefreshedEnv(d) \in [roots : SUBSET Libs, extra : BOOLEAN, dirs : 0 .. MaxDirs + 1]
         /\ RefreshedEnv(d).roots = Roots
         /\ MaxRoots \in Nat /\ RefreshedEnv(d).dirs <= d + MaxRoots
  <1>1. Roots \in SUBSET Libs
    BY DEF Roots
  <1>2. /\ Cardinality(Roots) \in Nat /\ Cardinality(Libs) \in Nat
        /\ Cardinality(Roots) <= Cardinality(Libs)
    BY <1>1, BoundsAssumption, FS_Subset, FS_CardinalityType
  <1>3. BlenderDirs \in Nat /\ MaxDirs \in Nat
    BY BoundsAssumption
  <1>4. Lengthened(d) \in 0 .. MaxDirs + 1 /\ Lengthened(d) <= d + MaxRoots
    BY <1>2, <1>3 DEF Lengthened, MaxRoots
  <1> QED
    BY <1>1, <1>2, <1>3, <1>4 DEF RefreshedEnv, MaxRoots

LEMMA ConfiguredType ==
  ASSUME TypeOK, pc \in InRecipe
  PROVE  Configured \in [Libs -> SUBSET Vers]
  BY DEF TypeOK, Configured
-----------------------------------------------------------------------------
(* A fault leaves the number of faults in its range. *)
LEMMA FaultType ==
  ASSUME TypeOK, Fault
  PROVE  faults' \in 0 .. MaxFaults
  BY BoundsAssumption DEF TypeOK, Fault

(* What an interrupted command leaves is still made of trees. *)
LEMMA InterruptedType ==
  ASSUME TypeOK, Interrupted
  PROVE  /\ repo' \in [Libs -> Tree]
         /\ stg' \in [Libs -> Tree]
         /\ tmp' \in [Libs -> Tree]
         /\ bdir' \in [Libs -> SUBSET Vers]
  <1>1. CASE UNCHANGED disk
    BY <1>1 DEF disk, TypeOK
  <1>2. CASE /\ At("build") /\ HasSources /\ ~OldDir
             /\ \E t \in {Prefix, Torn(Installed("stg"))} : stg' = [stg EXCEPT ![Lib] = t]
             /\ bdir' = Configured /\ UNCHANGED <<repo, tmp>>
    <2>1. Prefix \in Tree /\ Torn(Installed("stg")) \in Tree
      BY <1>2, InstalledType, TornType DEF Pcs
    <2>2. PICK t \in Tree : stg' = [stg EXCEPT ![Lib] = t]
      BY <1>2, <2>1
    <2>3. bdir' \in [Libs -> SUBSET Vers]
      BY <1>2, ConfiguredType DEF At, InRecipe
    <2> QED
      BY <1>2, <2>2, <2>3 DEF TypeOK
  <1>3. CASE /\ At("harvest")
             /\ repo' = [repo EXCEPT ![Lib] = Torn(@)] /\ UNCHANGED <<stg, tmp, bdir>>
    <2>1. Lib \in Libs /\ repo[Lib] \in Tree
      BY <1>3 DEF TypeOK, At, InRecipe
    <2> QED
      BY <1>3, <2>1, TornType DEF TypeOK
  <1>4. CASE /\ At("copy")
             /\ tmp' = [tmp EXCEPT ![Lib] = Torn(Overlay(@, stg[Lib]))]
             /\ UNCHANGED <<repo, stg, bdir>>
    <2>1. Lib \in Libs /\ tmp[Lib] \in Tree /\ stg[Lib] \in Tree
      BY <1>4 DEF TypeOK, At, InRecipe
    <2>2. Torn(Overlay(tmp[Lib], stg[Lib])) \in Tree
      BY <2>1, OverlayType, TornType
    <2> QED
      BY <1>4, <2>1, <2>2 DEF TypeOK
  <1> QED
    BY <1>1, <1>2, <1>3, <1>4 DEF Interrupted

(* build.sh keeps its state made of what the script and its disk can hold.  *)
LEMMA InitTypeOK == Init => TypeOK
  <1> SUFFICES ASSUME Init PROVE TypeOK
    OBVIOUS
  <1>1. NoTree \in Tree /\ LegacyTree \in Tree
    <2>1. {0} \in SUBSET Vers
      BY BoundsAssumption DEF Vers
    <2> QED
      BY <2>1, NoTreeType DEF LegacyTree, Tree, Pcs, Tgz
  <1>2. repo \in [Libs -> Tree] /\ stg \in [Libs -> Tree] /\ tmp \in [Libs -> Tree]
    BY <1>1 DEF Init
  <1>3. recipe \in [Libs -> Vers] /\ dl \in [Libs -> [Vers -> Tgz]] /\ src \in Tgz
    BY BoundsAssumption DEF Init, Vers, Tgz
  <1>4. /\ env \in [roots : SUBSET Libs, extra : BOOLEAN, dirs : 0 .. MaxDirs + 1]
        /\ bdir \in [Libs -> SUBSET Vers]
    BY RefreshedType, BoundsAssumption DEF Init
  <1>5. jobs \in Seq(STRING) /\ i \in 1 .. Len(jobs) + 1
    BY DEF Init
  <1>6. force \in BOOLEAN /\ faults = MaxFaults
    BY DEF Init
  <1>7. faults \in 0 .. MaxFaults
    BY <1>6, BoundsAssumption
  <1>8. pc \in Stopped /\ pc \notin InRecipe /\ err = "none"
    BY DEF Init, InRecipe, Stopped
  <1>9. pc \in {"loop"} \cup InRecipe \cup Stopped
    BY <1>8
  <1>10. err \in {"none", "selftest", "unknown", "environment", "sources", "builddir",
                  "dependency", "gate", "step"}
    BY <1>8
  <1>11. pc \in InRecipe => i <= Len(jobs) /\ Lib \in Libs
    BY <1>8
  <1> QED
    BY <1>2, <1>3, <1>4, <1>5, <1>6, <1>7, <1>9, <1>10, <1>11 DEF TypeOK

LEMMA NextTypeOK == TypeOK /\ [Next]_vars => TypeOK'
  <1> SUFFICES ASSUME TypeOK, [Next]_vars PROVE TypeOK'
    OBVIOUS
  <1> USE DEF At, GoTo, Exit, SameLaunch, SameJob, SameDisk, disk, InRecipe, Stopped
  <1>0. RefreshedEnv(env.dirs) \in [roots : SUBSET Libs, extra : BOOLEAN, dirs : 0 .. MaxDirs + 1]
    BY RefreshedType DEF TypeOK
  <1>1. ASSUME NEW a \in Dispatches, NEW f \in Forces, Launch(a, f) PROVE TypeOK'
    <2>1. jobs' \in Seq(STRING) /\ f \in BOOLEAN /\ i' \in 1 .. Len(jobs') + 1
      BY <1>1, JobsAssumption, BoundsAssumption DEF Launch
    <2>2. env' \in [roots : SUBSET Libs, extra : BOOLEAN, dirs : 0 .. MaxDirs + 1]
      BY <1>1, RefreshedType, BoundsAssumption DEF Launch
    <2>3. faults' \in 0 .. MaxFaults
      BY <1>1, FaultType DEF Launch, TypeOK
    <2> QED
      BY <1>1, <2>1, <2>2, <2>3 DEF Launch, TypeOK
  <1>2. CASE Skip
    <2>1. i' \in 1 .. Len(jobs) + 1
      BY <1>2 DEF Skip, Looping, TypeOK
    <2> QED
      BY <1>2, <2>1, <1>0 DEF Skip, TypeOK
  <1>3. CASE UnknownLib
    BY <1>3, <1>0 DEF UnknownLib, TypeOK
  <1>4. CASE StartRecipe
    <2>1. env' \in [roots : SUBSET Libs, extra : BOOLEAN, dirs : 0 .. MaxDirs + 1]
      BY <1>4, <1>0 DEF StartRecipe, RecipeEnv
    <2> QED
      BY <1>4, <2>1 DEF StartRecipe, Looping, TypeOK, Lib
  <1>5. CASE FinishLaunch
    BY <1>5, <1>0 DEF FinishLaunch, TypeOK
  <1>5x. CASE EnvTooLong
    BY <1>5x DEF EnvTooLong, TypeOK, Lib
  <1>6. CASE FetchCached
    BY <1>6 DEF FetchCached, TypeOK, Lib
  <1>7. CASE Download
    <2>1. Lib \in Libs /\ recipe[Lib] \in Vers
      BY <1>7 DEF Download, TypeOK
    <2>2. dl' \in [Libs -> [Vers -> Tgz]]
      BY <1>7, <2>1 DEF Download, TypeOK
    <2>3. faults' \in 0 .. MaxFaults
      BY <1>7, FaultType DEF Download, TypeOK
    <2> QED
      BY <1>7, <2>2, <2>3 DEF Download, TypeOK, Lib
  <1>8. CASE Extract
    <2>1. Tarball \in Tgz
      BY <1>8 DEF Extract, TypeOK, Tarball
    <2> QED
      BY <1>8, <2>1 DEF Extract, TypeOK, Lib
  <1>9. CASE ConfigureFails
    <2>1. bdir' \in [Libs -> SUBSET Vers]
      BY <1>9, ConfiguredType DEF ConfigureFails, TypeOK
    <2> QED
      BY <1>9, <2>1 DEF ConfigureFails, TypeOK, Lib
  <1>10. CASE Build
    <2>1. stg' \in [Libs -> Tree]
      BY <1>10, InstalledType DEF Build, TypeOK, Pcs
    <2>2. faults' \in 0 .. MaxFaults
      BY <1>10, FaultType DEF Build, TypeOK
    <2>3. bdir' \in [Libs -> SUBSET Vers]
      BY <1>10, ConfiguredType DEF Build, TypeOK
    <2> QED
      BY <1>10, <2>1, <2>2, <2>3 DEF Build, TypeOK, Lib
  <1>7x. CASE HarvestWipe
    <2>1. repo' \in [Libs -> Tree] /\ tmp' \in [Libs -> Tree]
      BY <1>7x, NoTreeType DEF HarvestWipe, TypeOK
    <2> QED
      BY <1>7x, <2>1 DEF HarvestWipe, TypeOK, Lib
  <1>12. CASE HarvestCopy
    <2>1. Lib \in Libs /\ tmp[Lib] \in Tree /\ stg[Lib] \in Tree
      BY <1>12 DEF HarvestCopy, TypeOK
    <2>2. tmp' \in [Libs -> Tree]
      BY <1>12, <2>1, OverlayType DEF HarvestCopy, TypeOK
    <2> QED
      BY <1>12, <2>2 DEF HarvestCopy, TypeOK, Lib
  <1>13. CASE HarvestRelocate
    <2>1. tmp' \in [Libs -> Tree]
      BY <1>13, RelocatedType DEF HarvestRelocate, TypeOK
    <2> QED
      BY <1>13, <2>1 DEF HarvestRelocate, TypeOK, Lib
  <1>14. CASE HarvestMove
    <2>1. repo' \in [Libs -> Tree] /\ tmp' \in [Libs -> Tree]
      BY <1>14, NoTreeType DEF HarvestMove, TypeOK
    <2> QED
      BY <1>14, <2>1 DEF HarvestMove, NextJob, TypeOK, Lib
  <1>15. CASE PostMatches
    <2>1. Lib \in Libs /\ repo[Lib] \in Tree
      BY <1>15 DEF PostMatches, TypeOK
    <2>2. [repo[Lib] EXCEPT !.post = TRUE] \in Tree
      BY <2>1 DEF Tree
    <2>3. repo' \in [Libs -> Tree]
      BY <1>15, <2>1, <2>2 DEF PostMatches, TypeOK
    <2> QED
      BY <1>15, <2>3 DEF PostMatches, NextJob, TypeOK, Lib
  <1>16. CASE PostMisses
    BY <1>16, FaultType DEF PostMisses, NextJob, TypeOK, Lib
  <1>17. CASE StepFails
    BY <1>17, FaultType, InterruptedType DEF StepFails, TypeOK, Lib
  <1>18. CASE Kill
    BY <1>18, FaultType, InterruptedType DEF Kill, TypeOK, Lib
  <1>19. ASSUME NEW l \in Libs, Edit(l) PROVE TypeOK'
    <2>1. recipe' \in [Libs -> Vers]
      BY <1>19, BoundsAssumption DEF Edit, TypeOK, Vers
    <2> QED
      BY <1>19, <2>1 DEF Edit, TypeOK, Lib
  <1>20. CASE UNCHANGED vars
    BY <1>20 DEF vars, TypeOK, Lib
  <1> QED
    BY <1>1, <1>2, <1>3, <1>4, <1>5, <1>5x, <1>6, <1>7, <1>8, <1>9, <1>10, <1>7x, <1>12,
       <1>13, <1>14, <1>15, <1>16, <1>17, <1>18, <1>19, <1>20
       DEF Next, ScriptStep, Advance

THEOREM Typing == Spec => []TypeOK
  BY InitTypeOK, NextTypeOK, PTL DEF Spec
-----------------------------------------------------------------------------
(* Every step of the script belongs to one of these groups.  The first two  *)
(* leave the recipe: whatever they do, the next state is outside it.        *)
LEMMA StepCases ==
  ASSUME [Next]_vars
  PROVE  \/ \E a \in Dispatches, f \in Forces : Launch(a, f)
         \/ Skip \/ UnknownLib \/ FinishLaunch \/ EnvTooLong \/ ConfigureFails
         \/ StepFails \/ Kill
         \/ \E l \in Libs : Edit(l)
         \/ UNCHANGED vars
         \/ StartRecipe \/ FetchCached \/ Download \/ Extract
         \/ Build \/ HarvestWipe \/ HarvestCopy \/ HarvestRelocate \/ HarvestMove
         \/ PostMatches \/ PostMisses
  BY DEF Next, ScriptStep, Advance

LEMMA Leaving ==
  ASSUME \/ \E a \in Dispatches, f \in Forces : Launch(a, f)
         \/ Skip \/ UnknownLib \/ FinishLaunch \/ EnvTooLong \/ ConfigureFails
         \/ StepFails \/ Kill
         \/ \E l \in Libs : Edit(l)
         \/ PostMatches \/ PostMisses
  PROVE  pc' \notin InRecipe
  BY DEF Launch, Skip, UnknownLib, FinishLaunch, EnvTooLong, ConfigureFails, StepFails, Kill,
         Edit, PostMatches, PostMisses, NextJob, InRecipe, Stopped, GoTo, Exit, At

LEMMA HandedOnStep == TypeOK /\ HandedOn /\ [Next]_vars => HandedOn'
  <1> SUFFICES ASSUME TypeOK, HandedOn, [Next]_vars PROVE HandedOn'
    OBVIOUS
  <1> USE DEF At, GoTo, Exit, SameLaunch, SameJob, HandedOn, Complete
  <1>1. CASE pc' \notin InRecipe
    BY <1>1 DEF InRecipe
  <1>2. CASE StartRecipe \/ FetchCached \/ Download \/ Extract
    BY <1>2 DEF StartRecipe, FetchCached, Download, Extract
  <1>3. CASE Build
    BY <1>3, InstalledType DEF Build, Pcs, TypeOK, InRecipe, Lib
  <1>4. CASE HarvestWipe
    BY <1>4 DEF HarvestWipe, Lib
  <1>5. CASE HarvestCopy
    BY <1>5, OverlayType DEF HarvestCopy, TypeOK, InRecipe, Lib
  <1>6. CASE HarvestRelocate
    BY <1>6, RelocatedType DEF HarvestRelocate, TypeOK, InRecipe, Lib
  <1>7. CASE HarvestMove
    BY <1>7 DEF HarvestMove, NextJob, TypeOK, InRecipe, Lib
  <1>8. CASE UNCHANGED vars
    BY <1>8 DEF vars, Lib
  <1> QED
    BY <1>1, <1>2, <1>3, <1>4, <1>5, <1>6, <1>7, <1>8, StepCases, Leaving

(* What a launch does to the trees of the repository: it leaves them alone  *)
(* but for the library it is at, whose tree may be torn or wiped in         *)
(* "harvest", is put in place in "move" and edited in "post".               *)
LEMMA RepoStep ==
  ASSUME TypeOK, [Next]_vars
  PROVE  \/ UNCHANGED repo
         \/ /\ pc \in InRecipe
            /\ \A l \in Libs \ {Lib} : repo'[l] = repo[l]
            /\ \/ /\ At("harvest") /\ UNCHANGED <<i, jobs>>
                  /\ pc' \in {"copy", "killed", "failed"}
                  /\ repo'[Lib] \in {NoTree, Torn(repo[Lib])}
                  /\ pc' # "copy" => repo'[Lib] = Torn(repo[Lib])
               \/ At("move") /\ repo'[Lib] = tmp[Lib]
               \/ /\ At("post") /\ repo'[Lib].tgz = repo[Lib].tgz
                  /\ repo'[Lib].pcs = repo[Lib].pcs /\ repo'[Lib].vers = repo[Lib].vers
  <1> USE DEF At, GoTo, Exit, SameLaunch, SameJob, SameDisk, disk
  <1>1. CASE \/ \E a \in Dispatches, f \in Forces : Launch(a, f)
             \/ \E l \in Libs : Edit(l)
             \/ UNCHANGED vars
             \/ Skip \/ UnknownLib \/ FinishLaunch \/ EnvTooLong \/ ConfigureFails
    BY <1>1 DEF Launch, Edit, vars, Skip, UnknownLib, FinishLaunch, EnvTooLong, ConfigureFails
  <1>2. CASE StartRecipe \/ FetchCached \/ Download \/ Extract \/ Build \/ HarvestCopy
             \/ HarvestRelocate \/ PostMisses
    BY <1>2 DEF StartRecipe, FetchCached, Download, Extract, Build, HarvestCopy,
                HarvestRelocate, PostMisses
  <1>3. CASE HarvestWipe
    BY <1>3 DEF HarvestWipe, TypeOK, InRecipe
  <1>4. CASE HarvestMove
    BY <1>4 DEF HarvestMove, TypeOK, InRecipe
  <1>5. CASE PostMatches
    <2>1. Lib \in Libs /\ repo[Lib] \in Tree /\ repo \in [Libs -> Tree]
      BY <1>5 DEF PostMatches, TypeOK, InRecipe
    <2>2. repo' = [repo EXCEPT ![Lib] = [repo[Lib] EXCEPT !.post = TRUE]]
      BY <1>5 DEF PostMatches
    <2>3. repo'[Lib] = [repo[Lib] EXCEPT !.post = TRUE]
      BY <2>1, <2>2
    <2>4. /\ repo'[Lib].tgz = repo[Lib].tgz /\ repo'[Lib].pcs = repo[Lib].pcs
          /\ repo'[Lib].vers = repo[Lib].vers
      BY <2>1, <2>3 DEF Tree
    <2> QED
      BY <1>5, <2>1, <2>2, <2>4 DEF PostMatches, InRecipe
  <1>6. CASE StepFails
    BY <1>6 DEF StepFails, Interrupted, TypeOK, InRecipe
  <1>7. CASE Kill
    BY <1>7 DEF Kill, Interrupted, TypeOK, InRecipe
  <1> QED
    BY <1>1, <1>2, <1>3, <1>4, <1>5, <1>6, <1>7, StepCases

(* Only an install changes a staging prefix, and only its own.              *)
LEMMA StgStep ==
  ASSUME TypeOK, [Next]_vars
  PROVE  \/ UNCHANGED stg
         \/ At("build") /\ \A l \in Libs \ {Lib} : stg'[l] = stg[l]
  <1> USE DEF At, SameLaunch, SameJob, SameDisk, disk
  <1>1. CASE \/ \E a \in Dispatches, f \in Forces : Launch(a, f)
             \/ \E l \in Libs : Edit(l)
             \/ UNCHANGED vars
             \/ Skip \/ UnknownLib \/ FinishLaunch \/ EnvTooLong \/ ConfigureFails
    BY <1>1 DEF Launch, Edit, vars, Skip, UnknownLib, FinishLaunch, EnvTooLong, ConfigureFails
  <1>2. CASE StartRecipe \/ FetchCached \/ Download \/ Extract \/ HarvestWipe \/ HarvestCopy
             \/ HarvestRelocate \/ HarvestMove \/ PostMatches \/ PostMisses
    BY <1>2 DEF StartRecipe, FetchCached, Download, Extract, HarvestWipe, HarvestCopy,
                HarvestRelocate, HarvestMove, PostMatches, PostMisses
  <1>3. CASE Build
    BY <1>3 DEF Build, TypeOK, InRecipe
  <1>4. CASE StepFails \/ Kill
    BY <1>4 DEF StepFails, Kill, Interrupted, TypeOK, InRecipe
  <1> QED
    BY <1>1, <1>2, <1>3, <1>4, StepCases

(* The for loop moves on only from a library that is in the repository.     *)
LEMMA LoopStep ==
  ASSUME TypeOK, HandedOn, [Next]_vars
  PROVE  \/ i' = 1
         \/ UNCHANGED <<i, jobs>> /\ (pc' = "loop" => pc = "loop")
         \/ /\ i' = i + 1 /\ UNCHANGED jobs
            /\ i <= Len(jobs) /\ Lib \in Libs /\ Present(repo'[Lib])
            /\ force => /\ recipe[Lib] \in repo'[Lib].vers /\ repo'[Lib].whole
                        /\ Present(stg[Lib]) /\ stg[Lib].whole
            /\ UNCHANGED stg /\ (pc \in {"move", "post"} \/ UNCHANGED repo)
  <1> USE DEF At, GoTo, Exit, SameLaunch, SameJob, SameDisk, disk, HandedOn, Complete
  <1>1. CASE \/ \E a \in Dispatches, f \in Forces : Launch(a, f)
             \/ \E l \in Libs : Edit(l)
             \/ UNCHANGED vars
             \/ UnknownLib \/ FinishLaunch \/ EnvTooLong \/ ConfigureFails
    BY <1>1 DEF Launch, Edit, vars, UnknownLib, FinishLaunch, EnvTooLong, ConfigureFails,
                Stopped
  <1>2. CASE StartRecipe \/ FetchCached \/ Download \/ Extract \/ Build \/ HarvestCopy
             \/ HarvestRelocate \/ HarvestWipe \/ StepFails \/ Kill
    BY <1>2 DEF StartRecipe, FetchCached, Download, Extract, Build, HarvestCopy,
                HarvestRelocate, HarvestWipe, StepFails, Kill
  <1>3. CASE Skip
    BY <1>3 DEF Skip, SkipsJob, Looping
  <1>4. CASE HarvestMove
    BY <1>4 DEF HarvestMove, NextJob, TypeOK, InRecipe, Present
  <1>5. CASE PostMatches
    <2>1. PostMatches /\ TypeOK /\ pc = "post" /\ Lib \in Libs /\ repo[Lib] \in Tree
      BY <1>5 DEF PostMatches, TypeOK, InRecipe
    <2>2. repo' = [repo EXCEPT ![Lib] = [repo[Lib] EXCEPT !.post = TRUE]]
      BY <2>1 DEF PostMatches
    <2>3. repo'[Lib].vers = repo[Lib].vers /\ repo'[Lib].whole = repo[Lib].whole
      BY <2>1, <2>2 DEF TypeOK, Tree
    <2>4. recipe[Lib] \in repo'[Lib].vers /\ repo'[Lib].whole
      BY <2>1, <2>3
    <2> QED
      BY <2>1, <2>4 DEF PostMatches, NextJob, Present, TypeOK, InRecipe
  <1>6. CASE PostMisses
    BY <1>6 DEF PostMisses, NextJob, TypeOK, InRecipe, Present
  <1> QED
    BY <1>1, <1>2, <1>3, <1>4, <1>5, <1>6, StepCases

LEMMA PassedStep ==
  TypeOK /\ HandedOn /\ PassedIsHarvested /\ [Next]_vars => PassedIsHarvested'
  <1> SUFFICES ASSUME TypeOK, HandedOn, PassedIsHarvested, [Next]_vars
               PROVE  PassedIsHarvested'
    OBVIOUS
  <1> USE DEF PassedIsHarvested, Retaken
  <1>0. i \in 1 .. Len(jobs) + 1 /\ Len(jobs) \in Nat
    BY DEF TypeOK
  <1>1. CASE i' = 1
    BY <1>1
  <1>2. CASE UNCHANGED <<i, jobs>> /\ (pc' = "loop" => pc = "loop")
    <2>1. \A l \in Libs : repo'[l] # repo[l] => pc \in InRecipe /\ l = Lib
      BY RepoStep
    <2>2. pc \in InRecipe => pc # "loop" /\ i <= Len(jobs)
      BY DEF TypeOK, InRecipe
    <2> QED
      BY <1>0, <1>2, <2>1, <2>2 DEF Lib
  <1>3. CASE /\ i' = i + 1 /\ UNCHANGED jobs
             /\ i <= Len(jobs) /\ Lib \in Libs /\ Present(repo'[Lib])
             /\ force => /\ recipe[Lib] \in repo'[Lib].vers /\ repo'[Lib].whole
                         /\ Present(stg[Lib]) /\ stg[Lib].whole
             /\ UNCHANGED stg /\ (pc \in {"move", "post"} \/ UNCHANGED repo)
    <2>1. \A l \in Libs \ {Lib} : repo'[l] = repo[l]
      BY RepoStep
    <2> SUFFICES ASSUME NEW k \in 1 .. i
                 PROVE  jobs[k] \in Libs /\ Present(repo'[jobs[k]])
      BY <1>0, <1>3
    <2>2. CASE jobs[k] = Lib
      BY <1>3, <2>2
    <2>3. CASE jobs[k] # Lib
      <3>1. k \in 1 .. i - 1 /\ ~Retaken(jobs[k])
        BY <1>0, <2>3 DEF Lib
      <3>2. jobs[k] \in Libs /\ Present(repo[jobs[k]])
        BY <3>1
      <3> QED
        BY <2>1, <2>3, <3>2
    <2> QED
      BY <2>2, <2>3
  <1> QED
    BY <1>1, <1>2, <1>3, LoopStep

(* While a launch runs, its FORCE and the recipes stay what they are. *)
LEMMA RunningStep ==
  ASSUME [Next]_vars, pc' \notin Stopped
  PROVE  i' = 1 \/ (pc \notin Stopped /\ UNCHANGED <<force, recipe>>)
  BY StepCases DEF Launch, Skip, UnknownLib, FinishLaunch, EnvTooLong, ConfigureFails,
     StepFails, Kill, Edit, vars, StartRecipe, FetchCached, Download, Extract, Build, HarvestWipe, HarvestCopy,
     HarvestRelocate, HarvestMove, PostMatches, PostMisses, NextJob, Looping, Stopped, At,
     GoTo, Exit, SameLaunch, SameJob

(* Under FORCE it moves on only with what the current recipe installs. *)
LEMMA ForcedStep ==
  TypeOK /\ HandedOn /\ PassedIsHarvested /\ ForcedIsCurrent /\ [Next]_vars
    => ForcedIsCurrent'
  <1> SUFFICES ASSUME TypeOK, HandedOn, PassedIsHarvested, ForcedIsCurrent, [Next]_vars,
                      (force /\ pc \notin Stopped)'
               PROVE  (\A k \in 1 .. i - 1 : Retaken(jobs[k]) \/ HoldsCurrent(jobs[k]))'
    BY DEF ForcedIsCurrent
  <1>0. i \in 1 .. Len(jobs) + 1 /\ Len(jobs) \in Nat
    BY DEF TypeOK
  <1>1. CASE i' = 1
    BY <1>1
  <1>2. CASE i' # 1 /\ UNCHANGED <<i, jobs>> /\ (pc' = "loop" => pc = "loop")
    <2>1. force /\ pc \notin Stopped /\ UNCHANGED <<force, recipe>>
      BY <1>2, RunningStep
    <2>2. \A l \in Libs : repo'[l] # repo[l] \/ stg'[l] # stg[l] => pc \in InRecipe /\ l = Lib
      BY RepoStep, StgStep DEF At, InRecipe
    <2>3. pc \in InRecipe => pc # "loop" /\ i <= Len(jobs)
      BY DEF TypeOK, InRecipe
    <2> SUFFICES ASSUME NEW k \in 1 .. i - 1
                 PROVE  Retaken(jobs[k])' \/ HoldsCurrent(jobs[k])'
      BY <1>2, <2>1
    <2>4. jobs[k] \in Libs /\ (Retaken(jobs[k]) \/ HoldsCurrent(jobs[k]))
      BY <2>1 DEF PassedIsHarvested, ForcedIsCurrent
    <2>5. Retaken(jobs[k]) => Retaken(jobs[k])'
      BY <1>2 DEF Retaken
    <2>6. CASE pc \in InRecipe /\ jobs[k] = Lib
      BY <1>2, <2>3, <2>6 DEF Retaken, Lib
    <2>7. CASE ~(pc \in InRecipe /\ jobs[k] = Lib) /\ HoldsCurrent(jobs[k])
      <3> DEFINE l == jobs[k]
      <3>1. HoldsCurrent(l)'
        <4>1. l \in Libs /\ l' = l
          BY <1>2, <2>4
        <4>2. repo'[l] = repo[l] /\ stg'[l] = stg[l] /\ recipe'[l] = recipe[l]
          BY <2>1, <2>2, <2>7, <4>1
        <4> QED
          BY <2>7, <4>1, <4>2 DEF HoldsCurrent, Resolves, Present
      <3> QED
        BY <3>1
    <2> QED
      BY <2>4, <2>5, <2>6, <2>7
  <1>3. CASE /\ i' # 1 /\ i' = i + 1 /\ UNCHANGED jobs
             /\ i <= Len(jobs) /\ Lib \in Libs /\ Present(repo'[Lib])
             /\ force => /\ recipe[Lib] \in repo'[Lib].vers /\ repo'[Lib].whole
                         /\ Present(stg[Lib]) /\ stg[Lib].whole
             /\ UNCHANGED stg /\ (pc \in {"move", "post"} \/ UNCHANGED repo)
    <2>1. force /\ pc \notin Stopped /\ UNCHANGED <<force, recipe>>
      BY <1>3, RunningStep
    <2>2. \A l \in Libs \ {Lib} : repo'[l] = repo[l]
      BY RepoStep
    <2> SUFFICES ASSUME NEW k \in 1 .. i PROVE HoldsCurrent(jobs[k])'
      BY <1>0, <1>3, <2>1
    <2>3. CASE jobs[k] = Lib
      <3>1. TypeOK' /\ jobs'[k] = Lib
        BY <1>3, <2>3, NextTypeOK
      <3>2. /\ recipe'[Lib] \in repo'[Lib].vers /\ repo'[Lib].whole
            /\ Present(stg'[Lib]) /\ stg'[Lib].whole /\ repo'[Lib].pcs \in Pcs
        BY <1>3, <2>1, <3>1 DEF TypeOK, Tree
      <3> QED
        BY <3>1, <3>2 DEF HoldsCurrent, Resolves, Present, Pcs
    <2>4. CASE jobs[k] # Lib
      <3>1. k \in 1 .. i - 1 /\ ~Retaken(jobs[k])
        BY <1>0, <2>4 DEF Lib, Retaken
      <3>2. jobs[k] \in Libs /\ HoldsCurrent(jobs[k]) /\ jobs'[k] = jobs[k]
        BY <1>3, <2>1, <3>1 DEF PassedIsHarvested, ForcedIsCurrent
      <3> QED
        BY <1>3, <2>1, <2>2, <2>4, <3>2 DEF HoldsCurrent, Resolves, Present
    <2> QED
      BY <2>3, <2>4
  <1> QED
    BY <1>0, <1>1, <1>2, <1>3, LoopStep
-----------------------------------------------------------------------------
(* A recipe is entered from the loop; once in it, a launch keeps its place. *)
LEMMA RecipeStep ==
  ASSUME [Next]_vars, pc' \in InRecipe
  PROVE  StartRecipe \/ (pc \in InRecipe /\ UNCHANGED <<env, jobs, i, force>>)
  <1> USE DEF At, GoTo, Exit, SameLaunch, SameJob
  <1>1. CASE FetchCached \/ Download \/ Extract \/ Build \/ HarvestWipe \/ HarvestCopy
             \/ HarvestRelocate \/ HarvestMove
    BY <1>1 DEF FetchCached, Download, Extract, Build, HarvestWipe, HarvestCopy,
                HarvestRelocate, HarvestMove, NextJob, InRecipe
  <1>2. CASE UNCHANGED vars
    BY <1>2 DEF vars
  <1> QED
    BY <1>1, <1>2, StepCases, Leaving

(* refresh_env before the recipe exports every tree the loop has passed. *)
LEMMA FoundDepsStep ==
  TypeOK /\ PassedIsHarvested /\ FoundDeps /\ [Next]_vars => FoundDeps'
  <1> SUFFICES ASSUME TypeOK, PassedIsHarvested, FoundDeps, [Next]_vars,
                      (pc \in InRecipe)', InOrder(jobs)'
               PROVE  DepsThere'
    BY DEF FoundDeps
  <1>1. CASE StartRecipe
    <2>1. /\ pc = "loop" /\ i \in DOMAIN jobs /\ Lib \in Libs
          /\ UNCHANGED <<jobs, i>> /\ env'.roots = Roots
      BY <1>1 DEF StartRecipe, Looping, At, SameLaunch, RecipeEnv, RefreshedEnv, TypeOK
    <2>2. \A l \in Needs[Lib] : \E m \in 1 .. i - 1 : jobs[m] = l
      BY <2>1 DEF InOrder, Lib
    <2>3. \A l \in Needs[Lib] : l \in Libs /\ Present(repo[l])
      BY <2>1, <2>2 DEF PassedIsHarvested, Retaken
    <2> QED
      BY <2>1, <2>3 DEF DepsThere, Roots, Lib
  <1>2. CASE pc \in InRecipe /\ UNCHANGED <<env, jobs, i, force>>
    BY <1>2 DEF FoundDeps, DepsThere, Lib
  <1> QED
    BY <1>1, <1>2, RecipeStep

(* Only a recipe that looks its dependencies up ends for want of one.       *)
LEMMA DepsBeforeUseStep ==
  ASSUME TypeOK, FoundDeps, PassedIsHarvested, ForcedIsCurrent, [Next]_vars,
         EndsForDependency, InOrder(jobs)
  PROVE  /\ \A l \in Needs[Lib] : Present(repo[l])
         /\ \E l \in Needs[Lib] : IF force THEN Misbuilt(repo[l]) ELSE ~Usable(l)
  <1>1. At("build") /\ ~(DepsThere /\ DepsUsable)
    <2> USE DEF At, GoTo, Exit, EndsForDependency
    <2>1. CASE \/ \E a \in Dispatches, f \in Forces : Launch(a, f)
               \/ Skip \/ UnknownLib \/ StartRecipe \/ FinishLaunch
               \/ EnvTooLong \/ FetchCached \/ Download \/ Extract \/ Build
      BY <2>1 DEF Launch, Skip, UnknownLib, StartRecipe, FinishLaunch, EnvTooLong, FetchCached,
                  Download, Extract, Build
    <2>2. CASE \/ HarvestWipe \/ HarvestCopy \/ HarvestRelocate \/ HarvestMove
               \/ PostMatches \/ PostMisses
      BY <2>2 DEF HarvestWipe, HarvestCopy, HarvestRelocate, HarvestMove, PostMatches,
                  PostMisses, NextJob
    <2>3. CASE StepFails \/ Kill \/ UNCHANGED vars \/ \E l \in Libs : Edit(l)
      BY <2>3 DEF StepFails, Kill, vars, Edit
    <2>4. CASE ConfigureFails
      BY <2>4 DEF ConfigureFails
    <2> QED
      BY <2>1, <2>2, <2>3, <2>4, StepCases
  <1>2. DepsThere /\ Lib \in Libs /\ i \in DOMAIN jobs /\ Needs[Lib] \subseteq Libs \ {Lib}
    BY <1>1, TiersAssumption DEF FoundDeps, TypeOK, At, InRecipe
  <1>3. ASSUME NEW l \in Needs[Lib]
        PROVE  Present(repo[l]) /\ (force => HoldsCurrent(l))
    <2>1. PICK m \in 1 .. i - 1 : jobs[m] = l
      BY <1>2 DEF InOrder, Lib
    <2>2. ~Retaken(l)
      BY <1>2 DEF Retaken, Lib
    <2>3. Present(repo[l])
      BY <2>1, <2>2 DEF PassedIsHarvested
    <2>4. force => HoldsCurrent(l)
      BY <1>1, <2>1, <2>2 DEF ForcedIsCurrent, At, Stopped
    <2> QED
      BY <2>3, <2>4
  <1>4. PICK l \in Needs[Lib] : ~Usable(l)
    BY <1>1, <1>2 DEF DepsUsable
  <1>5. force => Misbuilt(repo[l])
    BY <1>3, <1>4 DEF HoldsCurrent, Usable, Misbuilt
  <1> QED
    BY <1>3, <1>4, <1>5

(* What refresh_env exports before a recipe carries no flag of another one. *)
LEMMA FlagsStep == FlagsIsolated /\ [Next]_vars => FlagsIsolated'
  BY RecipeStep DEF FlagsIsolated, StartRecipe, RecipeEnv, RefreshedEnv, SameLaunch, Lib
-----------------------------------------------------------------------------
(* One refresh_env at the start of the launch and one per library. *)
LEMMA OneMore ==
  ASSUME NEW k \in Nat, NEW n \in Nat
  PROVE  k * n \in Nat /\ (k + 1) * n = k * n + n /\ 1 * n = n
  OBVIOUS

LEMMA Monotone ==
  ASSUME NEW k \in Nat, NEW m \in Nat, NEW n \in Nat, k <= m
  PROVE  (k + 1) * n <= (m + 1) * n
  OBVIOUS

LEMMA FewDirsStep == TypeOK /\ FewDirs /\ [Next]_vars => FewDirs'
  <1> SUFFICES ASSUME TypeOK, FewDirs, [Next]_vars, pc' \notin Stopped
               PROVE  env'.dirs <= (IF pc' = "loop" THEN i' ELSE i' + 1) * MaxRoots
    BY DEF FewDirs, MaxRoots
  <1> USE DEF At, GoTo, Exit, SameLaunch, SameJob
  <1>0. /\ i \in Nat /\ i + 1 \in Nat /\ env.dirs \in 0 .. MaxDirs + 1 /\ MaxDirs \in Nat
        /\ MaxRoots \in Nat
    BY RefreshedType, BoundsAssumption DEF TypeOK
  <1>1. i * MaxRoots \in Nat /\ (i + 1) * MaxRoots = i * MaxRoots + MaxRoots
        /\ 1 * MaxRoots = MaxRoots
    BY <1>0, OneMore
  <1>2. RefreshedEnv(env.dirs).dirs <= env.dirs + MaxRoots
        /\ RefreshedEnv(env.dirs).dirs \in Nat
    BY <1>0, RefreshedType
  <1>3. CASE \E a \in Dispatches, f \in Forces : Launch(a, f)
    <2>1. RefreshedEnv(0).dirs <= MaxRoots
      BY <1>0, RefreshedType
    <2>2. pc' = "loop" /\ i' = 1 /\ env' = RefreshedEnv(0)
      BY <1>3 DEF Launch, Stopped
    <2> QED
      BY <1>1, <2>1, <2>2
  <1>4. CASE Skip
    <2>1. /\ env.dirs <= i * MaxRoots /\ pc' = "loop" /\ i' = i + 1
          /\ env' = RefreshedEnv(env.dirs)
      BY <1>4 DEF Skip, Looping, FewDirs, MaxRoots, Stopped
    <2> QED
      BY <1>0, <1>1, <1>2, <2>1
  <1>5. CASE StartRecipe
    <2>1. /\ env.dirs <= i * MaxRoots /\ pc' = "fetch" /\ i' = i
          /\ env'.dirs = RefreshedEnv(env.dirs).dirs
      BY <1>5 DEF StartRecipe, Looping, FewDirs, MaxRoots, Stopped, RecipeEnv, RefreshedEnv
    <2> QED
      BY <1>0, <1>1, <1>2, <2>1
  <1>6. CASE pc \in InRecipe /\ pc' \in InRecipe /\ UNCHANGED <<env, jobs, i, force>>
    BY <1>6 DEF FewDirs, MaxRoots, InRecipe, Stopped
  <1>7. CASE HarvestMove \/ PostMatches \/ PostMisses
    <2>1. UNCHANGED env /\ (pc' \in InRecipe \/ (pc' = "loop" /\ i' = i + 1))
      BY <1>7 DEF HarvestMove, PostMatches, PostMisses, NextJob, InRecipe, Stopped
    <2>2. pc \in InRecipe /\ env.dirs <= (i + 1) * MaxRoots
      BY <1>7 DEF HarvestMove, PostMatches, PostMisses, FewDirs, MaxRoots, InRecipe, Stopped
    <2>3. CASE pc' = "loop" /\ i' = i + 1
      BY <2>1, <2>2, <2>3
    <2>4. CASE pc' \in InRecipe
      BY <1>6, <1>7, <2>2, <2>4, RecipeStep, <1>5
    <2> QED
      BY <2>1, <2>3, <2>4
  <1>8. CASE UNCHANGED vars \/ \E l \in Libs : Edit(l)
    BY <1>8 DEF vars, Edit, FewDirs, MaxRoots
  <1>9. CASE \/ UnknownLib \/ FinishLaunch \/ EnvTooLong \/ ConfigureFails
             \/ StepFails \/ Kill
    BY <1>9 DEF UnknownLib, FinishLaunch, EnvTooLong, ConfigureFails, StepFails, Kill, Stopped
  <1>10. CASE \/ FetchCached \/ Download \/ Extract \/ Build \/ HarvestWipe
              \/ HarvestCopy \/ HarvestRelocate
    <2>1. pc' \in InRecipe
      BY <1>10 DEF FetchCached, Download, Extract, Build, HarvestWipe, HarvestCopy,
                   HarvestRelocate, InRecipe, Stopped
    <2> QED
      BY <2>1, <1>5, <1>6, RecipeStep
  <1> QED
    BY <1>3, <1>4, <1>5, <1>7, <1>8, <1>9, <1>10, StepCases

LEMMA EnvFitsStep == TypeOK /\ FewDirs /\ EnvFits /\ [Next]_vars => EnvFits'
  <1> SUFFICES ASSUME TypeOK, FewDirs, EnvFits, [Next]_vars PROVE EnvFits'
    OBVIOUS
  <1> USE DEF At, GoTo, Exit, SameLaunch, SameJob, EnvFits
  <1>1. CASE EnvTooLong
    <2>1. /\ i \in 1 .. Len(jobs) /\ Len(jobs) \in Nat /\ env.dirs \in Nat
          /\ MaxDirs \in Nat /\ MaxRoots \in Nat
      BY <1>1, RefreshedType, BoundsAssumption DEF EnvTooLong, TypeOK, InRecipe
    <2>2. env.dirs <= (i + 1) * MaxRoots /\ env.dirs > MaxDirs
      BY <1>1 DEF EnvTooLong, TooLong, FewDirs, MaxRoots, Stopped
    <2>3. (i + 1) * MaxRoots <= (Len(jobs) + 1) * MaxRoots
      BY <2>1, Monotone
    <2>4. (i + 1) * MaxRoots \in Nat /\ (Len(jobs) + 1) * MaxRoots \in Nat
      BY <2>1, OneMore
    <2>5. ~((Len(jobs) + 1) * MaxRoots <= MaxDirs)
      BY <2>1, <2>2, <2>3, <2>4
    <2> QED
      BY <1>1, <2>5 DEF EnvTooLong, MaxRoots
  <1>2. CASE \E a \in Dispatches, f \in Forces : Launch(a, f)
    BY <1>2 DEF Launch
  <1>3. CASE \/ Skip \/ UnknownLib \/ StartRecipe \/ FinishLaunch
             \/ ConfigureFails \/ FetchCached \/ Download \/ Extract \/ Build
    BY <1>3 DEF Skip, UnknownLib, StartRecipe, FinishLaunch, ConfigureFails, FetchCached,
                Download, Extract, Build
  <1>4. CASE \/ HarvestWipe \/ HarvestCopy \/ HarvestRelocate \/ HarvestMove
             \/ PostMatches \/ PostMisses
    BY <1>4 DEF HarvestWipe, HarvestCopy, HarvestRelocate, HarvestMove, PostMatches,
                PostMisses, NextJob
  <1>5. CASE StepFails \/ Kill \/ UNCHANGED vars \/ \E l \in Libs : Edit(l)
    BY <1>5 DEF StepFails, Kill, vars, Edit
  <1> QED
    BY <1>1, <1>2, <1>3, <1>4, <1>5, StepCases
-----------------------------------------------------------------------------
(* A recipe whose own tar failed has ended; the others hand the sources on. *)
LEMMA StrictSourcesStep == TypeOK /\ StrictSources /\ [Next]_vars => StrictSources'
  <1> SUFFICES ASSUME TypeOK, StrictSources, [Next]_vars PROVE StrictSources'
    OBVIOUS
  <1> USE DEF At, GoTo, Exit, SameLaunch, SameJob, StrictSources
  <1>1. CASE pc' \notin InRecipe
    BY <1>1
  <1>2. CASE StartRecipe \/ FetchCached \/ Download
    BY <1>2 DEF StartRecipe, FetchCached, Download
  <1>3. CASE Extract
    BY <1>3 DEF Extract, TarNoticed, Lib
  <1>4. CASE Build
    BY <1>4, InstalledType DEF Build, Pcs, TypeOK, InRecipe, Lib
  <1>5. CASE HarvestWipe
    BY <1>5 DEF HarvestWipe, InRecipe, Lib
  <1>6. CASE HarvestCopy
    BY <1>6, OverlayType DEF HarvestCopy, TypeOK, InRecipe, Lib
  <1>7. CASE HarvestRelocate
    BY <1>7, RelocatedType DEF HarvestRelocate, TypeOK, InRecipe, Lib
  <1>8. CASE HarvestMove
    BY <1>8 DEF HarvestMove, NextJob
  <1>9. CASE UNCHANGED vars
    BY <1>9 DEF vars, Lib
  <1> QED
    BY <1>1, <1>2, <1>3, <1>4, <1>5, <1>6, <1>7, <1>8, <1>9, StepCases, Leaving

LEMMA StrictFromWholeStep ==
  TypeOK /\ StrictSources /\ StrictFromWhole /\ [Next]_vars => StrictFromWhole'
  <1> SUFFICES ASSUME TypeOK, StrictSources, StrictFromWhole, [Next]_vars,
                      NEW l \in Strict, Present(repo[l])'
               PROVE  repo'[l].tgz = "whole"
    BY DEF StrictFromWhole
  <1>1. l \in Libs /\ repo[l] \in Tree
    BY TiersAssumption DEF TypeOK
  <1>2. CASE repo'[l] = repo[l]
    BY <1>2 DEF StrictFromWhole, Present
  <1>3. CASE l = Lib /\ repo'[l] \in {NoTree, Torn(repo[l])}
    BY <1>1, <1>3, NoTreeType, TornType DEF StrictFromWhole, Present
  <1>4. CASE At("move") /\ l = Lib /\ repo'[l] = tmp[l]
    BY <1>4 DEF StrictSources, InRecipe, At
  <1>5. CASE repo'[l].tgz = repo[l].tgz /\ repo'[l].vers = repo[l].vers
    BY <1>5 DEF StrictFromWhole, Present
  <1> QED
    BY <1>1, <1>2, <1>3, <1>4, <1>5, RepoStep
-----------------------------------------------------------------------------
(* A tree is put in place only by way of the gate. *)
LEMMA GatePassedStep == TypeOK /\ GatePassed /\ [Next]_vars => GatePassed'
  <1> SUFFICES ASSUME TypeOK, GatePassed, [Next]_vars PROVE GatePassed'
    OBVIOUS
  <1> USE DEF At, GoTo, Exit, SameLaunch, SameJob, GatePassed
  <1>1. CASE pc' # "move"
    BY <1>1
  <1>2. CASE HarvestRelocate
    BY <1>2 DEF HarvestRelocate, TypeOK, InRecipe, Lib
  <1>3. CASE UNCHANGED vars
    BY <1>3 DEF vars, Lib
  <1>4. CASE \/ StartRecipe \/ FetchCached \/ Download \/ Extract \/ Build
             \/ HarvestWipe \/ HarvestCopy \/ HarvestMove
    BY <1>4 DEF StartRecipe, FetchCached, Download, Extract, Build, HarvestWipe,
                HarvestCopy, HarvestMove, NextJob
  <1> QED
    BY <1>1, <1>2, <1>3, <1>4, StepCases, Leaving DEF InRecipe

LEMMA GateOnRunnerStep ==
  TypeOK /\ GatePassed /\ GateOnRunner /\ [Next]_vars => GateOnRunner'
  <1> SUFFICES ASSUME TypeOK, GatePassed, GateOnRunner, [Next]_vars, OnRunner,
                      NEW l \in Libs \ Legacy
               PROVE  repo'[l].pcs = "rel"
    BY DEF GateOnRunner
  <1>1. repo[l].pcs = "rel" /\ repo[l] \in Tree
    BY DEF GateOnRunner, TypeOK
  <1>2. CASE l = Lib /\ repo'[l] \in {NoTree, Torn(repo[l])}
    BY <1>1, <1>2, TornType DEF NoTree
  <1>3. CASE At("move") /\ l = Lib /\ repo'[l] = tmp[l]
    BY <1>3 DEF GatePassed, PassesGate, At
  <1> QED
    BY <1>1, <1>2, <1>3, RepoStep
-----------------------------------------------------------------------------
(* Without FORCE the recipe of a library runs only while it has no tree.    *)
LEMMA NothingToLoseStep == TypeOK /\ NothingToLose /\ [Next]_vars => NothingToLose'
  <1> SUFFICES ASSUME TypeOK, NothingToLose, [Next]_vars,
                      (pc \in InRecipe \ {"post"})', ~force'
               PROVE  ~Present(repo'[Lib'])
    BY DEF NothingToLose
  <1> USE DEF At, GoTo, Exit, SameLaunch, SameJob, SameDisk, disk
  <1>1. CASE StartRecipe
    BY <1>1 DEF StartRecipe, SkipsJob, Lib
  <1>2. CASE UNCHANGED vars
    BY <1>2 DEF vars, NothingToLose, Lib
  <1>3. CASE pc \in InRecipe /\ UNCHANGED <<env, jobs, i, force>> /\ ~UNCHANGED vars
    <2>1. pc # "post" /\ pc # "move"
      BY <1>3, Leaving, StepCases DEF StartRecipe, FetchCached, Download, Extract, Build,
         HarvestWipe, HarvestCopy, HarvestRelocate, HarvestMove, NextJob, Looping, InRecipe
    <2>2. ~Present(repo[Lib]) /\ Lib' = Lib /\ Lib \in Libs /\ repo[Lib] \in Tree
      BY <1>3, <2>1 DEF NothingToLose, Lib, TypeOK
    <2> QED
      BY <2>1, <2>2, RepoStep, NoTreeType, TornType
  <1> QED
    BY <1>1, <1>2, <1>3, RecipeStep

LEMMA KeepsStep ==
  TypeOK /\ NothingToLose /\ [Next]_vars =>
    [~force => \A l \in Libs :
       Present(repo[l]) => repo'[l] = repo[l] \/ (At("post") /\ l = Lib)]_vars
  <1> SUFFICES ASSUME TypeOK, NothingToLose, [Next]_vars, ~force,
                      NEW l \in Libs, Present(repo[l])
               PROVE  repo'[l] = repo[l] \/ (At("post") /\ l = Lib)
    OBVIOUS
  <1> QED
    BY RepoStep DEF NothingToLose, At, InRecipe
-----------------------------------------------------------------------------
(* The invariant the theorems share. *)
Safety == /\ TypeOK /\ IndInv /\ PassedIsHarvested /\ ForcedIsCurrent
          /\ FlagsIsolated /\ StrictFromWhole /\ GateOnRunner /\ EnvFits

LEMMA InitSafety == Init => Safety
  <1> SUFFICES ASSUME Init PROVE Safety
    OBVIOUS
  <1>1. TypeOK
    BY InitTypeOK
  <1>2. pc \notin InRecipe /\ pc = "idle"
    BY DEF Init, InRecipe
  <1>3. IndInv
    BY <1>2 DEF IndInv, HandedOn, FoundDeps, StrictSources, GatePassed, NothingToLose,
       FewDirs, Stopped
  <1>4. PassedIsHarvested /\ ForcedIsCurrent
    BY DEF Init, PassedIsHarvested, ForcedIsCurrent
  <1>5. FlagsIsolated /\ EnvFits
    BY <1>2 DEF Init, FlagsIsolated, EnvFits
  <1>6. StrictFromWhole
    BY TiersAssumption DEF Init, StrictFromWhole, LegacyTree, NoTree
  <1>7. GateOnRunner
    BY DEF Init, GateOnRunner, NoTree
  <1> QED
    BY <1>1, <1>3, <1>4, <1>5, <1>6, <1>7 DEF Safety

LEMMA NextSafety == Safety /\ [Next]_vars => Safety'
  BY NextTypeOK, HandedOnStep, PassedStep, ForcedStep, FoundDepsStep, FlagsStep,
     StrictSourcesStep, StrictFromWholeStep, GatePassedStep, GateOnRunnerStep,
     NothingToLoseStep, FewDirsStep, EnvFitsStep DEF Safety, IndInv

LEMMA Safe == Spec => []Safety
  BY InitSafety, NextSafety, PTL DEF Spec

(* What each command of a recipe finds is what the one before it left. *)
THEOREM HandOver == Spec => []IndInv
  BY Safe, PTL DEF Safety

(* The for loop leaves behind only libraries that are in the repository, in *)
(* every launch, whatever the earlier ones left.                            *)
THEOREM LoopLeavesTrees == Spec => []PassedIsHarvested
  BY Safe, PTL DEF Safety

(* After the loop passes a library under FORCE, it holds what the current   *)
(* recipe installs, whatever older trees .work and the repository held.     *)
THEOREM ForcedRebuilds == Spec => []ForcedIsCurrent
  BY Safe, PTL DEF Safety

(* A launch over a list in dependency order finds a folder for everything   *)
(* it looks up: refresh_env is called before each library.  It ends for a   *)
(* dependency only over a tree that was skipped although it is not usable,  *)
(* and under FORCE only over one that was misbuilt.                         *)
THEOREM OrderSuffices == Spec => DepsBeforeUse
  <1>1. Safety /\ [Next]_vars => [EndsForDependency /\ InOrder(jobs) =>
          /\ \A l \in Needs[Lib] : Present(repo[l])
          /\ \E l \in Needs[Lib] : IF force THEN Misbuilt(repo[l]) ELSE ~Usable(l)]_vars
    BY DepsBeforeUseStep DEF Safety, IndInv
  <1> QED
    BY <1>1, Safe, PTL DEF Spec, DepsBeforeUse

(* When the tiers are in dependency order a launch of everything finds a    *)
(* folder for each dependency, whatever the launches before it left.        *)
THEOREM TiersInOrder == InOrder(JobsOf(<<"all">>)) => (Spec => AllFindsDeps)
  <1> SUFFICES ASSUME InOrder(JobsOf(<<"all">>)) PROVE Spec => AllFindsDeps
    OBVIOUS
  <1>1. Safety /\ [Next]_vars => [EndsForDependency /\ jobs = JobsOf(<<"all">>) =>
          \A l \in Needs[Lib] : Present(repo[l])]_vars
    BY DepsBeforeUseStep DEF Safety, IndInv
  <1> QED
    BY <1>1, Safe, PTL DEF Spec, AllFindsDeps

(* A list short enough for its sum never fills LIBRARY_PATH, although every *)
(* library of it lengthens the variable again.                              *)
THEOREM ShortListsFit == Spec => []EnvFits
  BY Safe, PTL DEF Safety

(* The flags libxkbcommon exports stay with libxkbcommon. *)
THEOREM FlagsStayHome == Spec => []FlagsIsolated
  BY Safe, PTL DEF Safety

(* icu is harvested only from a whole tarball, since it runs tar itself. *)
THEOREM StrictRecipes == Spec => []StrictFromWhole
  BY Safe, PTL DEF Safety

(* On the runner the gate of harvest keeps absolute paths out of every .pc  *)
(* this version of the script harvests.                                     *)
THEOREM GateKeeps == Spec => []GateOnRunner
  BY Safe, PTL DEF Safety

(* Without FORCE no step of any launch damages or replaces a tree.          *)
THEOREM UnforcedIsHarmless == Spec => KeepsHarvested
  BY Safe, KeepsStep, PTL DEF Safety, IndInv, Spec, KeepsHarvested
-----------------------------------------------------------------------------
(* What of QuietLaunchFinishes needs no fairness.  A launch is quiet when   *)
(* no fault is left to happen, its list is in order and not too long, and   *)
(* what earlier launches left is as QuietLaunchFinishes asks.  The trees it *)
(* has passed (without FORCE, all that are there) are usable, and what the  *)
(* recipe at work has made so far will be.                                  *)
QuietTrees ==
  /\ \A l \in Libs :
       /\ Present(repo[l]) /\ (force => \E k \in 1 .. i - 1 : jobs[k] = l)
       /\ ~(pc \in InRecipe /\ l = Lib)
       => Usable(l)
  /\ pc \in {"harvest", "copy"} => /\ stg[Lib].tgz = "whole" /\ stg[Lib].pcs = "stg"
                                   /\ Lib \in PostSteps \/ stg[Lib].post
  /\ pc \in {"reloc", "move"} => /\ tmp[Lib].tgz = "whole" /\ tmp[Lib].pcs \in {"rel", "stg"}
                                 /\ Lib \in PostSteps \/ tmp[Lib].post
  /\ pc = "post" => repo[Lib].tgz = "whole" /\ repo[Lib].pcs \in {"rel", "stg"}

Quiet ==
  /\ pc \in {"loop", "done"} \cup InRecipe /\ faults = 0
  /\ CleanTarballs /\ CleanBuildDirs
  /\ jobs \in Seq(Libs) /\ InOrder(jobs) /\ (Len(jobs) + 1) * MaxRoots <= MaxDirs
  /\ pc = "extract" => Tarball # "none"
  /\ pc = "build" => src = "whole"
  /\ pc = "reloc" => tmp[Lib].pcs = "stg"
  /\ QuietTrees

(* The commands of a library that are behind the launch, and those that are *)
(* still to come, at most nine for each library and one for the end.        *)
Behind == CASE pc = "fetch" -> 1 [] pc = "extract" -> 2 [] pc = "build" -> 3
            [] pc = "harvest" -> 4 [] pc = "copy" -> 5 [] pc = "reloc" -> 6
            [] pc = "move" -> 7 [] pc = "post" -> 8 [] OTHER -> 0
StepsLeft == IF pc = "done" THEN 0 ELSE 9 * (Len(jobs) + 1 - i) + 1 - Behind

(* One command after the other, or one library after the other.             *)
LEMMA FewerLeft ==
  ASSUME TypeOK, ~At("done"), UNCHANGED jobs,
         \/ i' = i /\ pc' # "done" /\ Behind' > Behind
         \/ i' = i + 1 /\ At("loop")'
         \/ At("done")'
  PROVE  StepsLeft' < StepsLeft
  <1>1. /\ Behind \in 0 .. 8 /\ Behind' \in 0 .. 8 /\ (pc' \in {"loop", "done"} => Behind' = 0)
        /\ i \in 1 .. Len(jobs) + 1 /\ Len(jobs) \in Nat
        /\ i = Len(jobs) + 1 => Behind = 0
    BY DEF Behind, TypeOK, InRecipe, Stopped
  <1> HIDE DEF Behind
  <1>2. StepsLeft = 9 * (Len(jobs) + 1 - i) + 1 - Behind
    BY DEF StepsLeft, At
  <1>3. CASE i' = i /\ pc' # "done" /\ Behind' > Behind
    BY <1>1, <1>2, <1>3 DEF StepsLeft
  <1>4. CASE i' = i + 1 /\ At("loop")'
    BY <1>1, <1>2, <1>4 DEF StepsLeft, At
  <1>5. CASE At("done")'
    BY <1>1, <1>2, <1>5 DEF StepsLeft, At
  <1> QED
    BY <1>3, <1>4, <1>5

(* Where a quiet launch is, everything the next command asks for is there.  *)
LEMMA QuietHas ==
  ASSUME Safety, Quiet
  PROVE  /\ ~Fault /\ pc \notin {"idle", "failed", "killed"}
         /\ Looping => Lib \in Libs
         /\ pc \in InRecipe => /\ i \in 1 .. Len(jobs) /\ Lib \in Libs /\ ~TooLong
                               /\ DepsThere /\ DepsUsable /\ ~OldDir
         /\ pc = "extract" => Tarball = "whole"
         /\ pc = "build" => HasSources
  <1>0. TypeOK /\ IndInv
    BY DEF Safety
  <1>1. ~Fault /\ pc \notin {"idle", "failed", "killed"}
    BY DEF Quiet, Fault, InRecipe
  <1>2. Looping => Lib \in Libs
    BY <1>0 DEF Quiet, Looping, Lib, TypeOK
  <1>3. ASSUME pc \in InRecipe PROVE i \in 1 .. Len(jobs) /\ Lib \in Libs
    BY <1>0, <1>3 DEF TypeOK
  <1>4. ASSUME pc \in InRecipe PROVE ~TooLong
    <2>1. /\ i \in 1 .. Len(jobs) /\ i \in Nat /\ Len(jobs) \in Nat /\ MaxRoots \in Nat
          /\ env.dirs \in Nat
      BY <1>0, <1>3, <1>4, RefreshedType DEF TypeOK
    <2>2. env.dirs <= (i + 1) * MaxRoots
      BY <1>0, <1>4 DEF IndInv, FewDirs, InRecipe, Stopped, MaxRoots
    <2>3. (i + 1) * MaxRoots <= (Len(jobs) + 1) * MaxRoots
      BY <2>1, Monotone
    <2>4. (i + 1) * MaxRoots \in Nat /\ (Len(jobs) + 1) * MaxRoots \in Nat
      BY <2>1, OneMore
    <2> QED
      BY <2>1, <2>2, <2>3, <2>4, BoundsAssumption DEF Quiet, TooLong
  <1>5. ASSUME pc \in InRecipe PROVE DepsThere /\ ~OldDir
    BY <1>0, <1>3, <1>5 DEF IndInv, FoundDeps, Quiet, CleanBuildDirs, OldDir
  <1>5x. ASSUME pc \in InRecipe PROVE DepsUsable
    <2> SUFFICES ASSUME NEW l \in Needs[Lib] PROVE Usable(l)
      BY DEF DepsUsable
    <2>1. i \in DOMAIN jobs /\ l \in Libs /\ l # Lib
      BY <1>0, <1>3, <1>5x, TiersAssumption DEF TypeOK
    <2>2. PICK k \in 1 .. i - 1 : jobs[k] = l
      BY <1>3, <1>5x, <2>1 DEF Quiet, InOrder, Lib
    <2>3. Present(repo[l])
      BY <1>0, <2>1, <2>2 DEF Safety, PassedIsHarvested, Retaken, Lib
    <2> QED
      BY <2>1, <2>2, <2>3 DEF Quiet, QuietTrees
  <1>6. pc = "extract" => Tarball = "whole"
    BY <1>3 DEF Quiet, CleanTarballs, Tarball, InRecipe
  <1>7. pc = "build" => HasSources
    BY DEF Quiet, HasSources
  <1> QED
    BY <1>1, <1>2, <1>3, <1>4, <1>5, <1>5x, <1>6, <1>7

(* The steps a quiet launch can take. *)
LEMMA QuietCases ==
  ASSUME Safety, Quiet, Next
  PROVE  \/ Skip \/ StartRecipe \/ FinishLaunch \/ FetchCached \/ Download \/ Extract
         \/ Build \/ HarvestWipe \/ HarvestCopy \/ HarvestRelocate \/ HarvestMove
         \/ PostMatches \/ At("done")
  <1>1. ~UnknownLib /\ ~EnvTooLong /\ ~ConfigureFails /\ ~PostMisses /\ ~StepFails /\ ~Kill
    BY QuietHas DEF UnknownLib, EnvTooLong, ConfigureFails, PostMisses, StepFails, Kill,
       InRecipe, At
  <1>2. pc \notin Stopped \/ At("done")
    BY QuietHas DEF Stopped, At
  <1> QED
    BY <1>1, <1>2 DEF Next, ScriptStep, Advance, Launch, Edit

(* A library whose tree, prefix and pin are left alone stays usable. *)
LEMMA StaysUsable ==
  ASSUME NEW l, Usable(l), repo'[l] = repo[l], stg'[l] = stg[l], recipe'[l] = recipe[l]
  PROVE  Usable(l)'
  BY DEF Usable, Resolves, Present

LEMMA QuietTreesStep ==
  ASSUME Safety, Quiet, ~At("done"), Next
  PROVE  QuietTrees'
  <1> USE DEF At, GoTo, Exit, SameLaunch, SameJob, SameDisk, disk
  <1>0. /\ TypeOK /\ HandedOn /\ QuietTrees /\ i \in 1 .. Len(jobs) + 1 /\ Len(jobs) \in Nat
        /\ pc \in InRecipe => i <= Len(jobs) /\ Lib \in Libs
    BY DEF Safety, IndInv, Quiet, TypeOK
  <1>1. CASE Skip \/ StartRecipe \/ FinishLaunch
    <2>1. /\ UNCHANGED <<repo, stg, recipe, force, jobs>> /\ pc = "loop" /\ pc' \notin InRecipe \ {"fetch"}
          /\ i' = i \/ (i' = i + 1 /\ ~force)
      BY <1>1 DEF Skip, StartRecipe, FinishLaunch, SkipsJob, Looping, InRecipe
    <2>2. ASSUME NEW l \in Libs, Present(repo[l]), force => \E k \in 1 .. i - 1 : jobs[k] = l
          PROVE  Usable(l)'
      <3>1. Usable(l)
        BY <1>0, <2>1, <2>2 DEF QuietTrees, InRecipe
      <3> QED
        BY <2>1, <3>1, StaysUsable
    <2>3. \A l \in Libs : Present(repo[l])' => Present(repo[l])
      BY <2>1 DEF Present
    <2> QED
      BY <2>1, <2>2, <2>3 DEF QuietTrees, InRecipe
  <1>l. PICK lib : lib = Lib
    OBVIOUS
  (* The trees of other libraries, and its own once the loop goes on. *)
  <1>2. ASSUME pc \in InRecipe, UNCHANGED <<recipe, force, jobs>>,
               \/ i' = i /\ pc' \in InRecipe
               \/ i' = i + 1 /\ pc' = "loop" /\ Usable(lib)',
               NEW l \in Libs, Present(repo[l])',
               (force => \E k \in 1 .. i - 1 : jobs[k] = l)',
               ~(pc \in InRecipe /\ l = Lib)'
        PROVE  Usable(l)'
    <2>1. CASE l = lib
      <3>1. ~(i' = i /\ pc' \in InRecipe)
        BY <1>l, <1>2, <2>1 DEF Lib
      <3> QED
        BY <1>2, <2>1, <3>1
    <2>2. CASE l # lib
      <3>1. repo'[l] = repo[l] /\ stg'[l] = stg[l] /\ recipe'[l] = recipe[l]
        BY <1>0, <1>l, <1>2, <2>2, RepoStep, StgStep
      <3>2. Present(repo[l])
        BY <1>2, <3>1 DEF Present
      <3>3. ASSUME force PROVE \E k \in 1 .. i - 1 : jobs[k] = l
        <4>1. PICK k \in 1 .. i' - 1 : jobs[k] = l
          BY <1>2, <3>3
        <4>2. k # i
          BY <1>l, <2>2, <4>1 DEF Lib
        <4> QED
          BY <1>0, <1>2, <4>1, <4>2
      <3>4. Usable(l)
        BY <1>0, <1>l, <2>2, <3>2, <3>3 DEF QuietTrees
      <3> QED
        BY <3>1, <3>4, StaysUsable
    <2> QED
      BY <2>1, <2>2
  <1>3. CASE FetchCached \/ Download \/ Extract
    <2>1. /\ pc \in InRecipe /\ UNCHANGED <<recipe, force, jobs, i>>
          /\ pc' \in {"extract", "build"}
      BY <1>3, QuietHas DEF FetchCached, Download, Extract, TarNoticed, InRecipe
    <2> QED
      BY <1>2, <2>1 DEF QuietTrees, InRecipe
  <1>4. CASE Build
    <2>1. /\ pc = "build" /\ UNCHANGED <<recipe, force, jobs, i>> /\ pc' = "harvest"
          /\ stg' = [stg EXCEPT ![Lib] = Installed("stg")] /\ src = "whole"
      BY <1>4, QuietHas DEF Build, Quiet
    <2>2. stg'[Lib] = Installed("stg") /\ Lib' = Lib
      BY <1>0, <2>1 DEF TypeOK, InRecipe, Lib
    <2>3. (/\ stg[Lib].tgz = "whole" /\ stg[Lib].pcs = "stg"
           /\ Lib \in PostSteps \/ stg[Lib].post)'
      BY <1>0, <2>1, <2>2, InstalledType DEF Pcs
    <2> QED
      BY <1>2, <2>1, <2>3 DEF QuietTrees, InRecipe
  <1>5. CASE HarvestWipe
    <2>1. pc = "harvest" /\ pc' = "copy" /\ UNCHANGED <<recipe, force, jobs, i, stg>>
      BY <1>5 DEF HarvestWipe
    <2> QED
      BY <1>0, <1>2, <2>1 DEF QuietTrees, InRecipe, Lib
  <1>6. CASE HarvestCopy
    <2>1. /\ pc = "copy" /\ pc' = "reloc" /\ UNCHANGED <<recipe, force, jobs, i, stg>>
          /\ tmp'[Lib] = Overlay(tmp[Lib], stg[Lib]) /\ Lib' = Lib
          /\ tmp[Lib] \in Tree /\ stg[Lib] \in Tree
      BY <1>0, <1>6 DEF HarvestCopy, TypeOK, InRecipe, Lib
    <2>2. (/\ tmp[Lib].tgz = "whole" /\ tmp[Lib].pcs \in {"rel", "stg"}
           /\ Lib \in PostSteps \/ tmp[Lib].post)'
      BY <1>0, <2>1, OverlayType DEF QuietTrees
    <2> QED
      BY <1>2, <2>1, <2>2 DEF QuietTrees, InRecipe
  <1>7. CASE HarvestRelocate
    <2>1. /\ pc = "reloc" /\ UNCHANGED <<recipe, force, jobs, i, stg>> /\ Lib' = Lib
          /\ tmp'[Lib] = Relocated(tmp[Lib]) /\ tmp[Lib] \in Tree /\ tmp[Lib].pcs = "stg"
          /\ pc' = "move" \/ ~PassesGate(Relocated(tmp[Lib]))
      BY <1>0, <1>7 DEF HarvestRelocate, TypeOK, InRecipe, Lib, Quiet
    <2>2. pc' = "move"
      BY <2>1 DEF PassesGate, Relocated, Tree
    <2>3. (/\ tmp[Lib].tgz = "whole" /\ tmp[Lib].pcs \in {"rel", "stg"}
           /\ Lib \in PostSteps \/ tmp[Lib].post)'
      BY <1>0, <2>1, RelocatedType DEF QuietTrees
    <2> QED
      BY <1>2, <2>1, <2>2, <2>3 DEF QuietTrees, InRecipe
  <1>8. CASE HarvestMove
    <2>1. /\ pc = "move" /\ UNCHANGED <<recipe, force, jobs, stg>>
          /\ repo' = [repo EXCEPT ![lib] = tmp[lib]] /\ lib \in Libs
          /\ \/ lib \in PostSteps /\ pc' = "post" /\ i' = i /\ Lib' = lib
             \/ lib \notin PostSteps /\ pc' = "loop" /\ i' = i + 1
      BY <1>0, <1>l, <1>8 DEF HarvestMove, NextJob, InRecipe, Lib
    <2>2. /\ repo'[lib] = tmp[lib] /\ tmp[lib].tgz = "whole" /\ tmp[lib].pcs \in {"rel", "stg"}
          /\ recipe[lib] \in tmp[lib].vers /\ tmp[lib].whole
          /\ recipe[lib] \in stg[lib].vers /\ stg[lib].whole
          /\ lib \in PostSteps \/ tmp[lib].post
      BY <1>0, <1>l, <2>1 DEF QuietTrees, HandedOn, Complete, TypeOK
    <2>3. lib \notin PostSteps => Usable(lib)'
      BY <2>1, <2>2 DEF Usable, Resolves, Present
    <2> QED
      BY <1>2, <2>1, <2>2, <2>3 DEF QuietTrees, InRecipe
  <1>9. CASE PostMatches
    <2>1. /\ pc = "post" /\ UNCHANGED <<recipe, force, jobs, stg>> /\ lib \in Libs
          /\ repo'[lib] = [repo[lib] EXCEPT !.post = TRUE] /\ repo[lib] \in Tree
          /\ pc' = "loop" /\ i' = i + 1
      BY <1>0, <1>l, <1>9 DEF PostMatches, NextJob, TypeOK, InRecipe
    <2>2. /\ repo[lib].tgz = "whole" /\ repo[lib].pcs \in {"rel", "stg"}
          /\ recipe[lib] \in repo[lib].vers /\ repo[lib].whole
          /\ recipe[lib] \in stg[lib].vers /\ stg[lib].whole
      BY <1>0, <1>l, <2>1 DEF QuietTrees, HandedOn, Complete
    <2>3. /\ repo'[lib].tgz = "whole" /\ repo'[lib].pcs \in {"rel", "stg"}
          /\ recipe[lib] \in repo'[lib].vers /\ repo'[lib].whole /\ repo'[lib].post
      BY <2>1, <2>2 DEF Tree
    <2>4. Usable(lib)'
      BY <2>1, <2>2, <2>3 DEF Usable, Resolves, Present
    <2> QED
      BY <1>2, <2>1, <2>4 DEF QuietTrees, InRecipe
  <1> QED
    BY <1>1, <1>3, <1>4, <1>5, <1>6, <1>7, <1>8, <1>9, QuietCases

LEMMA QuietStep ==
  Safety /\ Quiet /\ ~At("done") /\ Next => Quiet' /\ StepsLeft' < StepsLeft
  <1> SUFFICES ASSUME Safety, Quiet, ~At("done"), Next
               PROVE  Quiet' /\ StepsLeft' < StepsLeft
    OBVIOUS
  <1> USE DEF At, GoTo, Exit, SameLaunch, SameJob, SameDisk, disk
  <1>0. TypeOK /\ TypeOK'
    BY NextTypeOK DEF Safety
  <1>1. /\ jobs \in Seq(Libs) /\ InOrder(jobs) /\ (Len(jobs) + 1) * MaxRoots <= MaxDirs
        /\ CleanTarballs /\ CleanBuildDirs /\ faults = 0
    BY DEF Quiet
  <1>2. ASSUME UNCHANGED <<recipe, dl, bdir, jobs, faults>>
        PROVE  /\ CleanTarballs' /\ CleanBuildDirs' /\ faults' = 0
               /\ jobs' \in Seq(Libs) /\ InOrder(jobs)' /\ (Len(jobs') + 1) * MaxRoots <= MaxDirs
    BY <1>1, <1>2 DEF CleanTarballs, CleanBuildDirs, InOrder
  <1> HIDE DEF CleanTarballs, CleanBuildDirs, InOrder
  <1>q. QuietTrees'
    BY QuietTreesStep
  <1>3. CASE Skip
    <2>1. UNCHANGED <<recipe, dl, bdir, jobs, faults>> /\ i' = i + 1 /\ pc' = "loop"
      BY <1>3 DEF Skip, Looping
    <2> QED
      BY <1>0, <1>2, <2>1, FewerLeft, <1>q DEF Quiet
  <1>4. CASE StartRecipe
    <2>1. UNCHANGED <<recipe, dl, bdir, jobs, faults, i>> /\ pc = "loop" /\ pc' = "fetch"
      BY <1>4 DEF StartRecipe, Looping
    <2>2. Behind' > Behind
      BY <2>1 DEF Behind
    <2> QED
      BY <1>0, <1>2, <2>1, <2>2, FewerLeft, <1>q DEF Quiet, InRecipe
  <1>5. CASE FinishLaunch
    <2>1. UNCHANGED <<recipe, dl, bdir, jobs, faults>> /\ pc' = "done"
      BY <1>5 DEF FinishLaunch
    <2> QED
      BY <1>0, <1>2, <2>1, FewerLeft, <1>q DEF Quiet
  <1>6. CASE FetchCached
    <2>1. /\ UNCHANGED <<recipe, dl, bdir, jobs, faults, i>> /\ pc = "fetch" /\ pc' = "extract"
          /\ Tarball # "none"
      BY <1>6 DEF FetchCached
    <2>2. Behind' > Behind /\ Tarball' = Tarball
      BY <2>1 DEF Behind, Tarball, Lib
    <2> QED
      BY <1>0, <1>2, <2>1, <2>2, FewerLeft, <1>q DEF Quiet, InRecipe
  <1>7. CASE Download
    <2>1. /\ UNCHANGED <<recipe, bdir, jobs, i>> /\ pc = "fetch" /\ pc' = "extract"
          /\ dl' = [dl EXCEPT ![Lib][recipe[Lib]] = "whole"] /\ UNCHANGED faults
      BY <1>7, QuietHas DEF Download
    <2>2. Behind' > Behind
      BY <2>1 DEF Behind
    <2>3. CleanTarballs' /\ Tarball' # "none"
      <3>1. Lib \in Libs /\ Lib' = Lib /\ recipe \in [Libs -> Vers] /\ dl \in [Libs -> [Vers -> Tgz]]
        BY <1>0, <2>1 DEF TypeOK, InRecipe, Lib
      <3>2. \A l \in Libs : dl'[l][recipe[l]] = IF l = Lib THEN "whole" ELSE dl[l][recipe[l]]
        BY <2>1, <3>1
      <3> QED
        BY <1>1, <2>1, <3>1, <3>2 DEF CleanTarballs, Tarball
    <2>4. CleanBuildDirs' /\ InOrder(jobs)'
      BY <1>1, <2>1 DEF CleanBuildDirs, InOrder
    <2> QED
      BY <1>0, <1>1, <2>1, <2>2, <2>3, <2>4, FewerLeft, <1>q DEF Quiet, InRecipe
  <1>8. CASE Extract
    <2>1. /\ UNCHANGED <<recipe, dl, bdir, jobs, faults, i>> /\ pc = "extract" /\ pc' = "build"
          /\ src' = "whole"
      BY <1>8, QuietHas DEF Extract, TarNoticed
    <2>2. Behind' > Behind
      BY <2>1 DEF Behind
    <2> QED
      BY <1>0, <1>2, <2>1, <2>2, FewerLeft, <1>q DEF Quiet, InRecipe
  <1>9. CASE Build
    <2>1. /\ UNCHANGED <<recipe, dl, jobs, faults, i>> /\ pc = "build" /\ pc' = "harvest"
          /\ bdir' = Configured /\ stg' = [stg EXCEPT ![Lib] = Installed("stg")]
      BY <1>9, QuietHas DEF Build
    <2>2. Behind' > Behind
      BY <2>1 DEF Behind
    <2>3. Lib \in Libs /\ Lib' = Lib /\ stg \in [Libs -> Tree] /\ bdir \in [Libs -> SUBSET Vers]
      BY <1>0, <2>1 DEF TypeOK, InRecipe, Lib
    <2>4. stg'[Lib'].pcs = "stg"
      BY <2>1, <2>3 DEF Installed, Overlay
    <2>5. CleanBuildDirs'
      BY <1>1, <2>1, <2>3 DEF CleanBuildDirs, Configured
    <2>6. CleanTarballs' /\ InOrder(jobs)'
      BY <1>1, <2>1 DEF CleanTarballs, InOrder
    <2> QED
      BY <1>0, <1>1, <2>1, <2>2, <2>4, <2>5, <2>6, FewerLeft, <1>q DEF Quiet, InRecipe
  <1>10. CASE HarvestWipe
    <2>1. /\ UNCHANGED <<recipe, dl, bdir, jobs, faults, i, stg>>
          /\ pc = "harvest" /\ pc' = "copy"
      BY <1>10 DEF HarvestWipe
    <2>2. Behind' > Behind /\ Lib' = Lib
      BY <2>1 DEF Behind, Lib
    <2> QED
      BY <1>0, <1>2, <2>1, <2>2, FewerLeft, <1>q DEF Quiet, InRecipe
  <1>11. CASE HarvestCopy
    <2>1. /\ UNCHANGED <<recipe, dl, bdir, jobs, faults, i>> /\ pc = "copy" /\ pc' = "reloc"
          /\ tmp' = [tmp EXCEPT ![Lib] = Overlay(@, stg[Lib])]
      BY <1>11 DEF HarvestCopy
    <2>2. Behind' > Behind /\ Lib' = Lib /\ Lib \in Libs
      BY <1>0, <2>1 DEF Behind, Lib, TypeOK, InRecipe
    <2>3. tmp'[Lib].pcs = "stg"
      BY <1>0, <2>1, <2>2 DEF Quiet, QuietTrees, TypeOK, Overlay, Tree
    <2> QED
      BY <1>0, <1>2, <2>1, <2>2, <2>3, FewerLeft, <1>q DEF Quiet, InRecipe
  <1>12. CASE HarvestRelocate
    <2>1. tmp[Lib] \in Tree /\ tmp[Lib].pcs = "stg"
      BY <1>0, <1>12 DEF HarvestRelocate, Quiet, TypeOK, InRecipe
    <2>2. PassesGate(Relocated(tmp[Lib]))
      BY <2>1 DEF PassesGate, Relocated, Tree
    <2>3. UNCHANGED <<recipe, dl, bdir, jobs, faults, i>> /\ pc = "reloc" /\ pc' = "move"
      BY <1>12, <2>2 DEF HarvestRelocate
    <2>4. Behind' > Behind
      BY <2>3 DEF Behind
    <2> QED
      BY <1>0, <1>2, <2>3, <2>4, FewerLeft, <1>q DEF Quiet, InRecipe
  <1>13. CASE HarvestMove
    <2>1. /\ UNCHANGED <<recipe, dl, bdir, jobs, faults>> /\ pc = "move"
          /\ (pc' = "post" /\ i' = i) \/ (pc' = "loop" /\ i' = i + 1)
      BY <1>13 DEF HarvestMove, NextJob
    <2>2. pc' = "post" => Behind' > Behind
      BY <2>1 DEF Behind
    <2> QED
      BY <1>0, <1>2, <2>1, <2>2, FewerLeft, <1>q DEF Quiet, InRecipe
  <1>14. CASE PostMatches
    <2>1. UNCHANGED <<recipe, dl, bdir, jobs, faults>> /\ i' = i + 1 /\ pc' = "loop"
      BY <1>14 DEF PostMatches, NextJob
    <2> QED
      BY <1>0, <1>2, <2>1, FewerLeft, <1>q DEF Quiet
  <1> QED
    BY <1>3, <1>4, <1>5, <1>6, <1>7, <1>8, <1>9, <1>10, <1>11, <1>12, <1>13, <1>14, QuietCases

LEMMA StepsLeftIsNatural == TypeOK => StepsLeft \in Nat
  <1> SUFFICES ASSUME TypeOK PROVE StepsLeft \in Nat
    OBVIOUS
  <1>1. /\ Behind \in 0 .. 8 /\ i \in 1 .. Len(jobs) + 1 /\ Len(jobs) \in Nat
        /\ i = Len(jobs) + 1 => Behind = 0
    BY DEF Behind, TypeOK, InRecipe
  <1> HIDE DEF Behind
  <1> QED
    BY <1>1 DEF StepsLeft

(* Where the liveness property of the run starts, and what steps keep from  *)
(* there on.                                                                *)
QuietStart ==
  /\ At("loop") /\ i = 1 /\ jobs = AllLibs /\ faults = 0
  /\ CleanTarballs /\ CleanBuildDirs /\ (force \/ UsableTrees)
  /\ InOrder(AllLibs) /\ (Len(AllLibs) + 1) * MaxRoots <= MaxDirs
QuietGoesOn == [][Quiet /\ ~At("done") => Quiet' /\ StepsLeft' < StepsLeft]_vars

(* Recovery, but for the scheduler: from where QuietLaunchFinishes starts,  *)
(* with tiers that are in order and fit, a launch does not stop before it   *)
(* is done, under FORCE=1 whatever kills and failures left of the trees,    *)
(* and without it when the trees it skips are usable; and every step it     *)
(* takes is one of a number that was known when it began.                   *)
THEOREM QuietLaunchGoesOn ==
  Spec => [](StepsLeft \in Nat /\ (QuietStart => Quiet)) /\ QuietGoesOn
  <1>1. Safety /\ [Next]_vars
          => [Quiet /\ ~At("done") => Quiet' /\ StepsLeft' < StepsLeft]_vars
    BY QuietStep
  <1>2. AllLibs \in Seq(Libs)
    BY TiersAssumption DEF AllLibs
  <1>3. Safety => StepsLeft \in Nat /\ (QuietStart => Quiet)
    BY <1>2, StepsLeftIsNatural DEF Safety, QuietStart, Quiet, QuietTrees, UsableTrees, At
  <1> QED
    BY <1>1, <1>3, Safe, PTL DEF Spec, QuietGoesOn

=============================================================================
